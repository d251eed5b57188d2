----------------------------- MODULE MCSizesAndWeb -----------------------------
(* The daemon's handling of a session's size, goroutine by goroutine, and the   *)
(* browser client with the handlers it meets there, checked in one run. They    *)
(* share no state; topic says which of them moves.                              *)
EXTENDS SizeOwnershipHistory, WebClient, TLC

VARIABLE topic

sizesAndWebVars == <<topic, vars, history, webVars>>

\* The page finds one session running and may create another. It has all its
\* WebSockets and one event left, or all events and one WebSocket less.
SizesAndWebInit ==
    /\ topic \in {"sizes", "web"}
    /\ HistoryInit /\ WebInit
    /\ topic = "sizes" => sessions = {} /\ deskAt = Nobody
    /\ topic = "web" => sessions = {CHOOSE s \in Sids : TRUE}
    /\ topic = "web" => IF \E c \in Sockets : ws[c] = "closed"
                          THEN events = 0 /\ \E c \in Sockets : ws[c] = "unused"
                          ELSE events = MaxEvents - 1
    /\ topic = "sizes" => events = 0 /\ \A c \in Sockets : ws[c] # "closed"

WebDoes(A) == topic = "web" /\ A /\ UNCHANGED <<topic, vars, history>>

SizesAndWebNext ==
    \/ topic = "sizes" /\ HistoryNext /\ UNCHANGED <<topic, webVars>>
    \/ \E s \in Sids :
         \/ WebDoes(TapSession(s)) \/ WebDoes(TapKill(s))
         \/ WebDoes(DeskTakes(s)) \/ WebDoes(DeskSubscribes(s))
         \/ WebDoes(SessionEnds(s)) \/ WebDoes(Unregister(s))
    \/ WebDoes(DeskLeaves) \/ WebDoes(DeskUnsubscribes)
    \/ WebDoes(TapNew) \/ WebDoes(TapRefresh) \/ WebDoes(TapReconnect)
    \/ WebDoes(TapMode) \/ WebDoes(ResizeWindow) \/ WebDoes(TapBack)
    \/ WebDoes(ListArrives) \/ WebDoes(CreatedArrives) \/ WebDoes(ErrorArrives)
    \/ WebDoes(EndArrives) \/ WebDoes(FlagArrives)
    \/ \E c \in Sockets :
         \/ WebDoes(Opened(c)) \/ WebDoes(Lost(c)) \/ WebDoes(Dropped(c))
         \/ WebDoes(Subscribes(c)) \/ WebDoes(Unsubscribes(c)) \/ WebDoes(Notice(c))
         \/ WebDoes(ServeList(c)) \/ WebDoes(ServeNew(c)) \/ WebDoes(Start(c))
         \/ WebDoes(ServeKill(c)) \/ WebDoes(Forget(c)) \/ WebDoes(ServeAttach(c))
         \/ WebDoes(Greet(c)) \/ WebDoes(ServeResize(c)) \/ WebDoes(Claim(c))
         \/ WebDoes(ServeTake(c)) \/ WebDoes(ServeRelease(c))
    \/ \E a \in Handlers :
         \/ WebDoes(LookUpOwner(a)) \/ WebDoes(LookUpSubs(a)) \/ WebDoes(WriteFlag(a))
         \/ WebDoes(CleanUp(a))
    \/ topic = "web" /\ UNCHANGED sizesAndWebVars   \* taps and WebSockets run out

SizesAndWebSpec == SizesAndWebInit /\ [][SizesAndWebNext]_sizesAndWebVars

\* Connections, sizes and WebSockets differ in nothing but their name.
Symmetry == Permutations(Conns) \cup Permutations(Sizes) \cup Permutations(Sockets)

SizesAndWebTypeOK == HistoryTypeOK /\ WebTypeOK
================================================================================
