-------------------------- MODULE TuiNavigationProofs --------------------------
(* The terminal client keeps its list fresh, its ear on the daemon's flags, its *)
(* visits closed and its frame as the flags say, for any number of sessions,   *)
(* views, keys and flags, and any depth of the active channel.                 *)
EXTENDS TuiNavigation, SequenceTheorems, TLAPS

\* What a view shown relies on: its connection and the goroutines that wait for it.
Attended ==
    mode = "session" =>
        /\ conn[session] = "open"
        /\ ended[session] \/ waiters[session] > 0
        /\ endWaiter[session] = "waiting"

\* Nothing is told to a view before it is connected, and only to connected ones is
\* anything served.
Untold ==
    \A v \in Views : conn[v] = "unused" => activeCh[v] = <<>> /\ told[v] /\ served[v] = "none"

\* The last flag under way is the last one sent; if none is, the frame is as it says
\* or as the key since it was handled left it.
Informed(v) ==
    IF activeCh[v] # <<>>
      THEN activeCh[v][Len(activeCh[v])] = told[v]
      ELSE parked = (~told[v] /\ ~tookOver)

\* What the view shown will show once it handled all flags under way.
Belief == \A v \in Views : session = v /\ ~astray /\ ~lost => Informed(v)

TuiInv == TypeOK /\ PollArmed /\ Attended /\ OneConnection /\ Untold /\ Belief

--------------------------------------------------------------------------------
(* Sequences, and what a flag handed on does to the channel.                    *)

\* Taking the first element leaves the last one, or nothing.
LEMMA TailLast ==
    ASSUME NEW S, NEW s \in Seq(S), s # <<>>
    PROVE  /\ Tail(s) \in Seq(S)
           /\ Len(Tail(s)) = Len(s) - 1
           /\ Head(s) \in S
           /\ IF Tail(s) = <<>> THEN s[Len(s)] = Head(s)
                                ELSE Tail(s)[Len(Tail(s))] = s[Len(s)]
<1>1. /\ Tail(s) \in Seq(S)
      /\ Len(Tail(s)) = Len(s) - 1
      /\ Head(s) \in S
      /\ \A i \in 1 .. Len(Tail(s)) : Tail(s)[i] = s[i + 1]
  BY HeadTailProperties
<1>2. Len(s) \in Nat \ {0} /\ Head(s) = s[1]
  BY EmptySeq
<1>3. CASE Tail(s) = <<>>
  <2>1. Len(s) = 1
    BY <1>1, <1>2, <1>3
  <2> QED
    BY <1>1, <1>3, <2>1
<1>4. CASE Tail(s) # <<>>
  <2>1. Len(Tail(s)) \in 1 .. Len(Tail(s))
    BY <1>1, <1>4, EmptySeq
  <2>2. Len(Tail(s)) + 1 = Len(s)
    BY <1>1, <1>2
  <2> QED
    BY <1>1, <1>4, <2>1, <2>2
<1> QED
  BY <1>3, <1>4

\* A flag that is handed on is the last one in its channel, and in no other; one
\* that finds no room is lost.
LEMMA TellTells ==
    ASSUME TypeOK, NEW v \in Views, NEW f \in BOOLEAN, Tell(v, f)
    PROVE  /\ activeCh' \in [Views -> Seq(BOOLEAN)]
           /\ \A w \in Views : Len(activeCh'[w]) <= ActiveRoom
           /\ \A w \in Views : w # v => activeCh'[w] = activeCh[w] /\ told'[w] = told[w]
           /\ told'[v] = f
           /\ lost' \in BOOLEAN
           /\ ~lost' => ~lost /\ activeCh'[v] # <<>> /\ activeCh'[v][Len(activeCh'[v])] = f
<1>1. activeCh[v] \in Seq(BOOLEAN) /\ Len(activeCh[v]) <= ActiveRoom /\ Len(activeCh[v]) \in Nat
  BY DEF TypeOK
<1>2. ActiveRoom \in Nat
  BY TuiAssumption DEF TuiAssumption
<1>3. told'[v] = f /\ \A w \in Views : w # v => told'[w] = told[w]
  BY DEF Tell, TypeOK
<1>4. CASE Len(activeCh[v]) < ActiveRoom
  <2>1. activeCh' = [activeCh EXCEPT ![v] = Append(@, f)] /\ lost' = lost
    BY <1>4 DEF Tell
  <2>2. /\ Append(activeCh[v], f) \in Seq(BOOLEAN)
        /\ Len(Append(activeCh[v], f)) = Len(activeCh[v]) + 1
        /\ Append(activeCh[v], f) # <<>>
        /\ Append(activeCh[v], f)[Len(activeCh[v]) + 1] = f
    BY <1>1, AppendProperties
  <2>3. activeCh'[v] = Append(activeCh[v], f) /\ \A w \in Views : w # v => activeCh'[w] = activeCh[w]
    BY <2>1 DEF TypeOK
  <2>4. activeCh' \in [Views -> Seq(BOOLEAN)]
    BY <2>1, <2>2 DEF TypeOK
  <2>5. Len(activeCh'[v]) <= ActiveRoom
    <3>1. Len(activeCh'[v]) = Len(activeCh[v]) + 1
      BY <2>2, <2>3, Zenon
    <3> QED
      BY <1>1, <1>2, <1>4, <3>1
  <2>6. \A w \in Views : Len(activeCh'[w]) <= ActiveRoom
    BY <2>3, <2>5, Zenon DEF TypeOK
  <2>7. activeCh'[v][Len(activeCh'[v])] = f
    BY <2>2, <2>3, Zenon
  <2>8. lost' \in BOOLEAN
    BY <2>1 DEF TypeOK
  <2> QED
    BY <1>3, <2>1, <2>2, <2>3, <2>4, <2>6, <2>7, <2>8, Zenon
<1>5. CASE ~(Len(activeCh[v]) < ActiveRoom)
  BY <1>3, <1>5, Zenon DEF Tell, TypeOK
<1> QED
  BY <1>4, <1>5

--------------------------------------------------------------------------------
(* Types.                                                                       *)

\* The initial values are of their types.
LEMMA TypingInit == Init => TypeOK
<1> SUFFICES ASSUME Init PROVE TypeOK
  OBVIOUS
<1> USE TuiAssumption DEF TuiAssumption, Sids, Views, None
<1>1. activeCh \in [Views -> Seq(BOOLEAN)] /\ \A v \in Views : Len(activeCh[v]) <= ActiveRoom
  BY DEF Init
<1>2. running \subseteq Sids /\ nextID \in 1 .. MaxSids + 1
  BY DEF Init
<1> QED
  BY <1>1, <1>2 DEF Init, TypeOK

\* No step leaves the types.
LEMMA TypingStep == TypeOK /\ [Next]_vars => TypeOK'
<1> SUFFICES ASSUME TypeOK, [Next]_vars PROVE TypeOK'
  OBVIOUS
<1> USE DEF vars, screen, frame, flags, visits, daemon
<1>0. None \notin Views
  BY DEF None, Views
<1>1. ASSUME New PROVE TypeOK'
  <2>1. running' \subseteq Sids /\ nextID' \in 1 .. MaxSids + 1
    BY <1>1, TuiAssumption DEF New, TypeOK, Sids, TuiAssumption
  <2>2. attaches' \in [Sids -> Nat]
    BY <1>1 DEF New, TypeOK
  <2> QED
    BY <1>1, <2>1, <2>2 DEF New, EntryKey, Press, TypeOK
<1>2. ASSUME Enter PROVE TypeOK'
  BY <1>0, <1>2 DEF Enter, EntryKey, Press, TypeOK
<1>3. ASSUME AskKill PROVE TypeOK'
  BY <1>0, <1>3 DEF AskKill, EntryKey, Press, TypeOK
<1>4. ASSUME ConfirmKill PROVE TypeOK'
  BY <1>0, <1>4 DEF ConfirmKill, EntryKey, Press, TypeOK
<1>5. ASSUME CancelKill PROVE TypeOK'
  BY <1>0, <1>5 DEF CancelKill, EntryKey, Press, TypeOK
<1>6. ASSUME Quit PROVE TypeOK'
  BY <1>0, <1>6 DEF Quit, EntryKey, Press, TypeOK
<1>7. ASSUME PollTick PROVE TypeOK'
  BY <1>0, <1>7 DEF PollTick, TypeOK
<1>8. ASSUME DetachKey PROVE TypeOK'
  BY <1>0, <1>8 DEF DetachKey, Press, TypeOK
<1>9. ASSUME TakeOverKey PROVE TypeOK'
  <2>1. keys' \in Nat
    BY <1>9 DEF TakeOverKey, Press, TypeOK
  <2>2. parked' \in BOOLEAN /\ tookOver' \in BOOLEAN
    BY <1>9, Zenon DEF TakeOverKey
  <2>3. UNCHANGED <<screen, polls, attaches, backs, flags, visits, daemon, flagsSent, hasty>>
    BY <1>9 DEF TakeOverKey
  <2> QED
    BY <2>1, <2>2, <2>3 DEF TypeOK
<1>10. ASSUME BackToEntry PROVE TypeOK'
  <2>1. conn' \in [Views -> {"unused", "open", "closed"}] /\ ended' \in [Views -> BOOLEAN]
    BY <1>10 DEF BackToEntry, Close, TypeOK
  <2>2. mode' = "entry" /\ sessions' \subseteq Sids /\ confirmKill' = None /\ session' = None /\ polls' \in Nat
    BY <1>10 DEF BackToEntry, FreshEntry, TypeOK
  <2> QED
    BY <1>10, <2>1, <2>2 DEF BackToEntry, TypeOK
<1>11. ASSUME NEW s \in Sids, Attach(s) PROVE TypeOK'
  <2>1. /\ conn' \in [Views -> {"unused", "open", "closed"}]
        /\ sid' \in [Views -> Sids \cup {None}]
        /\ served' \in [Views -> {"none", "asked", "refused", "accepted", "streaming", "owed", "late"}]
        /\ waiters' \in [Views -> Nat]
        /\ endWaiter' \in [Views -> {"none", "waiting", "returned"}]
        /\ session' \in Views
    BY <1>11 DEF Attach, EndWait, TypeOK
  <2>2. attaches' \in [Sids -> Nat]
    BY <1>11 DEF Attach, TypeOK
  <2> QED
    BY <1>0, <1>11, <2>1, <2>2 DEF Attach, TypeOK
<1>12. ASSUME NEW s \in Sids, AttachFails(s) PROVE TypeOK'
  BY <1>0, <1>12 DEF AttachFails, TypeOK
<1>13. ASSUME NEW s \in Sids, SessionEnds(s) PROVE TypeOK'
  BY <1>0, <1>13 DEF SessionEnds, DaemonStep, TypeOK
<1>14. ASSUME NEW s \in Sids, Unregister(s) PROVE TypeOK'
  BY <1>0, <1>14 DEF Unregister, DaemonStep, TypeOK
<1>15. ASSUME NEW v \in Views, StreamEnded(v) PROVE TypeOK'
  <2>1. endWaiter' \in [Views -> {"none", "waiting", "returned"}]
    BY <1>15 DEF StreamEnded, TypeOK
  <2>2. CASE mode = "session"
    <3>1. conn' \in [Views -> {"unused", "open", "closed"}] /\ ended' \in [Views -> BOOLEAN]
      BY <1>15, <2>2 DEF StreamEnded, Close, TypeOK
    <3>2. mode' = "entry" /\ sessions' \subseteq Sids /\ confirmKill' = None /\ session' = None /\ polls' \in Nat
      BY <1>15, <2>2 DEF StreamEnded, FreshEntry, TypeOK
    <3> QED
      BY <1>15, <2>1, <3>1, <3>2 DEF StreamEnded, TypeOK
  <2>3. CASE mode # "session"
    BY <1>15, <2>1, <2>3 DEF StreamEnded, TypeOK
  <2> QED
    BY <2>2, <2>3
<1>16. ASSUME NEW v \in Views, FlagHeard(v) PROVE TypeOK'
  <2>1. activeCh' \in [Views -> Seq(BOOLEAN)] /\ \A w \in Views : Len(activeCh'[w]) <= ActiveRoom
    <3>1. activeCh[v] \in Seq(BOOLEAN) /\ activeCh[v] # <<>> /\ activeCh' = [activeCh EXCEPT ![v] = Tail(@)]
      BY <1>16 DEF FlagHeard, TypeOK
    <3>2. Tail(activeCh[v]) \in Seq(BOOLEAN) /\ Len(Tail(activeCh[v])) = Len(activeCh[v]) - 1 /\ Len(activeCh[v]) \in Nat
      BY <3>1, TailLast, LenProperties
    <3>3. \A w \in Views : activeCh'[w] = IF w = v THEN Tail(activeCh[v]) ELSE activeCh[w]
      BY <3>1 DEF TypeOK
    <3>4. activeCh' \in [Views -> Seq(BOOLEAN)]
      BY <3>1, <3>2 DEF TypeOK
    <3>5. Len(activeCh[v]) <= ActiveRoom /\ ActiveRoom \in Nat
      BY TuiAssumption DEF TypeOK, TuiAssumption
    <3>6. ASSUME NEW w \in Views PROVE Len(activeCh'[w]) <= ActiveRoom
      <4>1. CASE w = v
        <5>1. Len(activeCh'[w]) = Len(activeCh[v]) - 1
          BY <3>2, <3>3, <4>1, Zenon
        <5> QED
          BY <3>2, <3>5, <5>1
      <4>2. CASE w # v
        BY <3>3, <4>2 DEF TypeOK
      <4> QED
        BY <4>1, <4>2
    <3> QED
      BY <3>4, <3>6
  <2>2. waiters' \in [Views -> Nat]
    <3>1. waiters \in [Views -> Nat] /\ waiters[v] > 0
      BY <1>16, Zenon DEF FlagHeard, TypeOK
    <3>2. CASE waiters' = Rearmed(v, Head(activeCh[v]))
      BY <3>1, <3>2 DEF Rearmed
    <3>3. CASE waiters' = [waiters EXCEPT ![v] = @ - 1]
      BY <3>1, <3>3
    <3> QED
      BY <1>16, <3>2, <3>3, Zenon DEF FlagHeard
  <2>3. parked' \in BOOLEAN /\ tookOver' \in BOOLEAN /\ astray' \in BOOLEAN
    BY <1>16, Zenon DEF FlagHeard, FrozenBy, TypeOK
  <2> QED
    BY <1>16, <2>1, <2>2, <2>3 DEF FlagHeard, TypeOK
<1>17. ASSUME NEW v \in Views, WaiterEnds(v) PROVE TypeOK'
  <2>1. waiters' \in [Views -> Nat]
    BY <1>17 DEF WaiterEnds, TypeOK
  <2>2. UNCHANGED <<screen, frame, polls, attaches, backs, activeCh, astray, lost, told,
                    visits, daemon, keys, flagsSent, hasty>>
    BY <1>17 DEF WaiterEnds
  <2> QED
    BY <2>1, <2>2 DEF TypeOK
<1>18. ASSUME NEW v \in Views, Serve(v) \/ Subscribe(v) PROVE TypeOK'
  BY <1>0, <1>18 DEF Serve, Subscribe, DaemonStep, TypeOK
<1>19. ASSUME NEW v \in Views, NEW f \in BOOLEAN, Tell(v, f) PROVE TypeOK'
  <2>1. /\ activeCh' \in [Views -> Seq(BOOLEAN)]
        /\ \A w \in Views : Len(activeCh'[w]) <= ActiveRoom
        /\ lost' \in BOOLEAN
    BY <1>19, TellTells
  <2>2. told' \in [Views -> BOOLEAN] /\ flagsSent' \in Nat
    BY <1>19 DEF Tell, TypeOK
  <2>3. UNCHANGED <<screen, frame, polls, attaches, backs, waiters, astray, endWaiter, conn, sid,
                    nextID, keys, hasty, ended, running, over, served>>
    BY <1>19 DEF Tell, DaemonStep
  <2> QED
    BY <2>1, <2>2, <2>3 DEF TypeOK
<1>21. ASSUME NEW v \in Views, StreamEnds(v) PROVE TypeOK'
  BY <1>0, <1>21 DEF StreamEnds, DaemonStep, TypeOK
<1>22. CASE UNCHANGED vars
  BY <1>0, <1>22 DEF TypeOK
<1> QED
  BY <1>1, <1>2, <1>3, <1>4, <1>5, <1>6, <1>7, <1>8, <1>9, <1>10, <1>11, <1>12, <1>13, <1>14, <1>15, <1>16, <1>17,
     <1>18, <1>19, <1>21, <1>22 DEF Next

--------------------------------------------------------------------------------
(* Screens and visits.                                                          *)

\* The visit ends.
Leaves ==
    /\ Close(session) /\ FreshEntry
    /\ UNCHANGED <<hasty, served, activeCh, told>>

\* The screen shown stays, or the program ends.
Stays ==
    /\ UNCHANGED <<session, conn, hasty>>
    /\ mode' \in {mode, "quit"}
    /\ mode = "entry" => polls' = polls
    /\ mode = "session" => UNCHANGED endWaiter
    /\ \A v \in Views : ended[v] => ended'[v]
    /\ UNCHANGED waiters \/ \E v \in Views : FlagHeard(v) \/ WaiterEnds(v)

\* A step opens a visit, ends one, or does neither.
LEMMA Navigation ==
    ASSUME TypeOK, [Next]_vars
    PROVE  Leaves \/ Stays \/ \E s \in Sids : Attach(s)
<1> USE DEF screen, frame, flags, visits, daemon
<1>1. CASE New \/ Enter \/ AskKill \/ ConfirmKill \/ CancelKill \/ Quit
  BY <1>1 DEF New, Enter, AskKill, ConfirmKill, CancelKill, Quit, EntryKey, Stays
<1>2. CASE PollTick
  BY <1>2 DEF PollTick, Stays
<1>3. CASE DetachKey \/ TakeOverKey
  BY <1>3 DEF DetachKey, TakeOverKey, Stays
<1>4. CASE BackToEntry
  BY <1>4 DEF BackToEntry, Leaves
<1>5. ASSUME NEW s \in Sids, AttachFails(s) \/ SessionEnds(s) \/ Unregister(s) PROVE Stays
  BY <1>5 DEF AttachFails, SessionEnds, Unregister, DaemonStep, Stays
<1>6. ASSUME NEW v \in Views, StreamEnded(v) PROVE Leaves \/ Stays
  BY <1>6 DEF StreamEnded, Leaves, Stays
<1>7. ASSUME NEW v \in Views, FlagHeard(v) \/ WaiterEnds(v) PROVE Stays
  BY <1>7, Zenon DEF FlagHeard, WaiterEnds, Stays
<1>8. ASSUME NEW v \in Views, Serve(v) \/ Subscribe(v) PROVE Stays
  BY <1>8, Zenon DEF Serve, Subscribe, DaemonStep, Stays
<1>9. ASSUME NEW v \in Views, NEW f \in BOOLEAN, Tell(v, f) PROVE Stays
  BY <1>9, Zenon DEF Tell, DaemonStep, Stays
<1>10. ASSUME NEW v \in Views, StreamEnds(v) PROVE Stays
  <2>1. \A w \in Views : ended[w] => ended'[w]
    BY <1>10 DEF StreamEnds, TypeOK
  <2> QED
    BY <1>10, <2>1, Zenon DEF StreamEnds, DaemonStep, Stays
<1>11. CASE UNCHANGED vars
  BY <1>11 DEF vars, Stays
<1> QED
  BY <1>1, <1>2, <1>3, <1>4, <1>5, <1>6, <1>7, <1>8, <1>9, <1>10, <1>11 DEF Next

\* A view that is left is closed, and no other.
LEMMA LeavesCloses ==
    ASSUME TypeOK, Leaves
    PROVE  /\ mode' = "entry" /\ session' = None /\ polls' > 0
           /\ \A v \in Views : conn'[v] = IF v = session THEN "closed" ELSE conn[v]
<1>1. mode' = "entry" /\ session' = None /\ polls' > 0
  BY DEF Leaves, FreshEntry, TypeOK
<1>2. None \notin Views
  BY DEF None, Views
<1>3. \A v \in Views : conn'[v] = IF v = session THEN "closed" ELSE conn[v]
  BY <1>2 DEF Leaves, Close, TypeOK
<1> QED
  BY <1>1, <1>3

\* Who shows the list has a timer.
LEMMA PollArmedStep == TypeOK /\ PollArmed /\ [Next]_vars => PollArmed'
<1> SUFFICES ASSUME TypeOK, PollArmed, [Next]_vars PROVE PollArmed'
  OBVIOUS
<1>1. CASE Leaves
  BY <1>1, LeavesCloses DEF PollArmed
<1>2. CASE Stays
  BY <1>2 DEF Stays, PollArmed
<1>3. CASE \E s \in Sids : Attach(s)
  BY <1>3 DEF Attach, PollArmed
<1> QED
  BY <1>1, <1>2, <1>3, Navigation

\* A view shown is connected, and its goroutines wait for it.
LEMMA AttendedStep == TypeOK /\ Attended /\ [Next]_vars => Attended'
<1> SUFFICES ASSUME TypeOK, Attended, [Next]_vars PROVE Attended'
  OBVIOUS
<1>1. CASE Leaves
  BY <1>1, LeavesCloses DEF Attended
<1>2. CASE Stays
  <2> SUFFICES ASSUME mode' = "session"
               PROVE  /\ conn'[session'] = "open" /\ endWaiter'[session'] = "waiting"
                      /\ ended'[session'] \/ waiters'[session'] > 0
    BY DEF Attended
  <2>1. mode = "session" /\ session' = session /\ conn' = conn /\ endWaiter' = endWaiter
    BY <1>2 DEF Stays
  <2>2. session \in Views
    BY <2>1 DEF TypeOK
  <2>3. ended[session] => ended'[session]
    BY <1>2, <2>2 DEF Stays
  <2>4. ASSUME ~ended[session] PROVE waiters'[session] > 0
    <3>1. waiters[session] > 0
      BY <2>1, <2>4 DEF Attended
    <3>2. ASSUME NEW v \in Views, FlagHeard(v) PROVE waiters'[session] > 0
      <4>1. waiters' = Rearmed(v, Head(activeCh[v])) /\ waiters \in [Views -> Nat] /\ waiters[v] > 0
        BY <2>1, <3>2, Zenon DEF FlagHeard, TypeOK
      <4> QED
        BY <2>2, <4>1 DEF Rearmed
    <3>3. ASSUME NEW v \in Views, WaiterEnds(v) PROVE waiters'[session] > 0
      BY <2>4, <3>1, <3>3 DEF WaiterEnds, TypeOK
    <3> QED
      BY <1>2, <3>1, <3>2, <3>3 DEF Stays
  <2> QED
    BY <2>1, <2>3, <2>4 DEF Attended
<1>3. CASE \E s \in Sids : Attach(s)
  BY <1>3 DEF Attach, EndWait, Attended, TypeOK
<1> QED
  BY <1>1, <1>2, <1>3, Navigation

\* No visit but the one shown is connected, unless two overlapped.
LEMMA OneConnectionStep == TypeOK /\ OneConnection /\ [Next]_vars => OneConnection'
<1> SUFFICES ASSUME TypeOK, OneConnection, [Next]_vars PROVE OneConnection'
  OBVIOUS
<1>1. CASE Leaves
  <2>1. hasty' = hasty
    BY <1>1 DEF Leaves
  <2> QED
    BY <1>1, <2>1, LeavesCloses DEF OneConnection
<1>2. CASE Stays
  BY <1>2 DEF Stays, OneConnection
<1>3. ASSUME NEW s \in Sids, Attach(s) PROVE OneConnection'
  <2> SUFFICES ASSUME ~hasty', NEW w \in Views, conn'[w] = "open" PROVE w = session'
    BY DEF OneConnection
  <2>1. PICK v \in Views : conn' = [conn EXCEPT ![v] = "open"] /\ session' = v
    BY <1>3 DEF Attach
  <2>2. ~hasty /\ mode # "session"
    BY <1>3 DEF Attach
  <2>3. session \notin Views
    BY <2>2 DEF TypeOK, None, Views
  <2>4. conn[w] # "open"
    BY <2>2, <2>3 DEF OneConnection
  <2> QED
    BY <2>1, <2>4 DEF TypeOK
<1> QED
  BY <1>1, <1>2, <1>3, Navigation

--------------------------------------------------------------------------------
(* Flags.                                                                       *)

\* Nothing is sent to a view before it is connected.
LEMMA UntoldStep == TypeOK /\ Untold /\ [Next]_vars => Untold'
<1> SUFFICES ASSUME TypeOK, Untold, [Next]_vars, NEW v \in Views, conn'[v] = "unused"
             PROVE  activeCh'[v] = <<>> /\ told'[v] /\ served'[v] = "none"
  BY DEF Untold
<1> USE DEF screen, frame, flags, visits, daemon
<1>1. conn[v] = "unused"
  <2>1. CASE Leaves
    BY <2>1, LeavesCloses
  <2>2. CASE Stays
    BY <2>2 DEF Stays
  <2>3. CASE \E s \in Sids : Attach(s)
    BY <2>3 DEF Attach, TypeOK
  <2> QED
    BY <2>1, <2>2, <2>3, Navigation
<1>2. activeCh[v] = <<>> /\ told[v] /\ served[v] = "none"
  BY <1>1 DEF Untold
<1>3. CASE UNCHANGED <<served, activeCh, told>>
  BY <1>2, <1>3
<1>4. ASSUME NEW s \in Sids, Attach(s) PROVE activeCh'[v] = <<>> /\ told'[v] /\ served'[v] = "none"
  <2>1. PICK w \in Views : conn' = [conn EXCEPT ![w] = "open"] /\ served' = [served EXCEPT ![w] = "asked"]
    BY <1>4 DEF Attach
  <2>2. w # v
    BY <2>1 DEF TypeOK
  <2> QED
    BY <1>2, <1>4, <2>1, <2>2 DEF Attach, TypeOK
<1>5. ASSUME NEW w \in Views, FlagHeard(w) PROVE activeCh'[v] = <<>> /\ told'[v] /\ served'[v] = "none"
  <2>1. UNCHANGED <<served, told>> /\ activeCh[w] # <<>> /\ activeCh' = [activeCh EXCEPT ![w] = Tail(@)]
    BY <1>5, Zenon DEF FlagHeard
  <2> QED
    BY <1>2, <2>1 DEF TypeOK
<1>6. ASSUME NEW w \in Views, Serve(w) \/ Subscribe(w)
      PROVE  activeCh'[v] = <<>> /\ told'[v] /\ served'[v] = "none"
  BY <1>2, <1>6 DEF Serve, Subscribe, TypeOK
<1>7. ASSUME NEW w \in Views, NEW f \in BOOLEAN, Tell(w, f)
      PROVE  activeCh'[v] = <<>> /\ told'[v] /\ served'[v] = "none"
  <2>1. w # v /\ served' = served
    BY <1>1, <1>7 DEF Tell, Listens
  <2> QED
    BY <1>2, <1>7, <2>1, TellTells
<1>8. ASSUME NEW s \in Sids, SessionEnds(s) PROVE activeCh'[v] = <<>> /\ told'[v] /\ served'[v] = "none"
  BY <1>2, <1>8 DEF SessionEnds
<1>9. CASE New \/ Enter \/ AskKill \/ ConfirmKill \/ CancelKill \/ Quit
  BY <1>3, <1>9 DEF New, Enter, AskKill, ConfirmKill, CancelKill, Quit, EntryKey
<1>10. CASE PollTick \/ DetachKey \/ TakeOverKey \/ BackToEntry
  BY <1>3, <1>10 DEF PollTick, DetachKey, TakeOverKey, BackToEntry
<1>11. ASSUME NEW s \in Sids, AttachFails(s) \/ Unregister(s)
       PROVE  activeCh'[v] = <<>> /\ told'[v] /\ served'[v] = "none"
  BY <1>3, <1>11 DEF AttachFails, Unregister
<1>12. ASSUME NEW w \in Views, StreamEnded(w) \/ WaiterEnds(w) \/ StreamEnds(w)
       PROVE  activeCh'[v] = <<>> /\ told'[v] /\ served'[v] = "none"
  BY <1>3, <1>12 DEF StreamEnded, WaiterEnds, StreamEnds
<1>13. CASE UNCHANGED vars
  BY <1>3, <1>13 DEF vars
<1> QED
  BY <1>4, <1>5, <1>6, <1>7, <1>8, <1>9, <1>10, <1>11, <1>12, <1>13 DEF Next

\* The view shown stays informed, whatever it is sent, handles and presses.
LEMMA BeliefStep == TypeOK /\ Untold /\ Belief /\ [Next]_vars => Belief'
<1> SUFFICES ASSUME TypeOK, Untold, Belief, [Next]_vars,
                    NEW v \in Views, session' = v, ~astray', ~lost'
             PROVE  Informed(v)'
  BY DEF Belief
<1> USE DEF screen, frame, flags, visits, daemon
<1>0. v # None
  BY DEF None, Views
<1>1. ASSUME session = v, ~astray, ~lost, UNCHANGED <<activeCh, told, frame>> PROVE Informed(v)'
  BY <1>1, Zenon DEF Belief, Informed
<1>2. CASE New \/ Enter \/ AskKill \/ ConfirmKill \/ CancelKill \/ Quit
  BY <1>1, <1>2 DEF New, Enter, AskKill, ConfirmKill, CancelKill, Quit, EntryKey
<1>3. CASE PollTick \/ DetachKey \/ UNCHANGED vars
  BY <1>1, <1>3 DEF PollTick, DetachKey, vars
<1>4. CASE TakeOverKey
  <2>1. session = v /\ ~astray /\ ~lost /\ UNCHANGED <<activeCh, told>> /\ parked' = FALSE /\ tookOver' = TRUE
    BY <1>4 DEF TakeOverKey
  <2> QED
    BY <2>1, Zenon DEF Belief, Informed
<1>5. CASE BackToEntry
  BY <1>0, <1>5 DEF BackToEntry, FreshEntry
<1>6. ASSUME NEW s \in Sids, Attach(s) PROVE Informed(v)'
  <2>1. conn[v] = "unused" /\ UNCHANGED <<activeCh, told>> /\ parked' = FALSE /\ tookOver' = FALSE
    BY <1>6 DEF Attach
  <2>2. activeCh[v] = <<>> /\ told[v]
    BY <2>1 DEF Untold
  <2> QED
    BY <2>1, <2>2, Zenon DEF Informed
<1>7. ASSUME NEW s \in Sids, AttachFails(s) \/ SessionEnds(s) \/ Unregister(s) PROVE Informed(v)'
  BY <1>1, <1>7 DEF AttachFails, SessionEnds, Unregister, DaemonStep
<1>8. ASSUME NEW w \in Views, StreamEnded(w) PROVE Informed(v)'
  BY <1>0, <1>1, <1>8 DEF StreamEnded, FreshEntry
<1>9. ASSUME NEW w \in Views, WaiterEnds(w) \/ Serve(w) \/ Subscribe(w) \/ StreamEnds(w) PROVE Informed(v)'
  BY <1>1, <1>9 DEF WaiterEnds, Serve, Subscribe, StreamEnds, DaemonStep
<1>10. ASSUME NEW w \in Views, NEW f \in BOOLEAN, Tell(w, f) PROVE Informed(v)'
  <2>1. session = v /\ ~astray /\ UNCHANGED frame
    BY <1>10 DEF Tell, DaemonStep
  <2>2. CASE w = v
    BY <1>10, <2>2, TellTells DEF Informed
  <2>3. CASE w # v
    <3>1. activeCh'[v] = activeCh[v] /\ told'[v] = told[v] /\ ~lost
      BY <1>10, <2>3, TellTells
    <3> QED
      BY <2>1, <3>1, Zenon DEF Belief, Informed
  <2> QED
    BY <2>2, <2>3
<1>11. ASSUME NEW w \in Views, FlagHeard(w) PROVE Informed(v)'
  <2>1. mode = "session" /\ session = v
    BY <1>0, <1>11 DEF FlagHeard, TypeOK
  <2>2. /\ UNCHANGED <<told, lost>>
        /\ activeCh[w] # <<>> /\ activeCh' = [activeCh EXCEPT ![w] = Tail(@)]
        /\ parked' = ~Head(activeCh[w]) /\ tookOver' = FALSE
        /\ astray' = (astray \/ w # session)
    BY <1>11, <2>1, Zenon DEF FlagHeard, FrozenBy
  <2>3. w = v /\ ~astray /\ ~lost
    BY <2>1, <2>2
  <2>4. activeCh[v][Len(activeCh[v])] = told[v]
    BY <2>1, <2>2, <2>3, Zenon DEF Belief, Informed
  <2>5. activeCh[v] \in Seq(BOOLEAN) /\ activeCh'[v] = Tail(activeCh[v])
    BY <2>2, <2>3 DEF TypeOK
  <2>6. CASE activeCh'[v] = <<>>
    <3>1. activeCh[v][Len(activeCh[v])] = Head(activeCh[v])
      BY <2>2, <2>3, <2>5, <2>6, TailLast, Zenon
    <3>2. parked' = ~told'[v] /\ tookOver' = FALSE
      BY <2>2, <2>3, <2>4, <3>1, Zenon
    <3> QED
      BY <2>6, <3>2, Zenon DEF Informed
  <2>7. CASE activeCh'[v] # <<>>
    <3>1. activeCh'[v][Len(activeCh'[v])] = activeCh[v][Len(activeCh[v])]
      BY <2>2, <2>3, <2>5, <2>7, TailLast, Zenon
    <3> QED
      BY <2>2, <2>4, <2>7, <3>1, Zenon DEF Informed
  <2> QED
    BY <2>6, <2>7
<1> QED
  BY <1>2, <1>3, <1>4, <1>5, <1>6, <1>7, <1>8, <1>9, <1>10, <1>11 DEF Next

--------------------------------------------------------------------------------

\* At the start there is no view, and the list has its timer.
LEMMA TuiInvInit == Init => TuiInv
<1> SUFFICES ASSUME Init PROVE TuiInv
  OBVIOUS
<1>1. TypeOK
  BY TypingInit
<1>2. mode = "entry" /\ session \notin Views
  BY DEF Init, None, Views
<1>3. PollArmed /\ OneConnection /\ Untold
  BY DEF Init, PollArmed, OneConnection, Untold
<1>4. Attended /\ Belief
  BY <1>2 DEF Attended, Belief
<1> QED
  BY <1>1, <1>3, <1>4 DEF TuiInv

\* The inductive invariant: no step breaks any of its parts.
LEMMA TuiInvStep == TuiInv /\ [Next]_vars => TuiInv'
  BY TypingStep, PollArmedStep, AttendedStep, OneConnectionStep, UntoldStep,
     BeliefStep DEF TuiInv

\* What the client relies on, in every reachable state.
THEOREM TuiCorrect == Spec => []TuiInv
  BY TuiInvInit, TuiInvStep, PTL DEF Spec

\* Screens, timers, channels and visits are of their types.
THEOREM TuiTypes == Spec => []TypeOK
  BY TuiCorrect, PTL DEF TuiInv

\* However many visits are made and however late the timers fire, the list that is
\* shown will be refreshed (entryModel.Init, pollTickMsg).
THEOREM ListStaysFresh == Spec => []PollArmed
  BY TuiCorrect, PTL DEF TuiInv

\* Whichever views the flags come from, the view shown waits for its next one while
\* there can be one (sessionModel.Init, activeMsg).
THEOREM NeverDeaf == Spec => []StaysListening
<1>1. TuiInv => StaysListening
  BY DEF TuiInv, Attended, StaysListening
<1> QED
  BY <1>1, TuiCorrect, PTL

\* A visit that ends gives its connection back, if visits do not overlap
\* (sessionModel.Close).
THEOREM VisitsAreClosed == Spec => []OneConnection
  BY TuiCorrect, PTL DEF TuiInv

\* The frame shown is frozen as the last flag sent to the view says, or unfrozen by
\* the key that took over since, for any flags the daemon sends in any order, any
\* keys, and any visits before (sessionModel.parked).
THEOREM FrozenAsTold == Spec => []FrameFollowsFlags
<1>1. TuiInv => FrameFollowsFlags
  <2> SUFFICES ASSUME TuiInv, mode = "session", activeCh[session] = <<>>, ~astray, ~lost
               PROVE  parked = (~told[session] /\ ~tookOver)
    BY DEF FrameFollowsFlags
  <2>1. session \in Views
    BY DEF TuiInv, TypeOK
  <2>2. Informed(session)
    BY <2>1 DEF TuiInv, Belief
  <2> QED
    BY <2>2, Zenon DEF Informed
<1> QED
  BY <1>1, TuiCorrect, PTL
================================================================================
