-------------------------- MODULE SizesAndWebProofs --------------------------
(* What holds of SizeOwnership for any number of connections, sizes and         *)
(* requests; of WebClient for any number of WebSockets, sessions and events;    *)
(* and of the two checked in one run.                                           *)
EXTENDS MCSizesAndWeb, SequenceTheorems, TLAPS

\* The initial values are of their types.
LEMMA TypingInit == Init => TypeOK
<1> SUFFICES ASSUME Init PROVE TypeOK
  OBVIOUS
<1>1. requests \in 0 .. MaxRequests
  BY SizeOwnershipAssumption DEF SizeOwnershipAssumption, Init
<1> QED
  BY <1>1 DEF Init, TypeOK, PCs

\* No step of a handler, a stream goroutine or a client leaves the types.
LEMMA TypingStep == TypeOK /\ [Next]_vars => TypeOK'
<1> SUFFICES ASSUME TypeOK, [Next]_vars PROVE TypeOK'
  OBVIOUS
<1> USE SizeOwnershipAssumption DEF SizeOwnershipAssumption, TypeOK, PCs, Goto, Receive, ReceiveAttached, WriteActive, Rest, session, client
<1>1. ASSUME NEW c \in Conns, Attach(c) PROVE TypeOK'
  BY <1>1 DEF Attach
<1>2. ASSUME NEW c \in Conns, ReadOwner(c) PROVE TypeOK'
  BY <1>2 DEF ReadOwner
<1>3. ASSUME NEW c \in Conns, ParkNewcomer(c) PROVE TypeOK'
  BY <1>3 DEF ParkNewcomer
<1>4. ASSUME NEW c \in Conns, NEW size \in Sizes, Resize(c, size) PROVE TypeOK'
  BY <1>4 DEF Resize
<1>5. ASSUME NEW c \in Conns, OwnsSize(c) PROVE TypeOK'
  BY <1>5 DEF OwnsSize, Claimed
<1>6. ASSUME NEW c \in Conns, SetDims(c) PROVE TypeOK'
  BY <1>6 DEF SetDims
<1>7. ASSUME NEW c \in Conns, SetWinsize(c) PROVE TypeOK'
  BY <1>7 DEF SetWinsize
<1>8. ASSUME NEW c \in Conns, TakeSize(c) PROVE TypeOK'
  BY <1>8 DEF TakeSize
<1>9. ASSUME NEW c \in Conns, Refocus(c) PROVE TypeOK'
  BY <1>9 DEF Refocus, OutOfDate
<1>10. ASSUME NEW c \in Conns, Release(c) PROVE TypeOK'
  BY <1>10 DEF Release, Heirs
<1>11. ASSUME NEW c \in Conns, Disconnect(c) PROVE TypeOK'
  BY <1>11 DEF Disconnect, Heirs
<1>12. ASSUME NEW c \in Conns, SnapOwner(c) PROVE TypeOK'
  BY <1>12 DEF SnapOwner
<1>13. ASSUME NEW c \in Conns, SnapSubs(c) PROVE TypeOK'
  BY <1>13 DEF SnapSubs
<1>14. ASSUME NEW c \in Conns, NEW d \in Conns, Tell(c, d) PROVE TypeOK'
  BY <1>14 DEF Tell, Flag
<1>15. ASSUME NEW c \in Conns, Subscribe(c) PROVE TypeOK'
  BY <1>15 DEF Subscribe, handler
<1>16. ASSUME NEW c \in Conns, Unsubscribe(c) PROVE TypeOK'
  BY <1>16 DEF Unsubscribe, handler
<1>17. ASSUME NEW c \in Conns, HangUp(c) PROVE TypeOK'
  BY <1>17 DEF HangUp, handler
<1>18. CASE UNCHANGED vars
  BY <1>18 DEF vars, handler
<1>19. ASSUME NEW c \in Conns, Input(c) PROVE TypeOK'
  BY <1>19 DEF Input, handler
<1> QED
  BY <1>1, <1>2, <1>3, <1>4, <1>5, <1>6, <1>7, <1>8, <1>9, <1>10, <1>11, <1>12,
     <1>13, <1>14, <1>15, <1>16, <1>17, <1>18, <1>19 DEF Next, HandlerStep, AllGone

\* The history's types, at first and with every step.
LEMMA TypesAtFirst == HistoryInit => HistoryTypeOK
  BY TypingInit DEF HistoryInit, HistoryTypeOK

LEMMA TypesKept == HistoryTypeOK /\ [HistoryNext]_<<vars, history>> => HistoryTypeOK'
<1> SUFFICES ASSUME HistoryTypeOK, [HistoryNext]_<<vars, history>> PROVE HistoryTypeOK'
  OBVIOUS
<1>1. TypeOK'
  BY TypingStep DEF HistoryTypeOK, HistoryNext
<1>2. CASE RecordHistory
  BY <1>1, <1>2 DEF HistoryTypeOK, RecordHistory, Overlapping
<1>3. CASE UNCHANGED history
  BY <1>1, <1>3 DEF HistoryTypeOK, history
<1> QED
  BY <1>2, <1>3 DEF HistoryNext

\* The types of every reachable state, the history's included.
THEOREM TypeCorrect == HistorySpec => []HistoryTypeOK
  BY TypesAtFirst, TypesKept, PTL DEF HistorySpec

--------------------------------------------------------------------------------

\* OnlyHoldersResize with what makes it inductive: a handler about to re-apply
\* a remembered size has just taken the size over.
ResizeInv ==
    /\ TypeOK
    /\ held \in [Conns -> BOOLEAN]
    /\ \A c \in Conns : pc[c] \in {"refocus", "resize", "ioctl"} => held[c]

\* One connection's part of ResizeInv through one step: a handler that comes to
\* "refocus" or "resize" owns the size as it does, or was already on its way.
LEMMA HolderStep ==
    ASSUME ResizeInv, [HistoryNext]_<<vars, history>>,
           NEW e \in Conns, pc'[e] \in {"refocus", "resize", "ioctl"}
    PROVE  held'[e]
<1> USE DEF ResizeInv, TypeOK, Goto, Receive, ReceiveAttached
<1>1. CASE UNCHANGED <<vars, history>>
  BY <1>1 DEF vars, history, handler
<1>2. CASE HistoryNext
  <2>1. held'[e] = ((held[e] /\ ~Begins(e)) \/ sizeOwner' = e)
    BY <1>2 DEF HistoryNext, RecordHistory
  <2>2. \/ pc[e] \in {"refocus", "resize", "ioctl"}
        \/ sizeOwner' = e
    <3>1. ASSUME NEW c \in Conns, HandlerStep(c) PROVE <2>2
      <4>1. CASE Attach(c) \/ ReadOwner(c) \/ ParkNewcomer(c)
        BY <4>1 DEF Attach, ReadOwner, ParkNewcomer
      <4>2. CASE \E size \in Sizes : Resize(c, size)
        BY <4>2 DEF Resize
      <4>3. CASE OwnsSize(c)
        BY <4>3 DEF OwnsSize
      <4>4. CASE SetDims(c) \/ SetWinsize(c)
        BY <4>4 DEF SetDims, SetWinsize
      <4>5. CASE TakeSize(c)
        BY <4>5 DEF TakeSize
      <4>6. CASE Refocus(c)
        BY <4>6 DEF Refocus
      <4>7. CASE Release(c) \/ Disconnect(c)
        BY <4>7 DEF Release, Disconnect
      <4>8. CASE SnapOwner(c) \/ SnapSubs(c)
        BY <4>8 DEF SnapOwner, SnapSubs, Rest
      <4>9. CASE \E d \in Conns : Tell(c, d)
        BY <4>9 DEF Tell, Rest
      <4> QED
        BY <3>1, <4>1, <4>2, <4>3, <4>4, <4>5, <4>6, <4>7, <4>8, <4>9 DEF HandlerStep
    <3>2. ASSUME NEW c \in Conns, Input(c) \/ Subscribe(c) \/ Unsubscribe(c) \/ HangUp(c) PROVE <2>2
      BY <3>2 DEF Input, Subscribe, Unsubscribe, HangUp, handler
    <3>3. CASE AllGone
      BY <3>3 DEF AllGone, vars, handler
    <3> QED
      BY <1>2, <3>1, <3>2, <3>3 DEF HistoryNext, Next
  <2> QED
    BY <2>1, <2>2 DEF Begins
<1> QED
  BY <1>1, <1>2

\* A client that only watches never reshapes the PTY, whatever the interleaving.
THEOREM HoldersResize == HistorySpec => []OnlyHoldersResize
<1>1. HistoryInit => ResizeInv
  BY TypingInit DEF HistoryInit, Init, ResizeInv
<1>2. ResizeInv /\ [HistoryNext]_<<vars, history>> => ResizeInv'
  <2> SUFFICES ASSUME ResizeInv, [HistoryNext]_<<vars, history>> PROVE ResizeInv'
    OBVIOUS
  <2>1. TypeOK'
    BY TypingStep DEF ResizeInv, HistoryNext
  <2>2. held' \in [Conns -> BOOLEAN]
    BY DEF ResizeInv, HistoryNext, RecordHistory, history
  <2>3. ASSUME NEW e \in Conns, pc'[e] \in {"refocus", "resize", "ioctl"} PROVE held'[e]
    BY <2>3, HolderStep
  <2> QED
    BY <2>1, <2>2, <2>3 DEF ResizeInv
<1>3. ResizeInv => OnlyHoldersResize
  BY DEF ResizeInv, OnlyHoldersResize
<1> QED
  BY <1>1, <1>2, <1>3, PTL DEF HistorySpec

--------------------------------------------------------------------------------

lease == <<sizeOwner, subs, Takers, Leavers>>

\* The steps that the lease does not see.
LEMMA LeaseStutters ==
    ASSUME TypeOK, NEW c \in Conns,
           \/ Attach(c) \/ ReadOwner(c) \/ ParkNewcomer(c)
           \/ \E size \in Sizes : Resize(c, size)
           \/ SetDims(c) \/ SetWinsize(c)
           \/ SnapOwner(c) \/ SnapSubs(c) \/ (\E d \in Conns : Tell(c, d))
           \/ HangUp(c) \/ Input(c)
    PROVE  UNCHANGED lease \/ (SnapOwner(c) /\ Lease!Settle(c))
<1> USE DEF TypeOK, Goto, Receive, ReceiveAttached, Takers, Leavers, lease
<1>1. UNCHANGED <<sizeOwner, subs>>
  BY DEF Attach, ReadOwner, ParkNewcomer, Resize, SetDims, SetWinsize, SnapOwner,
     SnapSubs, Tell, HangUp, Input, session
<1>0. CASE SnapOwner(c) /\ pc[c] = "yielding"
  <2>1. c \notin Takers /\ c \in Leavers
    BY <1>0
  <2>2. Takers' = Takers /\ Leavers' = Leavers \ {c}
    BY <1>0 DEF SnapOwner
  <2> QED
    BY <1>0, <1>1, <2>1, <2>2 DEF Lease!Settle
<1> SUFFICES ASSUME ~(SnapOwner(c) /\ pc[c] = "yielding") PROVE UNCHANGED lease
  BY <1>0
<1>2. \A d \in Conns : /\ pc'[d] = "refocus" <=> pc[d] = "refocus"
                       /\ pc'[d] = "yielding" <=> pc[d] = "yielding"
  <2>1. CASE Attach(c) \/ ReadOwner(c) \/ ParkNewcomer(c)
    BY <2>1 DEF Attach, ReadOwner, ParkNewcomer
  <2>2. CASE (\E size \in Sizes : Resize(c, size)) \/ SetDims(c) \/ SetWinsize(c)
    BY <2>2 DEF Resize, SetDims, SetWinsize
  <2>3. CASE SnapOwner(c) \/ SnapSubs(c) \/ (\E d \in Conns : Tell(c, d))
    BY <2>3 DEF SnapOwner, SnapSubs, Tell, Rest
  <2>4. CASE HangUp(c) \/ Input(c)
    BY <2>4 DEF HangUp, Input, handler
  <2> QED
    BY <2>1, <2>2, <2>3, <2>4
<1> QED
  BY <1>1, <1>2

\* A release or a disconnect is a step back of the connection whose it is.
LEMMA HandOverStep ==
    ASSUME TypeOK, NEW c \in Conns, Release(c) \/ Disconnect(c)
    PROVE  Lease!HandOver(c)
<1>1. sizeOwner' \in Heirs(c) /\ UNCHANGED subs
  BY DEF Release, Disconnect
<1>2. UNCHANGED Takers
  BY DEF TypeOK, Release, Disconnect, Goto, Receive, ReceiveAttached, Takers
<1>3. c \notin Leavers /\ Leavers' = Leavers \cup {c}
  BY DEF TypeOK, Release, Disconnect, Goto, Receive, ReceiveAttached, Leavers
<1>4. Heirs(c) = Lease!Heir(c)
  BY DEF Heirs, Lease!Heir
<1> QED
  BY <1>1, <1>2, <1>3, <1>4 DEF Lease!HandOver

\* Every step of the daemon is a step of the lease, or none.
LEMMA LeaseStep == TypeOK /\ [Next]_vars => [Lease!LeaseNext]_lease
<1> SUFFICES ASSUME TypeOK, [Next]_vars
             PROVE  Lease!LeaseNext \/ UNCHANGED lease
  OBVIOUS
<1> USE DEF Lease!LeaseNext
<1>1. ASSUME NEW c \in Conns, Release(c) \/ Disconnect(c) PROVE Lease!LeaseNext
  BY <1>1, HandOverStep
<1>2. ASSUME NEW c \in Conns, TakeSize(c) PROVE Lease!LeaseNext
  <2>1. c \notin Takers /\ Takers' = Takers \cup {c} /\ UNCHANGED Leavers
    BY <1>2 DEF TypeOK, TakeSize, Goto, Receive, ReceiveAttached, Takers, Leavers
  <2> QED
    BY <1>2, <2>1 DEF TakeSize, Lease!Take
<1>3. ASSUME NEW c \in Conns, OwnsSize(c)
      PROVE  Lease!LeaseNext \/ UNCHANGED lease
  <2>1. UNCHANGED <<Takers, Leavers>>
    BY <1>3 DEF TypeOK, OwnsSize, Goto, Takers, Leavers
  <2> QED
    BY <1>3, <2>1 DEF OwnsSize, Claimed, Lease!Claim, lease
<1>4. ASSUME NEW c \in Conns, Refocus(c) PROVE Lease!LeaseNext
  <2>1. c \in Takers /\ Takers' = Takers \ {c} /\ c \notin Leavers /\ UNCHANGED Leavers
    BY <1>4 DEF TypeOK, Refocus, Goto, Takers, Leavers
  <2> QED
    BY <1>4, <2>1 DEF Refocus, session, Lease!Settle
<1>5. ASSUME NEW c \in Conns, Subscribe(c) \/ Unsubscribe(c) PROVE Lease!LeaseNext
  <2>1. UNCHANGED <<Takers, Leavers>>
    BY <1>5 DEF Subscribe, Unsubscribe, handler, Takers, Leavers
  <2> QED
    BY <1>5, <2>1 DEF Subscribe, Unsubscribe, Lease!Watch, Lease!Unwatch
<1>6. CASE UNCHANGED vars
  BY <1>6 DEF vars, session, handler, lease, Takers, Leavers
<1>7. ASSUME NEW c \in Conns, HandlerStep(c)
      PROVE  Lease!LeaseNext \/ UNCHANGED lease
  BY <1>1, <1>2, <1>3, <1>4, <1>7, LeaseStutters DEF HandlerStep
<1>8. ASSUME NEW c \in Conns, HangUp(c) \/ Input(c) PROVE Lease!LeaseNext \/ UNCHANGED lease
  BY <1>8, LeaseStutters
<1> QED
  BY <1>5, <1>6, <1>7, <1>8 DEF Next, AllGone

\* The goroutines, their critical sections interleaved, keep the promise that
\* SizeLease makes of the size as a whole: a held size leaves its holder only for a
\* connection that takes it explicitly, or when the holder itself steps back.
THEOREM ImplementsLease == HistorySpec => LeaseSpec
<1>1. HistoryInit => Lease!LeaseInit
  BY DEF HistoryInit, Init, Lease!LeaseInit, Takers, Leavers
<1>2. HistoryTypeOK /\ [HistoryNext]_<<vars, history>> => [Lease!LeaseNext]_lease
  BY LeaseStep DEF HistoryTypeOK, HistoryNext
<1> QED
  BY <1>1, <1>2, TypeCorrect, PTL
  DEF HistorySpec, LeaseSpec, Lease!LeaseSpec, Lease!leaseVars, lease

\* A released size finds a watcher if there is one.
THEOREM WatchersInherit == HistorySpec => NeverFreedUnderWatchers
<1> DEFINE Inherits(c) == HandsOver(c) /\ subs \ {c} # {} => sizeOwner' # NoConn
<1>1. ASSUME HistoryTypeOK, [HistoryNext]_<<vars, history>>, NEW c \in Conns, HandsOver(c)
      PROVE  Release(c) \/ Disconnect(c)
  <2> USE DEF HistoryTypeOK, TypeOK, HandsOver, Goto, Receive, ReceiveAttached
  <2>1. ASSUME NEW d \in Conns, HandlerStep(d), ~(Release(c) \/ Disconnect(c)) PROVE FALSE
    <3>1. CASE Attach(d) \/ ReadOwner(d) \/ ParkNewcomer(d)
      BY <1>1, <2>1, <3>1 DEF Attach, ReadOwner, ParkNewcomer
    <3>2. CASE \E size \in Sizes : Resize(d, size)
      BY <1>1, <2>1, <3>2 DEF Resize
    <3>3. CASE OwnsSize(d) \/ SetDims(d)
      BY <1>1, <2>1, <3>3 DEF OwnsSize, SetDims
    <3>4. CASE SetWinsize(d) \/ Refocus(d)
      BY <1>1, <2>1, <3>4 DEF SetWinsize, Refocus
    <3>5. CASE TakeSize(d)
      BY <1>1, <2>1, <3>5 DEF TakeSize
    <3>6. CASE Release(d)
      BY <1>1, <2>1, <3>6 DEF Release
    <3>7. CASE Disconnect(d)
      BY <1>1, <2>1, <3>7 DEF Disconnect
    <3>8. CASE SnapOwner(d) \/ SnapSubs(d)
      BY <1>1, <2>1, <3>8 DEF SnapOwner, SnapSubs, Rest
    <3>9. CASE \E e \in Conns : Tell(d, e)
      BY <1>1, <2>1, <3>9 DEF Tell, Rest
    <3> QED
      BY <2>1, <3>1, <3>2, <3>3, <3>4, <3>5, <3>6, <3>7, <3>8, <3>9 DEF HandlerStep
  <2>2. ASSUME NEW d \in Conns, Input(d) \/ Subscribe(d) \/ Unsubscribe(d) \/ HangUp(d) PROVE FALSE
    BY <1>1, <2>2 DEF Input, Subscribe, Unsubscribe, HangUp, handler
  <2>3. CASE UNCHANGED vars
    BY <1>1, <2>3 DEF vars, handler
  <2> QED
    BY <1>1, <2>1, <2>2, <2>3 DEF HistoryNext, Next, AllGone, vars
<1>2. HistoryTypeOK /\ [HistoryNext]_<<vars, history>> => [\A c \in Conns : Inherits(c)]_vars
  <2> SUFFICES ASSUME HistoryTypeOK, [HistoryNext]_<<vars, history>>, NEW c \in Conns,
                      HandsOver(c), subs \ {c} # {}
               PROVE  sizeOwner' # NoConn
    OBVIOUS
  <2>1. sizeOwner' \in Heirs(c)
    BY <1>1 DEF Release, Disconnect
  <2> QED
    BY <2>1, SizeOwnershipAssumption DEF SizeOwnershipAssumption, Heirs, HistoryTypeOK, TypeOK
<1> QED
  BY <1>2, TypeCorrect, PTL DEF HistorySpec, NeverFreedUnderWatchers
--------------------------------------------------------------------------------
(* What serial requests leave behind: flags and sizes that agree.              *)

\* The handler of c is in the middle of a request or of its cleanup.
Handling(c) == pc[c] \notin {"reading", "closed"}

AllRead == \A c \in Conns : ~Handling(c)

\* What ~overlap says of the present state: a handler at work is alone, but for its
\* own stream goroutine while it attaches.
Serial == \A c \in Conns : Handling(c) =>
    /\ \A d \in Conns \ {c} : ~Handling(d) /\ stream[d] # "spawned"
    /\ stream[c] = "spawned" => pc[c] \in {"newcomer", "unicast"}

\* Who is subscribed, and that neither a request nor the size comes before the attach.
Attached ==
    /\ \A c \in Conns : c \in subs <=> stream[c] = "streaming"
    /\ \A c \in Conns : stream[c] = "none" =>
          /\ sizeOwner # c
          /\ pc[c] \in {"reading", "yielding", "snapOwner", "snapSubs", "telling", "closed"}

\* d, which watches or is about to, was told whether it owns the size.
Knows(d) ==
    open[d] /\ stream[d] \in {"spawned", "streaming"} /\ sizeOwner # NoConn =>
        (told[d] <=> d = sizeOwner)

\* Who may be misinformed while c handles its request, and why that will end.
Telling(c) ==
    /\ pc[c] \in {"newcomer", "unicast"} => sizeOwner # c /\ \A d \in Conns \ {c} : Knows(d)
    /\ pc[c] = "ownsSize" => (announce[c] <=> sizeOwner # c) /\ \A d \in Conns : Knows(d)
    /\ pc[c] \in {"resize", "ioctl"} => announce[c] \/ \A d \in Conns : Knows(d)
    /\ pc[c] \in {"snapSubs", "telling"} => seenOwner[c] = sizeOwner
    /\ pc[c] = "telling" => \A d \in Conns \ toTell[c] : Knows(d)

FlagsInv ==
    /\ AllRead => \A d \in Conns : Knows(d)
    /\ \A c \in Conns : Telling(c)

\* The session has the size that d asked for last, if d owns it and did not inherit it.
Follows(d) == sizeOwner = d /\ remembered[d] # NoSize /\ ~inherited => dims = remembered[d]

\* What c has still to apply to the PTY while it handles its request.
Sizing(c) ==
    /\ Handling(c) /\ pc[c] # "ioctl" => winsize = dims
    /\ pc[c] \in {"refocus", "resize", "ioctl"} => sizeOwner = c
    /\ pc[c] \in {"ownsSize", "resize", "ioctl"} => want[c] = remembered[c]
    /\ pc[c] = "ioctl" => dims = want[c]
    /\ pc[c] = "ownsSize" => \A d \in Conns \ {c} : Follows(d)
    /\ pc[c] \in {"newcomer", "unicast", "yielding", "snapOwner", "snapSubs", "telling"} =>
          \A d \in Conns : Follows(d)

SizesInv ==
    /\ AllRead => winsize = dims /\ \A d \in Conns : Follows(d)
    /\ \A c \in Conns : Sizing(c)

SerialInv ==
    /\ HistoryTypeOK
    /\ Attached
    /\ ~overlap => Serial /\ FlagsInv /\ SizesInv

\* No request comes before the attach, and subs follows the stream goroutines.
LEMMA AttachedStep == TypeOK /\ Attached /\ [Next]_vars => Attached'
<1> SUFFICES ASSUME TypeOK, Attached, [Next]_vars PROVE Attached'
  OBVIOUS
<1> USE SizeOwnershipAssumption DEF SizeOwnershipAssumption, TypeOK, Attached, Goto, Receive,
        ReceiveAttached, session, handler, client
<1>1. ASSUME NEW c \in Conns, Attach(c) PROVE Attached'
  BY <1>1 DEF Attach
<1>2. ASSUME NEW c \in Conns, ReadOwner(c) PROVE Attached'
  BY <1>2 DEF ReadOwner
<1>3. ASSUME NEW c \in Conns, ParkNewcomer(c) PROVE Attached'
  BY <1>3 DEF ParkNewcomer
<1>4. ASSUME NEW c \in Conns, NEW size \in Sizes, Resize(c, size) PROVE Attached'
  BY <1>4 DEF Resize
<1>5. ASSUME NEW c \in Conns, OwnsSize(c) PROVE Attached'
  BY <1>5 DEF OwnsSize, Claimed
<1>6. ASSUME NEW c \in Conns, SetDims(c) PROVE Attached'
  BY <1>6 DEF SetDims
<1>7. ASSUME NEW c \in Conns, SetWinsize(c) PROVE Attached'
  BY <1>7 DEF SetWinsize
<1>8. ASSUME NEW c \in Conns, TakeSize(c) PROVE Attached'
  BY <1>8 DEF TakeSize
<1>9. ASSUME NEW c \in Conns, Refocus(c) PROVE Attached'
  BY <1>9 DEF Refocus
<1>10. ASSUME NEW c \in Conns, Release(c) PROVE Attached'
  BY <1>10 DEF Release, Heirs
<1>11. ASSUME NEW c \in Conns, Disconnect(c) PROVE Attached'
  BY <1>11 DEF Disconnect, Heirs
<1>12. ASSUME NEW c \in Conns, SnapOwner(c) PROVE Attached'
  BY <1>12 DEF SnapOwner
<1>13. ASSUME NEW c \in Conns, SnapSubs(c) PROVE Attached'
  BY <1>13 DEF SnapSubs, Rest
<1>14. ASSUME NEW c \in Conns, NEW d \in Conns, Tell(c, d) PROVE Attached'
  BY <1>14 DEF Tell, Rest
<1>15. ASSUME NEW c \in Conns, Subscribe(c) PROVE Attached'
  BY <1>15 DEF Subscribe
<1>16. ASSUME NEW c \in Conns, Unsubscribe(c) PROVE Attached'
  BY <1>16 DEF Unsubscribe
<1>17. ASSUME NEW c \in Conns, HangUp(c) PROVE Attached'
  BY <1>17 DEF HangUp
<1>18. CASE UNCHANGED vars
  BY <1>18 DEF vars
<1>19. ASSUME NEW c \in Conns, Input(c) PROVE Attached'
  BY <1>19 DEF Input
<1> QED
  BY <1>1, <1>2, <1>3, <1>4, <1>5, <1>6, <1>7, <1>8, <1>9, <1>10, <1>11, <1>12,
     <1>13, <1>14, <1>15, <1>16, <1>17, <1>18, <1>19 DEF Next, HandlerStep, AllGone

\* While requests are serial, nobody else is at work at either end of a handler's step.
LEMMA OthersRest ==
    ASSUME TypeOK, Serial, Serial', NEW c \in Conns, HandlerStep(c),
           NEW e \in Conns, e # c
    PROVE  /\ ~Handling(e) /\ ~Handling(e)'
           /\ stream'[e] # "spawned" \/ (stream[e] = "spawned" /\ ~Handling(c)')
           /\ stream[e] # "spawned" \/ ~Handling(c)
<1> USE DEF TypeOK, Goto, Receive, ReceiveAttached, Handling
<1>1. pc'[e] = pc[e] /\ stream'[e] = stream[e]
  <2>1. CASE Attach(c) \/ ReadOwner(c) \/ ParkNewcomer(c)
    BY <2>1 DEF Attach, ReadOwner, ParkNewcomer
  <2>2. CASE (\E size \in Sizes : Resize(c, size)) \/ OwnsSize(c) \/ SetDims(c) \/ SetWinsize(c)
    BY <2>2 DEF Resize, OwnsSize, SetDims, SetWinsize
  <2>3. CASE TakeSize(c) \/ Refocus(c) \/ Release(c) \/ Disconnect(c)
    BY <2>3 DEF TakeSize, Refocus, Release, Disconnect
  <2>4. CASE SnapOwner(c) \/ SnapSubs(c) \/ (\E d \in Conns : Tell(c, d))
    BY <2>4 DEF SnapOwner, SnapSubs, Tell
  <2> QED
    BY <2>1, <2>2, <2>3, <2>4 DEF HandlerStep
<1>2. Handling(c) \/ Handling(c)'
  <2>1. CASE Attach(c) \/ ReadOwner(c) \/ ParkNewcomer(c)
    BY <2>1 DEF Attach, ReadOwner, ParkNewcomer
  <2>2. CASE (\E size \in Sizes : Resize(c, size)) \/ OwnsSize(c) \/ SetDims(c) \/ SetWinsize(c)
    BY <2>2 DEF Resize, OwnsSize, SetDims, SetWinsize
  <2>3. CASE TakeSize(c) \/ Refocus(c) \/ Release(c) \/ Disconnect(c)
    BY <2>3 DEF TakeSize, Refocus, Release, Disconnect
  <2>4. CASE SnapOwner(c) \/ SnapSubs(c) \/ (\E d \in Conns : Tell(c, d))
    BY <2>4 DEF SnapOwner, SnapSubs, Tell
  <2> QED
    BY <2>1, <2>2, <2>3, <2>4 DEF HandlerStep
<1> QED
  BY <1>1, <1>2 DEF Serial

\* The flags: a handler's step leaves nobody misinformed whom the handler will not
\* tell, and the last one of a request nobody at all.
LEMMA FlagsHandled ==
    ASSUME TypeOK, TypeOK', Attached, Serial, Serial', FlagsInv, NEW c \in Conns, HandlerStep(c)
    PROVE  FlagsInv'
<1>1. \A e \in Conns \ {c} : ~Handling(e) /\ ~Handling(e)'
  BY OthersRest
<1>2. SUFFICES Telling(c)' /\ (~Handling(c)' => \A d \in Conns : Knows(d)')
  BY <1>1, <1>2 DEF FlagsInv, AllRead, Telling, Handling
<1>3. ~Handling(c) => \A d \in Conns : Knows(d)
  BY <1>1 DEF FlagsInv, AllRead
<1>4. Telling(c)
  BY DEF FlagsInv
<1> USE DEF Goto, Receive, ReceiveAttached, Handling
<1>5. ASSUME UNCHANGED <<sizeOwner, stream, open, told>> PROVE \A d \in Conns : Knows(d)' <=> Knows(d)
  BY <1>5 DEF Knows
<1>6. CASE Attach(c)
  <2>1. pc'[c] = "newcomer" /\ sizeOwner' # c /\ ~Handling(c)
    BY <1>6 DEF Attach, TypeOK, session, Attached
  <2>2. \A d \in Conns \ {c} : Knows(d)'
    BY <1>3, <1>6 DEF Attach, TypeOK, session, Knows
  <2> QED
    BY <2>1, <2>2 DEF Telling
<1>7. CASE ReadOwner(c)
  <2>1. sizeOwner # c /\ \A d \in Conns \ {c} : Knows(d)'
    BY <1>4, <1>5, <1>7 DEF ReadOwner, Telling, session, client
  <2>2. \/ pc'[c] = "unicast" /\ sizeOwner' # c
        \/ pc'[c] = "reading" /\ sizeOwner' = NoConn
    BY <1>7, <2>1 DEF ReadOwner, TypeOK, session
  <2>3. sizeOwner' = NoConn => Knows(c)'
    BY DEF Knows
  <2> QED
    BY <2>1, <2>2, <2>3 DEF Telling
<1>8. CASE ParkNewcomer(c)
  <2>1. sizeOwner' # c /\ pc'[c] = "reading"
    BY <1>4, <1>8 DEF ParkNewcomer, Telling, session, TypeOK
  <2>2. \A d \in Conns : Knows(d)'
    BY <1>4, <1>8 DEF ParkNewcomer, Telling, session, TypeOK, WriteActive, Knows
  <2> QED
    BY <2>1, <2>2 DEF Telling
<1>9. ASSUME NEW size \in Sizes, Resize(c, size) PROVE Telling(c)' /\ (~Handling(c)' => \A d \in Conns : Knows(d)')
  <2>1. pc'[c] = "ownsSize" /\ (announce'[c] <=> sizeOwner' # c) /\ ~Handling(c)
    BY <1>9 DEF Resize, TypeOK, session
  <2>2. \A d \in Conns : Knows(d)'
    BY <1>3, <1>5, <1>9, <2>1 DEF Resize, session
  <2> QED
    BY <2>1, <2>2 DEF Telling
<1>10. CASE OwnsSize(c)
  <2>1. (announce[c] <=> sizeOwner # c) /\ announce' = announce /\ \A d \in Conns : Knows(d)
    BY <1>4, <1>10 DEF OwnsSize, Telling
  <2>2. CASE pc'[c] = "resize"
    <3>1. announce[c] \/ sizeOwner' = sizeOwner
      BY <1>10, <2>1 DEF OwnsSize, Claimed, TypeOK
    <3> QED
      BY <1>5, <1>10, <2>1, <2>2, <3>1 DEF Telling, OwnsSize, client
  <2>3. CASE pc'[c] = "reading"
    <3>1. sizeOwner' = sizeOwner
      BY <1>10, <2>3 DEF OwnsSize, Claimed, TypeOK
    <3> QED
      BY <1>5, <1>10, <2>1, <2>3, <3>1 DEF Telling, OwnsSize, client
  <2> QED
    BY <1>10, <2>2, <2>3 DEF OwnsSize, TypeOK
<1>11. CASE SetDims(c)
  <2>1. announce' = announce /\ pc'[c] = "ioctl" /\ \A d \in Conns : Knows(d)' <=> Knows(d)
    BY <1>5, <1>11 DEF SetDims, TypeOK, client
  <2> QED
    BY <1>4, <1>11, <2>1 DEF SetDims, Telling
<1>12. CASE SetWinsize(c)
  <2>1. /\ pc'[c] = "snapOwner" \/ (~announce[c] /\ pc'[c] = "reading")
        /\ \A d \in Conns : Knows(d)' <=> Knows(d)
    BY <1>5, <1>12 DEF SetWinsize, TypeOK, client
  <2> QED
    BY <1>4, <1>12, <2>1 DEF SetWinsize, Telling
<1>13. CASE TakeSize(c)
  BY <1>13 DEF TakeSize, TypeOK, Telling
<1>14. CASE Refocus(c)
  <2>1. (pc'[c] = "resize" /\ announce'[c]) \/ pc'[c] = "snapOwner"
    BY <1>14 DEF Refocus, TypeOK
  <2> QED
    BY <2>1 DEF Telling
<1>15. CASE Release(c) \/ Disconnect(c)
  <2>1. pc'[c] = "yielding"
    BY <1>15 DEF Release, Disconnect, TypeOK
  <2> QED
    BY <2>1 DEF Telling
<1>16. CASE SnapOwner(c)
  <2>1. pc'[c] = "snapSubs" /\ seenOwner'[c] = sizeOwner'
    BY <1>16 DEF SnapOwner, TypeOK, session
  <2> QED
    BY <2>1 DEF Telling
<1>17. CASE SnapSubs(c)
  <2>1. seenOwner'[c] = sizeOwner' /\ toTell'[c] = subs
    BY <1>4, <1>17 DEF SnapSubs, Telling, session, TypeOK
  <2>2. \A d \in Conns \ subs : Knows(d)'
    BY <1>17 DEF SnapSubs, Attached, Serial, Knows
  <2>3. pc'[c] = "telling" \/ (pc'[c] \in {"reading", "closed"} /\ subs = {})
    BY <1>17 DEF SnapSubs, Rest, TypeOK
  <2> QED
    BY <2>1, <2>2, <2>3 DEF Telling
<1>18. ASSUME NEW d \in Conns, Tell(c, d) PROVE Telling(c)' /\ (~Handling(c)' => \A x \in Conns : Knows(x)')
  <2>1. seenOwner'[c] = sizeOwner' /\ sizeOwner' = sizeOwner /\ seenOwner[c] = sizeOwner /\ pc[c] = "telling"
    BY <1>4, <1>18 DEF Tell, Telling, session
  <2>2. toTell'[c] = toTell[c] \ {d} /\ UNCHANGED <<stream, open>>
    BY <1>18 DEF Tell, TypeOK
  <2>3. told' = IF open[d] THEN [told EXCEPT ![d] = (d = sizeOwner)] ELSE told
    BY <1>18, <2>1 DEF Tell, WriteActive, Flag
  <2>4. \A x \in Conns \ (toTell[c] \ {d}) : Knows(x)'
    <3>1. Knows(d)'
      BY <2>1, <2>2, <2>3 DEF Knows, TypeOK
    <3>2. ASSUME NEW x \in Conns \ toTell[c], x # d PROVE Knows(x)'
      <4>1. told'[x] = told[x]
        BY <2>3, <3>2 DEF TypeOK
      <4>2. Knows(x)
        BY <1>4, <2>1 DEF Telling
      <4> QED
        BY <2>1, <2>2, <4>1, <4>2 DEF Knows
    <3> QED
      BY <3>1, <3>2
  <2>5. pc'[c] = "telling" \/ (pc'[c] \in {"reading", "closed"} /\ toTell[c] = {d})
    BY <1>18 DEF Tell, Rest, TypeOK
  <2> QED
    BY <2>1, <2>2, <2>4, <2>5 DEF Telling
<1> QED
  BY <1>6, <1>7, <1>8, <1>9, <1>10, <1>11, <1>12, <1>13, <1>14, <1>15, <1>16, <1>17, <1>18 DEF HandlerStep

\* Subscriptions and hang-ups leave the flags to those that still watch.
LEMMA FlagsUnhandled ==
    ASSUME TypeOK, FlagsInv,
           (\E c \in Conns : Input(c) \/ Subscribe(c) \/ Unsubscribe(c) \/ HangUp(c)) \/ UNCHANGED vars
    PROVE  FlagsInv'
<1> USE DEF TypeOK, FlagsInv, AllRead, Handling, Telling, Knows, session, handler, client
<1>1. ASSUME NEW c \in Conns, Subscribe(c) PROVE FlagsInv'
  BY <1>1 DEF Subscribe
<1>2. ASSUME NEW c \in Conns, Unsubscribe(c) PROVE FlagsInv'
  BY <1>2 DEF Unsubscribe
<1>3. ASSUME NEW c \in Conns, HangUp(c) PROVE FlagsInv'
  BY <1>3 DEF HangUp
<1>4. CASE UNCHANGED vars
  BY <1>4 DEF vars
<1>5. ASSUME NEW c \in Conns, Input(c) PROVE FlagsInv'
  BY <1>5 DEF Input
<1> QED
  BY <1>1, <1>2, <1>3, <1>4, <1>5

\* The size: what a handler has still to apply is its own remembered size, and after
\* its last step the PTY has the owner's.
LEMMA SizesHandled ==
    ASSUME TypeOK, TypeOK', Serial, Serial', SizesInv, RecordHistory, inherited \in BOOLEAN,
           NEW c \in Conns, HandlerStep(c)
    PROVE  SizesInv'
<1>1. \A e \in Conns \ {c} : ~Handling(e) /\ ~Handling(e)'
  BY OthersRest
<1>2. SUFFICES Sizing(c)' /\ (~Handling(c)' => winsize' = dims' /\ \A d \in Conns : Follows(d)')
  BY <1>1, <1>2 DEF SizesInv, AllRead, Sizing, Handling
<1>3. ~Handling(c) => winsize = dims /\ \A d \in Conns : Follows(d)
  BY <1>1 DEF SizesInv, AllRead
<1>4. Sizing(c)
  BY DEF SizesInv
<1> USE DEF Goto, Receive, ReceiveAttached, Handling
<1>5. ASSUME NEW e \in Conns, ~HandsOver(c) PROVE ~HandsOver(e)
  BY <1>1, <1>5 DEF HandsOver
<1>6. ~HandsOver(c) /\ pc[c] # "ownsSize" /\ pc'[c] # "refocus" => inherited' = inherited
  <2>1. \A e \in Conns \ {c} : pc[e] # "ownsSize" /\ pc'[e] # "refocus"
    BY <1>1
  <2> QED
    BY <1>5, <2>1 DEF RecordHistory
<1>7. ASSUME UNCHANGED <<sizeOwner, remembered, dims>>, ~HandsOver(c),
             pc[c] # "ownsSize", pc'[c] # "refocus"
      PROVE  \A d \in Conns : Follows(d) => Follows(d)'
  BY <1>6, <1>7 DEF Follows
<1>8. CASE Attach(c)
  <2>1. pc'[c] = "newcomer" /\ ~Handling(c) /\ winsize' = dims'
    BY <1>3, <1>8 DEF Attach, TypeOK, session
  <2>2. \A d \in Conns : Follows(d)'
    BY <1>3, <1>7, <1>8, <2>1 DEF Attach, session, HandsOver
  <2> QED
    BY <2>1, <2>2 DEF Sizing
<1>9. CASE ReadOwner(c) \/ ParkNewcomer(c)
  <2>1. /\ pc[c] \in {"newcomer", "unicast"} /\ pc'[c] \in {"unicast", "reading"}
        /\ UNCHANGED <<sizeOwner, remembered, dims, winsize>>
    BY <1>9 DEF ReadOwner, ParkNewcomer, TypeOK, session
  <2>2. winsize' = dims' /\ \A d \in Conns : Follows(d)'
    BY <1>4, <1>7, <2>1 DEF Sizing, HandsOver
  <2> QED
    BY <2>1, <2>2 DEF Sizing
<1>10. ASSUME NEW size \in Sizes, Resize(c, size)
       PROVE  Sizing(c)' /\ (~Handling(c)' => winsize' = dims' /\ \A d \in Conns : Follows(d)')
  <2>1. pc'[c] = "ownsSize" /\ ~Handling(c) /\ winsize' = dims' /\ want'[c] = remembered'[c]
    BY <1>3, <1>10 DEF Resize, TypeOK, session
  <2>2. \A d \in Conns \ {c} : Follows(d)'
    <3>1. \A d \in Conns \ {c} : remembered'[d] = remembered[d]
      BY <1>10 DEF Resize, TypeOK
    <3>2. UNCHANGED <<sizeOwner, dims, inherited>>
      BY <1>6, <1>10, <2>1 DEF Resize, session, HandsOver
    <3> QED
      BY <1>3, <2>1, <3>1, <3>2 DEF Follows
  <2> QED
    BY <2>1, <2>2 DEF Sizing
<1>11. CASE OwnsSize(c)
  <2>1. /\ winsize' = dims' /\ want[c] = remembered[c] /\ UNCHANGED <<dims, remembered>>
        /\ \A d \in Conns \ {c} : Follows(d)
    BY <1>4, <1>11 DEF OwnsSize, Sizing
  <2>2. CASE pc'[c] = "resize"
    <3>1. sizeOwner' = c /\ want' = want
      BY <1>11, <2>2 DEF OwnsSize, TypeOK
    <3> QED
      BY <2>1, <2>2, <3>1 DEF Sizing
  <2>3. CASE pc'[c] = "reading"
    <3>1. sizeOwner' = sizeOwner /\ sizeOwner # c
      BY <1>11, <2>3 DEF OwnsSize, Claimed, TypeOK
    <3>2. \A d \in Conns : Follows(d)'
      <4>1. ~HandsOver(c)
        BY <1>11 DEF OwnsSize, HandsOver
      <4>2. inherited' = inherited
        BY <1>1, <1>5, <3>1, <4>1 DEF RecordHistory
      <4> QED
        BY <2>1, <3>1, <4>2 DEF Follows
    <3> QED
      BY <2>1, <2>3, <3>2 DEF Sizing
  <2> QED
    BY <1>11, <2>2, <2>3 DEF OwnsSize, TypeOK
<1>12. CASE SetDims(c)
  <2>1. pc'[c] = "ioctl" /\ dims' = want'[c] /\ want'[c] = remembered'[c] /\ sizeOwner' = c
    BY <1>4, <1>12 DEF SetDims, Sizing, TypeOK
  <2> QED
    BY <2>1 DEF Sizing
<1>13. CASE SetWinsize(c)
  <2>1. /\ pc'[c] \in {"snapOwner", "reading"} /\ sizeOwner' = c
        /\ winsize' = dims' /\ dims' = remembered'[c]
    BY <1>4, <1>13 DEF SetWinsize, Sizing, TypeOK
  <2> QED
    BY <2>1 DEF Sizing, Follows
<1>14. CASE TakeSize(c)
  <2>1. pc'[c] = "refocus" /\ sizeOwner' = c /\ winsize' = dims'
    BY <1>3, <1>14 DEF TakeSize, TypeOK
  <2> QED
    BY <2>1 DEF Sizing
<1>15. CASE Refocus(c)
  <2>1. sizeOwner' = c /\ winsize' = dims' /\ UNCHANGED <<dims, remembered>>
    BY <1>4, <1>15 DEF Refocus, Sizing, session
  <2>2. CASE OutOfDate(c)
    <3>1. pc'[c] = "resize" /\ want'[c] = remembered'[c]
      BY <1>15, <2>2 DEF Refocus, TypeOK
    <3> QED
      BY <2>1, <3>1 DEF Sizing
  <2>3. CASE ~OutOfDate(c)
    <3>1. pc'[c] = "snapOwner" /\ \A d \in Conns : Follows(d)'
      BY <1>15, <2>1, <2>3 DEF Refocus, TypeOK, OutOfDate, Follows
    <3> QED
      BY <2>1, <3>1 DEF Sizing
  <2> QED
    BY <2>2, <2>3
<1>16. CASE Release(c) \/ Disconnect(c)
  <2>1. pc'[c] = "yielding" /\ HandsOver(c) /\ ~Handling(c) /\ UNCHANGED <<dims, winsize, remembered>>
    BY <1>16 DEF Release, Disconnect, TypeOK, HandsOver
  <2>2. inherited' <=> inherited \/ sizeOwner' # sizeOwner
    BY <2>1 DEF RecordHistory
  <2>3. winsize' = dims' /\ \A d \in Conns : Follows(d)'
    BY <1>3, <2>1, <2>2 DEF Follows
  <2> QED
    BY <2>1, <2>3 DEF Sizing
<1>17. CASE SnapOwner(c) \/ SnapSubs(c) \/ \E d \in Conns : Tell(c, d)
  <2>1. /\ pc[c] \in {"yielding", "snapOwner", "snapSubs", "telling"}
        /\ pc'[c] \in {"snapSubs", "telling", "reading", "closed"}
        /\ UNCHANGED <<sizeOwner, remembered, dims, winsize>>
    <3>1. CASE SnapOwner(c) \/ SnapSubs(c)
      BY <3>1 DEF SnapOwner, SnapSubs, Rest, TypeOK, session
    <3>2. CASE \E d \in Conns : Tell(c, d)
      BY <3>2 DEF Tell, Rest, TypeOK, session
    <3> QED
      BY <1>17, <3>1, <3>2
  <2>2. winsize' = dims' /\ \A d \in Conns : Follows(d)'
    BY <1>4, <1>7, <2>1 DEF Sizing, HandsOver
  <2> QED
    BY <2>1, <2>2 DEF Sizing
<1> QED
  BY <1>8, <1>9, <1>10, <1>11, <1>12, <1>13, <1>14, <1>15, <1>16, <1>17 DEF HandlerStep

\* Subscriptions and hang-ups do not touch the size.
LEMMA SizesUnhandled ==
    ASSUME Serial, SizesInv, UNCHANGED <<sizeOwner, dims, winsize, handler>>,
           inherited' = inherited \/ \E e \in Conns : sizeOwner = e /\ pc[e] = "ownsSize"
    PROVE  SizesInv'
<1>1. CASE inherited' = inherited
  <2>1. \A d \in Conns : Follows(d) <=> Follows(d)'
    BY <1>1 DEF Follows, handler
  <2> QED
    BY <2>1 DEF SizesInv, AllRead, Handling, Sizing, handler
<1>2. ASSUME NEW e \in Conns, sizeOwner = e, pc[e] = "ownsSize" PROVE SizesInv'
  <2>1. ~AllRead' /\ \A c \in Conns \ {e} : Sizing(c)'
    BY <1>2 DEF Serial, Handling, AllRead, Sizing, handler
  <2>2. \A d \in Conns \ {e} : Follows(d)'
    BY <1>2 DEF Follows
  <2>3. Sizing(e)'
    BY <1>2, <2>2 DEF SizesInv, Sizing, Handling, handler
  <2> QED
    BY <2>1, <2>3 DEF SizesInv
<1> QED
  BY <1>1, <1>2

\* One step of the daemon, of a stream goroutine or of a client.
LEMMA SerialStep == SerialInv /\ [HistoryNext]_<<vars, history>> => SerialInv'
<1> SUFFICES ASSUME SerialInv, [HistoryNext]_<<vars, history>> PROVE SerialInv'
  OBVIOUS
<1>1. HistoryTypeOK /\ TypeOK /\ Attached
  BY DEF SerialInv, HistoryTypeOK
<1>2. HistoryTypeOK' /\ TypeOK'
  BY <1>1, TypesKept DEF HistoryTypeOK
<1>3. Attached'
  BY <1>1, AttachedStep DEF HistoryNext
<1>4. CASE UNCHANGED <<vars, history>>
  BY <1>2, <1>3, <1>4 DEF SerialInv, vars, history, session, handler, client, Serial, FlagsInv, SizesInv, AllRead,
     Handling, Telling, Knows, Sizing, Follows
<1>5. CASE HistoryNext
  <2> SUFFICES ASSUME ~overlap' PROVE Serial' /\ FlagsInv' /\ SizesInv'
    BY <1>2, <1>3 DEF SerialInv
  <2>1. ~overlap /\ ~Overlapping' /\ RecordHistory
    BY <1>5 DEF HistoryNext, RecordHistory
  <2>2. Serial /\ FlagsInv /\ SizesInv
    BY <2>1 DEF SerialInv
  <2>3. Serial'
    BY <2>1 DEF Overlapping, Busy, Pending, Serial, Handling
  <2>4. ASSUME NEW c \in Conns, HandlerStep(c) PROVE FlagsInv' /\ SizesInv'
    BY <1>1, <1>2, <2>1, <2>2, <2>3, <2>4, FlagsHandled, SizesHandled DEF HistoryTypeOK
  <2>5. CASE (\E c \in Conns : Input(c) \/ Subscribe(c) \/ Unsubscribe(c) \/ HangUp(c)) \/ UNCHANGED vars
    <3>1. UNCHANGED <<sizeOwner, dims, winsize, handler>>
      BY <2>5 DEF Input, Subscribe, Unsubscribe, HangUp, vars, session
    <3>2. inherited' = inherited \/ \E e \in Conns : sizeOwner = e /\ pc[e] = "ownsSize"
      BY <1>1, <2>1, <3>1 DEF RecordHistory, HandsOver, handler, HistoryTypeOK
    <3>3. FlagsInv'
      BY <1>1, <2>2, <2>5, FlagsUnhandled
    <3>4. SizesInv'
      BY <2>2, <3>1, <3>2, SizesUnhandled
    <3> QED
      BY <2>3, <3>3, <3>4
  <2> QED
    BY <1>5, <2>3, <2>4, <2>5 DEF HistoryNext, Next, AllGone
<1> QED
  BY <1>4, <1>5

\* The invariant behind the two properties of serial requests.
THEOREM SerialCorrect == HistorySpec => []SerialInv
<1>1. HistoryInit => SerialInv
  <2> SUFFICES ASSUME HistoryInit PROVE SerialInv
    OBVIOUS
  <2>1. HistoryTypeOK
    BY TypesAtFirst
  <2>2. Attached
    BY SizeOwnershipAssumption DEF SizeOwnershipAssumption, HistoryInit, Init, Attached
  <2>3. Serial
    BY DEF HistoryInit, Init, Serial, Handling
  <2>4. FlagsInv
    BY DEF HistoryInit, Init, FlagsInv, Telling, Knows
  <2>5. SizesInv
    BY DEF HistoryInit, Init, SizesInv, Sizing, Follows, Handling
  <2> QED
    BY <2>1, <2>2, <2>3, <2>4, <2>5 DEF SerialInv
<1> QED
  BY <1>1, SerialStep, PTL DEF HistorySpec

\* Requests handled one at a time leave every watcher informed of the owner.
THEOREM SerialFlagsAgree == HistorySpec => []FlagsAgreeWhenSerial
<1>1. SerialInv => FlagsAgreeWhenSerial
  <2> SUFFICES ASSUME SerialInv, Quiet, ~overlap, sizeOwner # NoConn, NEW c \in subs, open[c]
               PROVE  told[c] = (c = sizeOwner)
    BY DEF FlagsAgreeWhenSerial, FlagsAgree
  <2>1. c \in Conns /\ stream[c] = "streaming" /\ told[c] \in BOOLEAN
    BY DEF SerialInv, HistoryTypeOK, TypeOK, Attached
  <2>2. AllRead
    BY DEF Quiet, Busy, AllRead, Handling
  <2> QED
    BY <2>1, <2>2 DEF SerialInv, FlagsInv, Knows
<1> QED
  BY <1>1, SerialCorrect, PTL

\* Requests handled one at a time leave the PTY with the size its owner asked for.
THEOREM SerialSizeFollows == HistorySpec => []SizeFollowsOwnerWhenSerial
<1>1. SerialInv => SizeFollowsOwnerWhenSerial
  <2> SUFFICES ASSUME SerialInv, Quiet, ~overlap, ~inherited, NEW c \in Conns, sizeOwner = c,
                      remembered[c] # NoSize
               PROVE  dims = remembered[c] /\ winsize = dims
    BY DEF SizeFollowsOwnerWhenSerial
  <2>1. AllRead
    BY DEF Quiet, Busy, AllRead, Handling
  <2> QED
    BY <2>1 DEF SerialInv, SizesInv, Follows
<1> QED
  BY <1>1, SerialCorrect, PTL

--------------------------------------------------------------------------------
(* The browser client: the invariant of page, queues and daemon.                *)

\* A WebSocket not open yet: nothing was sent on it, and the daemon knows nothing
\* of it. The handler of an open one has nothing to clean up.
Unopened(c) == ws[c] \in {"unused", "connecting"}

Blank ==
    \A c \in Sockets :
        /\ Unopened(c) => /\ up[c] = <<>> /\ c \notin serving
                          /\ attached[c] = Nobody /\ job[c] = Idle
        /\ ws[c] # "closed" => cleanups[c] = {}

\* The page has let go of every WebSocket but the two it uses.
InUse ==
    /\ entryWS # sessWS
    /\ \A c \in Sockets : ws[c] \in {"connecting", "open"} => c \in {entryWS, sessWS}
    /\ ws[entryWS] # "unused" /\ (sessWS # Nobody => ws[sessWS] # "unused")
    /\ ws[Shown] = "closed" => banner

\* What the page knows of exists, or existed.
Known ==
    /\ listed \cap ids = {} /\ sessId \notin ids
    /\ \A c \in Sockets :
         /\ job[c].do = "start" => job[c].id \notin ids
         /\ \A i \in DOMAIN down[c] :
              /\ down[c][i].type = "session_list" => down[c][i].ids \cap ids = {}
              /\ down[c][i].type = "created" => down[c][i].id \notin ids

\* How far a stream goroutine got depends on the session it is of.
Streams ==
    \A c \in Sockets :
        /\ streams[c] = "none" <=> attached[c] = Nobody
        /\ streams[c] = "live" => attached[c] \notin over
        /\ streams[c] \in {"drained", "returned"} /\ ws[c] = "open" => attached[c] \in over

\* The session shown, on an open connection.
Showing == screen = "session" /\ ws[sessWS] = "open"

AttachComes == up[sessWS] # <<>> /\ up[sessWS][1].type = "attach"

Sends(type) == \E i \in DOMAIN up[sessWS] : up[sessWS][i].type = type

Comes(type) == \E i \in DOMAIN down[sessWS] : down[sessWS][i].type = type

\* The page says on a session's WebSocket what it has to say of that session, the
\* attach first, and the handler deals with that session only.
OfSession ==
    Showing =>
        /\ \A i \in DOMAIN up[sessWS] :
            /\ up[sessWS][i].type \in {"attach", "resize", "take", "release"}
            /\ up[sessWS][i].id = sessId
            /\ up[sessWS][i].type = "attach" <=> i = 1 /\ up[sessWS][1].type = "attach"
        /\ job[sessWS] = Idle \/ job[sessWS].id = sessId
        /\ attached[sessWS] \in {sessId, Nobody}
        /\ sessId \in sessions => AttachComes \/ attached[sessWS] = sessId

\* The end of a session that was subscribed to is on its way.
EndIsTold ==
    Showing /\ streams[sessWS] = "drained" => sessWS \in owed \/ Comes("ended")

\* The last the daemon will hear of the mode is a take-over.
WillTake ==
    \E i \in DOMAIN up[sessWS] :
        up[sessWS][i].type = "take" /\ \A j \in i + 1 .. Len(up[sessWS]) : up[sessWS][j].type # "release"

BeingGreeted == job[sessWS].do = "greet"

\* A page that renders did not let go of the size, unless it takes it again; it asks
\* for it when it attaches.
AsksForSize ==
    Showing /\ ~isController =>
        WillTake \/ (~Sends("release") /\ (AttachComes \/ BeingGreeted => Sends("resize")))

\* A handler about to park the page, unless it finds that the page has the size by
\* then, or is not subscribed yet.
WillPark(j) ==
    /\ j.id = sessId
    /\ \/ j.do = "look"
       \/ j.do = "gather" /\ j.owner # sessWS
       \/ j.do = "write" /\ j.owner # sessWS /\ sessWS \in j.to

\* The page will be parked, or owns the size, or has a resize on its way that finds it
\* free, or is being greeted.
Accounted ==
    \/ Comes("parked") \/ \E a \in Handlers : WillPark(job[a])
    \/ BeingGreeted
    \/ owner[sessId] = sessWS
    \/ owner[sessId] = Nobody /\ (Sends("resize") \/ job[sessWS].do = "claim")

\* A page that renders will say so, or has; and then it is known what comes of it.
Renders ==
    Showing /\ ~isController /\ sessId \in sessions \ over /\ sessWS \notin missed =>
        WillTake \/ AttachComes \/ Accounted

WebInv ==
    /\ WebTypeOK /\ Blank /\ InUse /\ Known /\ Streams
    /\ OfSession /\ EndIsTold /\ AsksForSize /\ Renders

--------------------------------------------------------------------------------
LEMMA FrameShape ==
    /\ \A f \in Frames : /\ f.type = "session_list" => f.ids \in SUBSET Sids
                         /\ f.type \in {"created", "active", "parked", "ended"} => f.id \in Sids
    /\ \A ss \in SUBSET Sids : [type |-> "session_list", ids |-> ss] \in Frames
    /\ [type |-> "error"] \in Frames
    /\ \A s \in Sids : /\ [type |-> "created", id |-> s] \in Frames
                       /\ [type |-> "active", id |-> s] \in Frames
                       /\ [type |-> "parked", id |-> s] \in Frames
                       /\ [type |-> "ended", id |-> s] \in Frames
BY DEF Frames

LEMMA RequestShape ==
    /\ \A r \in Requests : r.type \in {"kill", "attach", "resize", "take", "release"} => r.id \in Sids
    /\ [type |-> "list"] \in Requests /\ [type |-> "new"] \in Requests
    /\ \A s \in Sids : /\ [type |-> "kill", id |-> s] \in Requests
                       /\ [type |-> "attach", id |-> s] \in Requests
                       /\ [type |-> "resize", id |-> s] \in Requests
                       /\ [type |-> "take", id |-> s] \in Requests
                       /\ [type |-> "release", id |-> s] \in Requests
BY DEF Requests

LEMMA Queues ==
    ASSUME NEW S
    PROVE  /\ <<>> \in Seq(S) /\ DOMAIN <<>> = {}
           /\ \A x \in S : <<x>> \in Seq(S) /\ DOMAIN <<x>> = {1} /\ <<x>>[1] = x /\ <<x>> # <<>>
           /\ \A x, y \in S : /\ <<x, y>> \in Seq(S) /\ DOMAIN <<x, y>> = {1, 2}
                              /\ <<x, y>>[1] = x /\ <<x, y>>[2] = y /\ <<x, y>> # <<>>
<1>1. <<>> \in Seq(S) /\ DOMAIN <<>> = {}
  OBVIOUS
<1>2. \A x \in S : <<x>> \in Seq(S) /\ DOMAIN <<x>> = {1} /\ <<x>>[1] = x /\ <<x>> # <<>>
  OBVIOUS
<1>3. \A x, y \in S : <<x, y>> \in Seq(S) /\ DOMAIN <<x, y>> = {1, 2}
  OBVIOUS
<1>4. \A x, y \in S : <<x, y>>[1] = x /\ <<x, y>>[2] = y /\ <<x, y>> # <<>>
  OBVIOUS
<1> QED
  BY <1>1, <1>2, <1>3, <1>4

LEMMA QueueGrows ==
    ASSUME NEW S, NEW q \in Seq(S), NEW x \in S
    PROVE  /\ Append(q, x) \in Seq(S) /\ DOMAIN Append(q, x) = 1 .. Len(q) + 1
           /\ \A i \in DOMAIN q : i \in DOMAIN Append(q, x) /\ Append(q, x)[i] = q[i]
           /\ Append(q, x)[Len(q) + 1] = x /\ Len(q) + 1 \in DOMAIN Append(q, x)
           /\ \A i \in DOMAIN Append(q, x) : i \in DOMAIN q \/ i = Len(q) + 1
OBVIOUS

LEMMA QueueShrinks ==
    ASSUME NEW S, NEW q \in Seq(S), q # <<>>
    PROVE  /\ Tail(q) \in Seq(S) /\ Head(q) = q[1] /\ 1 \in DOMAIN q /\ Head(q) \in S
           /\ Len(Tail(q)) = Len(q) - 1 /\ Len(q) \in Nat /\ DOMAIN q = 1 .. Len(q)
           /\ \A i \in DOMAIN Tail(q) : i \in Nat /\ i + 1 \in DOMAIN q /\ Tail(q)[i] = q[i + 1] /\ i + 1 # 1
           /\ \A i \in DOMAIN q : i = 1 \/ (i - 1 \in DOMAIN Tail(q) /\ Tail(q)[i - 1] = q[i])
OBVIOUS

\* What the daemon adds to the queues of the page: frames that name nothing which is
\* not there yet.
Named(f, unborn) ==
    /\ f.type = "session_list" => f.ids \cap unborn = {}
    /\ f.type = "created" => f.id \notin unborn

Grows ==
    /\ down' \in [Sockets -> Seq(Frames)]
    /\ \A c \in Sockets :
         \/ down'[c] = down[c]
         \/ \E f \in Frames : Named(f, ids') /\ down'[c] = Append(down[c], f)

LEMMA Delivered ==
    ASSUME WebTypeOK, NEW c \in Sockets, NEW f \in Frames, Named(f, ids'), Deliver(c, f)
    PROVE  Grows /\ (ws[c] = "open" => \E i \in DOMAIN down'[c] : down'[c][i].type = f.type)
<1>1. \A x \in Sockets : down[x] \in Seq(Frames)
  BY DEF WebTypeOK
<1>2. Append(down[c], f) \in Seq(Frames)
  BY <1>1, QueueGrows
<1>3. down' = IF ws[c] = "open" THEN [down EXCEPT ![c] = Append(@, f)] ELSE down
  BY DEF Deliver
<1>4. Grows
  BY <1>1, <1>2, <1>3 DEF Grows, WebTypeOK
<1>5. ASSUME ws[c] = "open" PROVE \E i \in DOMAIN down'[c] : down'[c][i].type = f.type
  <2>1. down'[c] = Append(down[c], f)
    BY <1>3, <1>5 DEF WebTypeOK
  <2> QED
    BY <1>1, <2>1, QueueGrows
<1> QED
  BY <1>4, <1>5

LEMMA JobShape ==
    /\ Idle \in Jobs /\ Idle.do = "idle" /\ Idle.id = Nobody /\ Idle.owner = Nobody /\ Idle.to = {}
    /\ \A s \in Sids : \A do \in {"start", "forget", "greet", "claim", "look", "gather"} :
          /\ Job(do, s) \in Jobs /\ Job(do, s).do = do /\ Job(do, s).id = s
          /\ \A o \in Owners : LET j == [Job(do, s) EXCEPT !.owner = o]
                              IN  j \in Jobs /\ j.do = do /\ j.id = s /\ j.owner = o
    /\ \A s \in Sids, o \in Owners, to \in SUBSET Sockets :
          /\ Writes(s, o, to) \in Jobs
          /\ to = {} => Writes(s, o, to) = Idle
          /\ to # {} => LET j == Writes(s, o, to)
                        IN  j.do = "write" /\ j.id = s /\ j.owner = o /\ j.to = to
BY DEF Jobs, Idle, Job, Writes, Owners

\* The queues from the page when a request of c's was taken.
LEMMA Taken ==
    ASSUME WebTypeOK, NEW c \in Sockets, NEW type, Request(c, type), Served(c)
    PROVE  /\ up' \in [Sockets -> Seq(Requests)] /\ up'[c] = Tail(up[c])
           /\ \A x \in Sockets \ {c} : up'[x] = up[x]
           /\ up[c] \in Seq(Requests) /\ up[c] # <<>> /\ c \in serving /\ job[c] = Idle
           /\ Head(up[c]) \in Requests /\ Head(up[c]).type = type
           /\ type \in {"kill", "attach", "resize", "take", "release"} => Head(up[c]).id \in Sids
<1>1. up[c] \in Seq(Requests) /\ up[c] # <<>>
  BY DEF WebTypeOK, Request
<1>2. Tail(up[c]) \in Seq(Requests) /\ Head(up[c]) \in Requests
  BY <1>1, QueueShrinks
<1> QED
  BY <1>1, <1>2, RequestShape DEF WebTypeOK, Request, Served

--------------------------------------------------------------------------------
(* Types.                                                                       *)

LEMMA DeliveredTypes ==
    ASSUME WebTypeOK, NEW c \in Sockets, NEW f \in Frames, Deliver(c, f)
    PROVE  down' \in [Sockets -> Seq(Frames)]
<1>1. down \in [Sockets -> Seq(Frames)] /\ Append(down[c], f) \in Seq(Frames)
  BY QueueGrows DEF WebTypeOK
<1> QED
  BY <1>1 DEF Deliver

LEMMA TurnsTyped ==
    ASSUME WebTypeOK, NEW a \in Handlers, NEW j \in Jobs, TurnsTo(a, j)
    PROVE  job' \in [Handlers -> Jobs]
BY DEF WebTypeOK, TurnsTo


\* Somebody inherits whom the daemon knows.
LEMMA HeirsAreKnown ==
    ASSUME WebTypeOK, NEW s \in Sids, NEW left
    PROVE  HeirsOf(s, left) \subseteq Owners
<1> DEFINE others == (Watchers(s) \cup (IF s = deskAt THEN {Desk} ELSE {})) \ {left}
<1>1. others \subseteq Owners /\ owner[s] \in Owners /\ Nobody \in Owners
  BY DEF Watchers, WebTypeOK, Owners, Handlers
<1>2. CASE owner[s] \notin {left, Nobody}
  BY <1>1, <1>2 DEF HeirsOf
<1>3. CASE owner[s] \in {left, Nobody} /\ others = {}
  <2>1. HeirsOf(s, left) = {Nobody}
    BY <1>3 DEF HeirsOf
  <2> QED
    BY <1>1, <2>1
<1>4. CASE owner[s] \in {left, Nobody} /\ others # {}
  <2>1. HeirsOf(s, left) = others
    BY <1>4 DEF HeirsOf
  <2> QED
    BY <1>1, <2>1
<1> QED
  BY <1>2, <1>3, <1>4

\* A request leaves the types.
LEMMA RequestTypes ==
    ASSUME WebTypeOK, NEW c \in Sockets,
           \/ ServeList(c) \/ ServeNew(c) \/ ServeKill(c) \/ ServeAttach(c)
           \/ ServeResize(c) \/ ServeTake(c) \/ ServeRelease(c)
    PROVE  WebTypeOK'
<1> USE DEF DaemonOnly, page, registry, desk, feeds, jobs
<1>0. c \in Handlers /\ Nobody \notin Sids /\ c \in Owners /\ owner \in [Sids -> Owners]
  BY WebClientAssumption DEF Handlers, Owners, WebTypeOK
<1>1. CASE ServeList(c)
  <2>1. [type |-> "session_list", ids |-> sessions] \in Frames
    BY FrameShape DEF WebTypeOK
  <2>2. down' \in [Sockets -> Seq(Frames)]
    BY <1>1, <2>1, DeliveredTypes DEF ServeList
  <2>3. up' \in [Sockets -> Seq(Requests)]
    BY <1>1, Taken DEF ServeList
  <2> QED
    BY <1>1, <2>2, <2>3 DEF ServeList, WebTypeOK
<1>2. CASE ServeNew(c)
  <2>1. PICK s \in ids : ids' = ids \ {s} /\ sessions' = sessions \cup {s} /\ TurnsTo(c, Job("start", s))
    BY <1>2 DEF ServeNew
  <2>2. s \in Sids /\ sessions \in SUBSET Sids /\ ids \in SUBSET Sids /\ sessions \cap ids = {}
    BY DEF WebTypeOK
  <2>3. job' \in [Handlers -> Jobs]
    BY <1>0, <2>1, <2>2, TurnsTyped, JobShape
  <2>4. up' \in [Sockets -> Seq(Requests)]
    BY <1>2, Taken DEF ServeNew
  <2>5. sessions' \in SUBSET Sids /\ ids' \in SUBSET Sids /\ sessions' \cap ids' = {}
    BY <2>1, <2>2
  <2> QED
    BY <1>2, <2>3, <2>4, <2>5 DEF ServeNew, WebTypeOK
<1>3. CASE ServeKill(c)
  <2>1. Head(up[c]).id \in Sids /\ up' \in [Sockets -> Seq(Requests)]
    BY <1>3, Taken DEF ServeKill
  <2>2. job' \in [Handlers -> Jobs] /\ killed' \in SUBSET Sids
    <3>1. CASE Head(up[c]).id \in sessions
      BY <1>0, <1>3, <2>1, <3>1, TurnsTyped, JobShape DEF ServeKill, WebTypeOK
    <3>2. CASE Head(up[c]).id \notin sessions
      BY <1>3, <3>2 DEF ServeKill, WebTypeOK
    <3> QED
      BY <3>1, <3>2
  <2> QED
    BY <1>3, <2>1, <2>2 DEF ServeKill, WebTypeOK
<1>4. CASE ServeAttach(c)
  <2>1. Head(up[c]).id \in Sids /\ up' \in [Sockets -> Seq(Requests)]
    BY <1>4, Taken DEF ServeAttach
  <2>2. CASE Head(up[c]).id \in sessions
    <3>1. job' \in [Handlers -> Jobs] /\ down' = down
      BY <1>0, <1>4, <2>1, <2>2, TurnsTyped, JobShape DEF ServeAttach
    <3>2. attached' \in [Sockets -> Sids \cup {Nobody}]
      BY <1>4, <2>1, <2>2 DEF ServeAttach, WebTypeOK
    <3>3. streams' \in [Sockets -> {"none", "starting", "live", "drained", "returned"}]
      BY <1>4, <2>2 DEF ServeAttach, WebTypeOK
    <3>4. owed' \subseteq {x \in Sockets : attached'[x] # Nobody}
      BY <1>0, <1>4, <2>1, <2>2 DEF ServeAttach, WebTypeOK
    <3> QED
      BY <1>4, <2>1, <3>1, <3>2, <3>3, <3>4 DEF ServeAttach, WebTypeOK
  <2>3. CASE Head(up[c]).id \notin sessions
    <3>1. down' \in [Sockets -> Seq(Frames)]
      BY <1>4, <2>3, FrameShape, DeliveredTypes DEF ServeAttach
    <3> QED
      BY <1>4, <2>1, <2>3, <3>1 DEF ServeAttach, WebTypeOK
  <2> QED
    BY <2>2, <2>3
<1>5. CASE ServeResize(c)
  <2>1. Head(up[c]).id \in Sids /\ up' \in [Sockets -> Seq(Requests)]
    BY <1>5, Taken DEF ServeResize
  <2>2. job' \in [Handlers -> Jobs]
    <3>1. CASE Head(up[c]).id \in sessions /\ owner[Head(up[c]).id] # c
      BY <1>0, <1>5, <2>1, <3>1, TurnsTyped, JobShape DEF ServeResize
    <3>2. CASE ~(Head(up[c]).id \in sessions /\ owner[Head(up[c]).id] # c)
      BY <1>5, <3>2 DEF ServeResize, WebTypeOK
    <3> QED
      BY <3>1, <3>2
  <2> QED
    BY <1>5, <2>1, <2>2 DEF ServeResize, WebTypeOK
<1>6. CASE ServeTake(c)
  <2>1. Head(up[c]).id \in Sids /\ up' \in [Sockets -> Seq(Requests)]
    BY <1>6, Taken DEF ServeTake
  <2>2. job' \in [Handlers -> Jobs] /\ owner' \in [Sids -> Owners]
    <3>1. CASE Head(up[c]).id \in sessions
      <4>1. TurnsTo(c, Job("look", Head(up[c]).id)) /\ owner' = [owner EXCEPT ![Head(up[c]).id] = c]
        BY <1>6, <3>1 DEF ServeTake
      <4>2. job' \in [Handlers -> Jobs]
        BY <1>0, <2>1, <4>1, TurnsTyped, JobShape
      <4> QED
        BY <1>0, <2>1, <4>1, <4>2
    <3>2. CASE Head(up[c]).id \notin sessions
      BY <1>6, <3>2 DEF ServeTake, WebTypeOK
    <3> QED
      BY <3>1, <3>2
  <2> QED
    BY <1>6, <2>1, <2>2 DEF ServeTake, WebTypeOK
<1>7. CASE ServeRelease(c)
  <2>1. Head(up[c]).id \in Sids /\ up' \in [Sockets -> Seq(Requests)]
    BY <1>7, Taken DEF ServeRelease
  <2>2. job' \in [Handlers -> Jobs] /\ owner' \in [Sids -> Owners]
    <3>1. CASE Head(up[c]).id \in sessions
      <4>1. job' \in [Handlers -> Jobs]
        BY <1>0, <1>7, <2>1, <3>1, TurnsTyped, JobShape DEF ServeRelease
      <4>2. \E o \in Owners : owner' = [owner EXCEPT ![Head(up[c]).id] = o]
        BY <1>7, <2>1, <3>1, HeirsAreKnown DEF ServeRelease
      <4> QED
        BY <1>0, <2>1, <4>1, <4>2
    <3>2. CASE Head(up[c]).id \notin sessions
      BY <1>7, <3>2 DEF ServeRelease, WebTypeOK
    <3> QED
      BY <3>1, <3>2
  <2> QED
    BY <1>7, <2>1, <2>2 DEF ServeRelease, WebTypeOK
<1> QED
  BY <1>1, <1>2, <1>3, <1>4, <1>5, <1>6, <1>7

\* So does what a handler does next.
LEMMA HandlerTypes ==
    ASSUME WebTypeOK, NEW a \in Handlers,
           \/ a \in Sockets /\ (Start(a) \/ Forget(a) \/ Greet(a) \/ Claim(a))
           \/ LookUpOwner(a) \/ LookUpSubs(a) \/ WriteFlag(a) \/ CleanUp(a)
    PROVE  WebTypeOK'
<1> USE DEF DaemonOnly, page, registry, desk, feeds, jobs, Step
<1>0. /\ Nobody \notin Sids /\ a \in Owners /\ Nobody \in Owners /\ owner \in [Sids -> Owners]
      /\ job \in [Handlers -> Jobs] /\ job[a] \in Jobs
      /\ sessions \in SUBSET Sids /\ missed \in SUBSET Sockets
      /\ cleanups \in [Handlers -> SUBSET Sids]
  BY WebClientAssumption DEF Handlers, Owners, WebTypeOK
<1>0a. job[a].do # "idle" => /\ job[a].owner \in Owners
                             /\ job[a].id \in Sids /\ job[a].to \in SUBSET Sockets
  BY <1>0, JobShape DEF Jobs
<1>1. CASE a \in Sockets /\ Start(a)
  <2>1. job' \in [Handlers -> Jobs]
    BY <1>1, TurnsTyped, JobShape DEF Start
  <2>2. down' \in [Sockets -> Seq(Frames)] /\ sessions' \in SUBSET Sids /\ sessions' \subseteq sessions
    <3>1. CASE Deliver(a, [type |-> "created", id |-> job[a].id]) /\ UNCHANGED sessions
      <4>1. [type |-> "created", id |-> job[a].id] \in Frames
        BY <1>0a, <1>1, FrameShape DEF Start
      <4> QED
        BY <1>0, <1>1, <3>1, <4>1, DeliveredTypes
    <3>2. CASE Deliver(a, [type |-> "error"]) /\ sessions' = sessions \ {job[a].id}
      BY <1>0, <1>1, <3>2, FrameShape, DeliveredTypes
    <3> QED
      BY <1>1, <3>1, <3>2 DEF Start
  <2> QED
    BY <1>1, <2>1, <2>2 DEF Start, WebTypeOK
<1>2. CASE a \in Sockets /\ Forget(a)
  <2>1. job' \in [Handlers -> Jobs]
    BY <1>2, TurnsTyped, JobShape DEF Forget
  <2> QED
    BY <1>2, <2>1 DEF Forget, WebTypeOK
<1>3. CASE a \in Sockets /\ Greet(a)
  <2>1. job[a].id \in Sids /\ owner[job[a].id] \in Owners
    BY <1>0, <1>0a, <1>3 DEF Greet
  <2>2. \E to \in SUBSET Sockets : TurnsTo(a, Writes(job[a].id, owner[job[a].id], to))
    BY <1>3 DEF Greet
  <2>3. job' \in [Handlers -> Jobs]
    BY <2>1, <2>2, TurnsTyped, JobShape
  <2> QED
    BY <1>3, <2>3 DEF Greet, WebTypeOK
<1>4. CASE a \in Sockets /\ Claim(a)
  <2>1. job[a].id \in Sids
    BY <1>0a, <1>4 DEF Claim
  <2>2. \E j \in {Job("look", job[a].id), Idle} : TurnsTo(a, j)
    BY <1>4 DEF Claim
  <2>3. job' \in [Handlers -> Jobs]
    BY <2>1, <2>2, TurnsTyped, JobShape
  <2>4. owner' \in [Sids -> Owners]
    BY <1>0, <1>4, <2>1 DEF Claim
  <2> QED
    BY <1>4, <2>3, <2>4 DEF Claim, WebTypeOK
<1>5. CASE LookUpOwner(a)
  <2>1. job[a].id \in Sids /\ owner[job[a].id] \in Owners
    BY <1>0, <1>0a, <1>5 DEF LookUpOwner
  <2>2. TurnsTo(a, [Job("gather", job[a].id) EXCEPT !.owner = owner[job[a].id]])
    BY <1>5 DEF LookUpOwner
  <2>3. [Job("gather", job[a].id) EXCEPT !.owner = owner[job[a].id]] \in Jobs
    BY <2>1, JobShape
  <2>4. job' \in [Handlers -> Jobs]
    BY <2>2, <2>3, TurnsTyped
  <2> QED
    BY <1>5, <2>4 DEF LookUpOwner, WebTypeOK
<1>6. CASE LookUpSubs(a)
  <2>1. job[a].id \in Sids /\ job[a].owner \in Owners /\ Listeners(job[a].id) \in SUBSET Sockets
    BY <1>0a, <1>6 DEF LookUpSubs, Listeners, Watchers
  <2>2. TurnsTo(a, Writes(job[a].id, job[a].owner, Listeners(job[a].id)))
    BY <1>6 DEF LookUpSubs
  <2>3. job' \in [Handlers -> Jobs]
    BY <2>1, <2>2, TurnsTyped, JobShape
  <2>4. missed' \in SUBSET Sockets
    BY <1>0, <1>6 DEF LookUpSubs, Newcomers
  <2> QED
    BY <1>6, <2>3, <2>4 DEF LookUpSubs, WebTypeOK
<1>7. CASE WriteFlag(a)
  <2>1. job[a].id \in Sids /\ job[a].owner \in Owners /\ job[a].to \in SUBSET Sockets
    BY <1>0a, <1>7 DEF WriteFlag
  <2>2. PICK c \in job[a].to :
          /\ Deliver(c, [type |-> IF c = job[a].owner THEN "active" ELSE "parked", id |-> job[a].id])
          /\ TurnsTo(a, Writes(job[a].id, job[a].owner, job[a].to \ {c}))
    BY <1>7 DEF WriteFlag
  <2>3. job' \in [Handlers -> Jobs]
    BY <2>1, <2>2, TurnsTyped, JobShape
  <2>4. [type |-> IF c = job[a].owner THEN "active" ELSE "parked", id |-> job[a].id] \in Frames
    BY <2>1, FrameShape
  <2>5. down' \in [Sockets -> Seq(Frames)]
    BY <2>1, <2>2, <2>4, DeliveredTypes
  <2> QED
    BY <1>7, <2>3, <2>5 DEF WriteFlag, WebTypeOK
<1>8. CASE CleanUp(a)
  <2>1. PICK s \in cleanups[a] :
          /\ cleanups' = [cleanups EXCEPT ![a] = @ \ {s}]
          /\ \E o \in HeirsOf(s, a) : owner' = [owner EXCEPT ![s] = o]
          /\ TurnsTo(a, Job("look", s))
    BY <1>8 DEF CleanUp
  <2>2. s \in Sids
    BY <1>0
  <2>3. job' \in [Handlers -> Jobs]
    BY <2>1, <2>2, TurnsTyped, JobShape
  <2>4. \E o \in Owners : owner' = [owner EXCEPT ![s] = o]
    BY <2>1, <2>2, HeirsAreKnown
  <2>5. owner' \in [Sids -> Owners] /\ cleanups' \in [Handlers -> SUBSET Sids]
    BY <1>0, <2>1, <2>2, <2>4
  <2> QED
    BY <1>8, <2>3, <2>5 DEF CleanUp, WebTypeOK
<1> QED
  BY <1>1, <1>2, <1>3, <1>4, <1>5, <1>6, <1>7, <1>8

\* And what happens outside of the handlers.
LEMMA ApartTypes ==
    ASSUME WebTypeOK,
           \/ \E c \in Sockets : Dropped(c) \/ Subscribes(c) \/ Unsubscribes(c) \/ Notice(c)
           \/ \E s \in Sids : SessionEnds(s) \/ Unregister(s) \/ DeskTakes(s) \/ DeskSubscribes(s)
           \/ DeskLeaves \/ DeskUnsubscribes
    PROVE  WebTypeOK'
<1> USE DEF GoroutineOnly, DeskMoves, page, registry, desk, feeds, jobs, queues
<1>0. /\ Desk \in Handlers /\ Desk \in Owners /\ owner \in [Sids -> Owners]
      /\ events \in 0 .. MaxEvents /\ MaxEvents \in Nat
      /\ sessions \in SUBSET Sids /\ cleanups \in [Handlers -> SUBSET Sids]
      /\ attached \in [Sockets -> Sids \cup {Nobody}]
      /\ streams \in [Sockets -> {"none", "starting", "live", "drained", "returned"}]
  BY WebClientAssumption DEF Handlers, Owners, WebTypeOK
<1>1. ASSUME Happens PROVE events' \in 0 .. MaxEvents
  BY <1>0, <1>1 DEF Happens
<1>2. ASSUME NEW c \in Sockets, Dropped(c) PROVE WebTypeOK'
  <2>1. cleanups' \in [Handlers -> SUBSET Sids] /\ serving' \subseteq serving
    BY <1>0, <1>2 DEF Dropped
  <2> QED
    BY <1>2, <2>1 DEF Dropped, WebTypeOK
<1>3. ASSUME NEW c \in Sockets, Subscribes(c) \/ Unsubscribes(c) PROVE WebTypeOK'
  <2>1. streams' \in [Sockets -> {"none", "starting", "live", "drained", "returned"}]
    BY <1>0, <1>3 DEF Subscribes, Unsubscribes
  <2> QED
    BY <1>3, <2>1 DEF Subscribes, Unsubscribes, WebTypeOK
<1>4. ASSUME NEW c \in Sockets, Notice(c) PROVE WebTypeOK'
  <2>1. CASE attached[c] \in Sids
    <3>1. [type |-> "ended", id |-> attached[c]] \in Frames
      BY <2>1, FrameShape
    <3>2. down' \in [Sockets -> Seq(Frames)]
      BY <1>4, <3>1, DeliveredTypes DEF Notice
    <3> QED
      BY <1>4, <3>2 DEF Notice, WebTypeOK
  <2> QED
    BY <1>0, <1>4, <2>1 DEF Notice, WebTypeOK
<1>5. ASSUME NEW s \in Sids, SessionEnds(s) PROVE WebTypeOK'
  <2>1. streams' \in [Sockets -> {"none", "starting", "live", "drained", "returned"}]
    BY <1>0, <1>5 DEF SessionEnds
  <2>2. owed' \subseteq {c \in Sockets : attached'[c] # Nobody}
    BY <1>0, <1>5, WebClientAssumption DEF SessionEnds, Listeners, Watchers, WebTypeOK
  <2>3. events' \in 0 .. MaxEvents
    BY <1>0, <1>1, <1>5 DEF SessionEnds
  <2> QED
    BY <1>5, <2>1, <2>2, <2>3 DEF SessionEnds, WebTypeOK
<1>6. ASSUME NEW s \in Sids, Unregister(s) PROVE WebTypeOK'
  BY <1>6 DEF Unregister, WebTypeOK
<1>7. ASSUME NEW s \in Sids, DeskTakes(s) PROVE WebTypeOK'
  <2>1. job' \in [Handlers -> Jobs]
    BY <1>0, <1>7, TurnsTyped, JobShape DEF DeskTakes
  <2>2. owner' \in [Sids -> Owners] /\ events' \in 0 .. MaxEvents
    BY <1>0, <1>1, <1>7 DEF DeskTakes
  <2> QED
    BY <1>7, <2>1, <2>2 DEF DeskTakes, WebTypeOK
<1>8. ASSUME NEW s \in Sids, DeskSubscribes(s) PROVE WebTypeOK'
  BY <1>8 DEF DeskSubscribes, WebTypeOK
<1>9. CASE DeskLeaves
  <2>1. cleanups' \in [Handlers -> SUBSET Sids] /\ events' \in 0 .. MaxEvents
    BY <1>0, <1>1, <1>9 DEF DeskLeaves
  <2> QED
    BY <1>9, <2>1 DEF DeskLeaves, WebTypeOK
<1>10. CASE DeskUnsubscribes
  BY <1>10 DEF DeskUnsubscribes, WebTypeOK
<1> QED
  BY <1>2, <1>3, <1>4, <1>5, <1>6, <1>7, <1>8, <1>9, <1>10

--------------------------------------------------------------------------------
(* What a step of the daemon does to the page, which does not move.             *)

PageRests == UNCHANGED <<page, entryWS, sessWS, ws>>

\* A request of c's is taken.
Takes(c) == c \in serving /\ up[c] # <<>> /\ up' = [up EXCEPT ![c] = Tail(@)]

\* Sessions, connections and handlers, as every step of the daemon leaves them.
Registers ==
    /\ ids' \subseteq ids /\ sessions' \subseteq sessions \cup (ids \ ids')
    /\ over \subseteq over' /\ missed \subseteq missed'
    /\ \A x \in Sockets :
         /\ Unopened(x) => x \notin serving' /\ attached'[x] = attached[x] /\ job'[x] = job[x]
         /\ ws[x] # "closed" => cleanups'[x] \subseteq cleanups[x]
         /\ job'[x].do = "start" => job'[x].id \notin ids'

\* A frame on its way to the page stays there.
LEMMA FramesStay ==
    ASSUME WebTypeOK, PageRests, Grows, Showing, NEW t, Comes(t)
    PROVE  Comes(t)'
<1> USE DEF PageRests
<1>1. sessWS \in Sockets /\ down[sessWS] \in Seq(Frames)
  BY DEF WebTypeOK, Showing
<1>2. CASE down'[sessWS] = down[sessWS]
  BY <1>2 DEF Comes
<1>3. ASSUME NEW f \in Frames, down'[sessWS] = Append(down[sessWS], f) PROVE Comes(t)'
  BY <1>1, <1>3, QueueGrows DEF Comes
<1> QED
  BY <1>1, <1>2, <1>3 DEF Grows

LEMMA DaemonKeepsMost ==
    ASSUME WebInv, PageRests, Grows, Registers,
           up' = up \/ \E c \in Sockets : Takes(c)
    PROVE  /\ Blank' /\ InUse' /\ Known'
           /\ Showing' <=> Showing
           /\ Showing => \A t : Comes(t) => Comes(t)'
           /\ Showing /\ sessId \in sessions' => sessId \in sessions
<1> USE DEF WebInv, PageRests, page
<1>1. /\ \A x \in Sockets : up[x] \in Seq(Requests) /\ down[x] \in Seq(Frames)
      /\ entryWS \in Sockets /\ (screen = "session" => sessWS \in Sockets)
      /\ up \in [Sockets -> Seq(Requests)]
  BY DEF WebTypeOK
<1>2. Blank'
  <2>1. ASSUME NEW x \in Sockets, Unopened(x)
        PROVE  up'[x] = <<>> /\ x \notin serving' /\ attached'[x] = Nobody /\ job'[x] = Idle
    <3>1. up[x] = <<>> /\ x \notin serving /\ attached[x] = Nobody /\ job[x] = Idle
      BY <2>1 DEF Blank
    <3>2. up'[x] = <<>>
      BY <1>1, <3>1 DEF Takes
    <3> QED
      BY <2>1, <3>1, <3>2 DEF Registers
  <2>2. ASSUME NEW x \in Sockets, ws[x] # "closed" PROVE cleanups'[x] = {}
    BY <2>2 DEF Blank, Registers
  <2> QED
    BY <2>1, <2>2 DEF Blank, Unopened
<1>3. InUse'
  BY DEF InUse, Shown
<1>4. Known'
  <2>1. listed' \cap ids' = {} /\ sessId' \notin ids'
    BY DEF Known, Registers
  <2>2. ASSUME NEW x \in Sockets, NEW i \in DOMAIN down'[x] PROVE Named(down'[x][i], ids')
    <3>1. ASSUME NEW j \in DOMAIN down[x] PROVE Named(down[x][j], ids')
      BY <3>1 DEF Known, Named, Registers
    <3>2. CASE down'[x] = down[x]
      BY <2>2, <3>1, <3>2
    <3>3. ASSUME NEW f \in Frames, Named(f, ids'), down'[x] = Append(down[x], f)
          PROVE  Named(down'[x][i], ids')
      BY <2>2, <3>1, <3>3, <1>1, QueueGrows
    <3> QED
      BY <3>2, <3>3 DEF Grows
  <2> QED
    BY <2>1, <2>2 DEF Known, Named, Registers
<1>5. Showing' <=> Showing
  BY DEF Showing
<1>6. ASSUME Showing, NEW t, Comes(t) PROVE Comes(t)'
  BY <1>6, FramesStay
<1>7. Showing /\ sessId \in sessions' => sessId \in sessions
  BY DEF Known, Registers
<1> QED
  BY <1>2, <1>3, <1>4, <1>5, <1>6, <1>7

\* What is on its way on the page's WebSocket stays there.
LEMMA Undisturbed ==
    ASSUME WebInv, WebTypeOK', Streams', PageRests, Grows, Registers,
           up' = up \/ \E c \in Sockets : Takes(c),
           Showing =>
             /\ up'[sessWS] = up[sessWS] /\ attached'[sessWS] = attached[sessWS]
             /\ \/ job'[sessWS] = job[sessWS]
                \/ job'[sessWS] = Idle
                \/ job'[sessWS].id = sessId /\ job'[sessWS].do # "greet"
             /\ streams'[sessWS] = "drained" =>
                  \/ Comes("ended")' \/ sessWS \in owed'
                  \/ streams[sessWS] = "drained" /\ sessWS \notin owed
             /\ /\ sessId \in sessions' \ over' /\ sessWS \notin missed'
                /\ ~isController /\ ~WillTake /\ ~AttachComes /\ Accounted
                => Accounted'
    PROVE  WebInv'
<1> USE DEF WebInv, PageRests, page
<1>1. /\ Blank' /\ InUse' /\ Known'
      /\ Showing' <=> Showing
      /\ Showing => \A t : Comes(t) => Comes(t)'
      /\ Showing /\ sessId \in sessions' => sessId \in sessions
  BY DaemonKeepsMost
<1>2. Showing => /\ WillTake' <=> WillTake
                 /\ AttachComes' <=> AttachComes
                 /\ \A t : Sends(t)' <=> Sends(t)
  BY DEF WillTake, AttachComes, Sends
<1>3. OfSession'
  <2>1. ASSUME Showing
        PROVE  \A i \in DOMAIN up'[sessWS] :
                   /\ up'[sessWS][i].type \in {"attach", "resize", "take", "release"}
                   /\ up'[sessWS][i].id = sessId
                   /\ up'[sessWS][i].type = "attach" <=> i = 1 /\ up'[sessWS][1].type = "attach"
    BY <2>1 DEF OfSession
  <2>2. ASSUME Showing PROVE job'[sessWS] = Idle \/ job'[sessWS].id = sessId
    BY <2>2 DEF OfSession
  <2>3. ASSUME Showing
        PROVE  /\ attached'[sessWS] \in {sessId, Nobody}
               /\ sessId \in sessions' => AttachComes' \/ attached'[sessWS] = sessId
    BY <1>1, <1>2, <2>3 DEF OfSession
  <2> QED
    BY <1>1, <2>1, <2>2, <2>3 DEF OfSession
<1>4. EndIsTold'
  BY <1>1 DEF EndIsTold
<1>5. Showing /\ BeingGreeted' => BeingGreeted
  BY JobShape DEF BeingGreeted
<1>6. AsksForSize'
  BY <1>1, <1>2, <1>5 DEF AsksForSize
<1>7. Renders'
  <2> SUFFICES ASSUME Showing, ~isController, sessId \in sessions' \ over', sessWS \notin missed',
                      ~WillTake, ~AttachComes
               PROVE  Accounted'
    BY <1>1, <1>2 DEF Renders
  <2>1. Accounted
    BY <1>1 DEF Renders, Registers
  <2> QED
    BY <2>1
<1> QED
  BY <1>1, <1>3, <1>4, <1>6, <1>7

\* A handler that goes on leaves the page as well accounted for as it was.
LEMMA HandlerAccounts ==
    ASSUME WebInv, PageRests, Grows, Showing,
           NEW a \in Handlers, NEW next \in Jobs, TurnsTo(a, next), up'[sessWS] = up[sessWS],
           owner'[sessId] = owner[sessId] \/ (next.do = "look" /\ next.id = sessId),
           a = sessWS => job[a].do \notin {"greet", "claim"},
           WillPark(job[a]) => WillPark(next) \/ owner[sessId] = sessWS \/ Comes("parked")',
           Accounted
    PROVE  Accounted'
<1> USE DEF PageRests, page
<1>1. sessWS \in Handlers /\ job \in [Handlers -> Jobs] /\ (Comes("parked") => Comes("parked")')
  BY FramesStay DEF WebInv, WebTypeOK, Showing, Handlers
<1>2. job'[a] = next /\ \A b \in Handlers \ {a} : job'[b] = job[b]
  BY <1>1 DEF TurnsTo
<1>3. WillPark(next) => \E b \in Handlers : WillPark(job[b])'
  BY <1>2 DEF WillPark
<1>4. owner'[sessId] # owner[sessId] => WillPark(next)
  BY DEF WillPark
<1>5. CASE Comes("parked")
  BY <1>1, <1>5 DEF Accounted
<1>6. CASE owner[sessId] = sessWS
  BY <1>3, <1>4, <1>6 DEF Accounted
<1>7. ASSUME NEW b \in Handlers, WillPark(job[b]) PROVE Accounted'
  <2>1. CASE b # a
    BY <1>2, <1>7, <2>1 DEF Accounted, WillPark
  <2>2. CASE b = a
    BY <1>3, <1>6, <1>7, <2>2 DEF Accounted
  <2> QED
    BY <2>1, <2>2
<1>8. CASE BeingGreeted
  BY <1>1, <1>2, <1>8 DEF Accounted, BeingGreeted
<1>9. CASE owner[sessId] = Nobody /\ (Sends("resize") \/ job[sessWS].do = "claim")
  <2>1. CASE owner'[sessId] # owner[sessId]
    BY <1>3, <1>4, <2>1 DEF Accounted
  <2>2. CASE owner'[sessId] = owner[sessId]
    BY <1>1, <1>2, <1>9, <2>2 DEF Accounted, Sends
  <2> QED
    BY <2>1, <2>2
<1> QED
  BY <1>5, <1>6, <1>7, <1>8, <1>9 DEF Accounted

\* The page's own request is taken.
LEMMA OwnTaken ==
    ASSUME WebInv, PageRests, Showing, NEW type, Request(sessWS, type), Served(sessWS)
    PROVE  /\ Takes(sessWS) /\ Head(up[sessWS]).id = sessId
           /\ type \in {"attach", "resize", "take", "release"}
           /\ AttachComes <=> type = "attach"
           /\ Sends(type) /\ ~AttachComes'
           /\ \A t : Sends(t)' => Sends(t)
           /\ \A t : Sends(t) /\ t # type => Sends(t)'
           /\ WillTake => WillTake' \/ (type = "take" /\ ~Sends("release")')
           /\ type # "attach" /\ sessId \in sessions => attached[sessWS] = sessId
<1> DEFINE q == up[sessWS]
<1> USE DEF WebInv, PageRests
<1>1. q \in Seq(Requests) /\ q # <<>> /\ Head(q).type = type /\ sessWS \in serving /\ screen = "session"
      /\ sessWS \in Sockets /\ up \in [Sockets -> Seq(Requests)]
  BY DEF Request, WebTypeOK, Showing
<1>2. up'[sessWS] = Tail(q) /\ Takes(sessWS) /\ sessWS' = sessWS
  BY <1>1 DEF Served, Takes
<1>3. /\ Head(q) = q[1] /\ 1 \in DOMAIN q /\ Len(Tail(q)) = Len(q) - 1
      /\ Len(q) \in Nat /\ DOMAIN q = 1 .. Len(q)
      /\ \A i \in DOMAIN Tail(q) : i \in Nat /\ i + 1 \in DOMAIN q /\ Tail(q)[i] = q[i + 1] /\ i + 1 # 1
      /\ \A i \in DOMAIN q : i = 1 \/ (i - 1 \in DOMAIN Tail(q) /\ Tail(q)[i - 1] = q[i])
  BY <1>1, QueueShrinks
<1>4. q[1].id = sessId /\ type \in {"attach", "resize", "take", "release"} /\ q[1].type = type
  BY <1>1, <1>3 DEF OfSession
<1>5. AttachComes <=> type = "attach"
  BY <1>1, <1>4 DEF AttachComes
<1>6. ~AttachComes'
  <2> SUFFICES ASSUME Tail(q) # <<>>, Tail(q)[1].type = "attach" PROVE FALSE
    BY <1>2 DEF AttachComes
  <2>1. 1 \in DOMAIN Tail(q)
    BY <1>1, <1>3, QueueShrinks
  <2>2. 1 + 1 \in DOMAIN q /\ q[1 + 1].type = "attach"
    BY <1>3, <2>1
  <2> QED
    BY <1>1, <2>2 DEF OfSession
<1>7. Sends(type) /\ \A t : Sends(t)' => Sends(t)
  BY <1>2, <1>3, <1>4 DEF Sends
<1>8. \A t : Sends(t) /\ t # type => Sends(t)'
  BY <1>2, <1>3, <1>4 DEF Sends
<1>9. ASSUME WillTake PROVE WillTake' \/ (type = "take" /\ ~Sends("release")')
  <2>1. PICK i \in DOMAIN q : q[i].type = "take" /\ \A j \in i + 1 .. Len(q) : q[j].type # "release"
    BY <1>9 DEF WillTake
  <2>2. \A j \in DOMAIN Tail(q) : i <= j => Tail(q)[j].type # "release"
    <3> SUFFICES ASSUME NEW j \in DOMAIN Tail(q), i <= j PROVE q[j + 1].type # "release"
      BY <1>3
    <3>1. j \in Nat /\ j + 1 \in 1 .. Len(q)
      BY <1>3
    <3>2. i \in Nat /\ j + 1 \in i + 1 .. Len(q)
      BY <1>3, <2>1, <3>1
    <3> QED
      BY <2>1, <3>2
  <2>3. CASE i = 1
    <3>1. \A j \in DOMAIN Tail(q) : 1 <= j
      BY <1>1
    <3> QED
      BY <1>2, <1>4, <2>1, <2>2, <2>3, <3>1 DEF Sends
  <2>4. CASE i # 1
    <3>1. i - 1 \in DOMAIN Tail(q) /\ Tail(q)[i - 1].type = "take" /\ (i - 1) + 1 = i
      BY <1>3, <2>1, <2>4
    <3>2. DOMAIN Tail(q) = 1 .. Len(q) - 1
      BY <1>1
    <3>3. \A j \in (i - 1) + 1 .. Len(Tail(q)) : j \in DOMAIN Tail(q) /\ i <= j
      BY <1>3, <2>1, <3>1, <3>2
    <3> QED
      BY <1>2, <2>2, <3>1, <3>3 DEF WillTake
  <2> QED
    BY <2>3, <2>4
<1>10. type # "attach" /\ sessId \in sessions => attached[sessWS] = sessId
  BY <1>1, <1>5 DEF OfSession
<1> QED
  BY <1>1, <1>2, <1>3, <1>4, <1>5, <1>6, <1>7, <1>8, <1>9, <1>10


\* ... and what follows for the invariant.
LEMMA OwnServed ==
    ASSUME WebInv, WebTypeOK', Streams', PageRests, Grows, Registers,
           Showing, NEW type, Request(sessWS, type), Served(sessWS),
           job'[sessWS] = Idle \/ job'[sessWS].id = sessId,
           job'[sessWS].do = "greet" => type = "attach",
           attached'[sessWS] \in {sessId, Nobody},
           sessId \in sessions' => attached'[sessWS] = sessId,
           streams'[sessWS] = "drained" => streams[sessWS] = "drained" /\ owed' = owed,
           /\ sessId \in sessions' \ over' /\ sessWS \notin missed'
           /\ ~isController /\ ~WillTake'
           => Accounted'
    PROVE  WebInv'
<1> USE DEF WebInv, PageRests, page
<1>0. sessWS \in Sockets /\ up \in [Sockets -> Seq(Requests)]
  BY DEF WebTypeOK, Showing
<1>1. /\ Takes(sessWS) /\ Head(up[sessWS]).id = sessId
      /\ type \in {"attach", "resize", "take", "release"}
      /\ AttachComes <=> type = "attach"
      /\ Sends(type) /\ ~AttachComes'
      /\ \A t : Sends(t)' => Sends(t)
      /\ \A t : Sends(t) /\ t # type => Sends(t)'
      /\ WillTake => WillTake' \/ (type = "take" /\ ~Sends("release")')
  BY OwnTaken
<1>2. /\ Blank' /\ InUse' /\ Known'
      /\ Showing' <=> Showing
      /\ Showing => \A t : Comes(t) => Comes(t)'
      /\ Showing /\ sessId \in sessions' => sessId \in sessions
  BY <1>0, <1>1, DaemonKeepsMost
<1>3. OfSession'
  <2>1. up[sessWS] \in Seq(Requests) /\ up[sessWS] # <<>> /\ up'[sessWS] = Tail(up[sessWS])
    BY <1>0, <1>1 DEF Takes
  <2>2. ASSUME NEW i \in DOMAIN up'[sessWS]
        PROVE  /\ up'[sessWS][i].type \in {"attach", "resize", "take", "release"}
               /\ up'[sessWS][i].id = sessId
               /\ up'[sessWS][i].type = "attach" <=> i = 1 /\ up'[sessWS][1].type = "attach"
    <3>1. \A k \in DOMAIN up'[sessWS] :
             k + 1 \in DOMAIN up[sessWS] /\ up'[sessWS][k] = up[sessWS][k + 1] /\ k + 1 # 1
      BY <2>1, QueueShrinks
    <3>2. \A k \in DOMAIN up'[sessWS] : up'[sessWS][k].type # "attach"
      BY <3>1 DEF OfSession
    <3>3. i = 1 => up'[sessWS][1].type # "attach"
      BY <2>2, <3>2
    <3> QED
      BY <2>2, <3>1, <3>2, <3>3 DEF OfSession
  <2> QED
    BY <2>2 DEF OfSession
<1>4. EndIsTold'
  BY <1>2 DEF EndIsTold
<1>5. AsksForSize'
  <2> SUFFICES ASSUME ~isController, ~WillTake'
               PROVE  ~Sends("release")' /\ (AttachComes' \/ BeingGreeted' => Sends("resize")')
    BY <1>2 DEF AsksForSize
  <2>1. CASE WillTake
    BY <1>1, <2>1 DEF BeingGreeted
  <2>2. CASE ~WillTake
    BY <1>1, <2>2 DEF AsksForSize, BeingGreeted
  <2> QED
    BY <2>1, <2>2
<1>6. Renders'
  BY <1>2 DEF Renders
<1> QED
  BY <1>2, <1>3, <1>4, <1>5, <1>6

--------------------------------------------------------------------------------
(* The steps of the daemon.                                                     *)

LEMMA Silent == ASSUME WebTypeOK, UNCHANGED down PROVE Grows
BY DEF Grows, WebTypeOK

\* Streams depends on little.
LEMMA StreamsRest ==
    ASSUME Streams, UNCHANGED <<attached, streams, over, ws>>
    PROVE  Streams'
BY DEF Streams

\* A handler that does not go on to anything was idle, and is.
LEMMA StaysIdle ==
    ASSUME WebTypeOK, NEW a \in Handlers, job[a] = Idle, UNCHANGED job
    PROVE  TurnsTo(a, Idle)
BY DEF TurnsTo, WebTypeOK

LEMMA IdleParksNobody == ~WillPark(Idle)
BY JobShape DEF WillPark

\* A request of another connection than the one that the page shows a session on.
LEMMA OthersRequest ==
    ASSUME WebInv, WebTypeOK', Streams', PageRests, Grows, Registers,
           NEW c \in Sockets, NEW type, Request(c, type), Served(c), Showing => c # sessWS,
           NEW next \in Jobs, TurnsTo(c, next),
           Showing => /\ attached'[sessWS] = attached[sessWS] /\ streams'[sessWS] = streams[sessWS]
                      /\ owner'[sessId] = owner[sessId] \/ (next.do = "look" /\ next.id = sessId),
           UNCHANGED owed
    PROVE  WebInv'
<1>1. c \in Handlers /\ job[c] = Idle /\ Takes(c)
  BY DEF Handlers, Request, Served, Takes
<1>2. Showing => up'[sessWS] = up[sessWS] /\ job'[sessWS] = job[sessWS]
  BY <1>1 DEF Takes, TurnsTo, WebInv, WebTypeOK, Showing, Handlers
<1>3. ASSUME Showing, Accounted PROVE Accounted'
  BY <1>1, <1>2, <1>3, IdleParksNobody, HandlerAccounts
<1> QED
  BY <1>1, <1>2, <1>3, Undisturbed

\* Requests that say nothing of sizes come from elsewhere.
LEMMA OfTheList ==
    ASSUME WebInv, NEW c \in Sockets, NEW type, Request(c, type), Served(c), PageRests,
           type \in {"list", "new", "kill"}
    PROVE  Showing => c # sessWS
BY OwnTaken

\* Handlers that start, and what they start.
LEMMA StartsKnown ==
    ASSUME WebInv, NEW a \in Handlers, NEW next, TurnsTo(a, next), ids' \subseteq ids,
           next.do = "start" => next.id \notin ids'
    PROVE  \A x \in Sockets : job'[x].do = "start" => job'[x].id \notin ids'
BY DEF WebInv, Known, TurnsTo, WebTypeOK, Handlers

\* A handler that works was connected.
LEMMA AtWork ==
    ASSUME WebInv, NEW a \in Handlers, NEW next, TurnsTo(a, next), job[a] # Idle \/ a \in serving \/ cleanups[a] # {}
    PROVE  \A x \in Sockets : Unopened(x) => job'[x] = job[x]
BY DEF WebInv, Blank, Unopened, TurnsTo, WebTypeOK, Handlers

LEMMA ServeListKeeps ==
    ASSUME WebInv, NEW c \in Sockets, ServeList(c)
    PROVE  WebInv'
<1> USE DEF DaemonOnly, page, registry, feeds, jobs
<1>1. /\ WebTypeOK' /\ Streams' /\ PageRests /\ Request(c, "list") /\ Served(c)
      /\ UNCHANGED <<sessions, ids, over, missed, serving, attached, streams, job, cleanups, owner, owed>>
  BY RequestTypes, StreamsRest DEF ServeList, PageRests, WebInv
<1>2. Grows
  <2>1. /\ [type |-> "session_list", ids |-> sessions] \in Frames
        /\ Named([type |-> "session_list", ids |-> sessions], ids')
        /\ Deliver(c, [type |-> "session_list", ids |-> sessions])
    BY <1>1, FrameShape DEF ServeList, WebInv, WebTypeOK, Named
  <2> QED
    BY <2>1, Delivered DEF WebInv
<1>3. Registers
  BY <1>1 DEF Registers, WebInv, Known, Blank
<1>4. TurnsTo(c, Idle) /\ Idle \in Jobs
  BY <1>1, StaysIdle, JobShape DEF WebInv, Request, Handlers
<1>5. Showing => c # sessWS
  BY <1>1, OfTheList
<1> QED
  BY <1>1, <1>2, <1>3, <1>4, <1>5, OthersRequest

LEMMA ServeNewKeeps ==
    ASSUME WebInv, NEW c \in Sockets, ServeNew(c)
    PROVE  WebInv'
<1> USE DEF DaemonOnly, page, registry, feeds, jobs
<1>1. /\ WebTypeOK' /\ Streams' /\ PageRests /\ Request(c, "new") /\ Served(c) /\ Grows
      /\ UNCHANGED <<over, missed, serving, attached, streams, cleanups, owner, owed>>
  BY RequestTypes, StreamsRest, Silent DEF ServeNew, PageRests, WebInv
<1>2. PICK s \in ids : ids' = ids \ {s} /\ sessions' = sessions \cup {s} /\ TurnsTo(c, Job("start", s))
  BY DEF ServeNew
<1>3. s \in Sids /\ Job("start", s) \in Jobs /\ Job("start", s).do = "start" /\ Job("start", s).id = s
  BY JobShape DEF WebInv, WebTypeOK
<1>4. c \in Handlers /\ c \in serving
  BY <1>1 DEF Handlers, Request
<1>5. Registers
  <2>1. \A x \in Sockets : job'[x].do = "start" => job'[x].id \notin ids'
    BY <1>2, <1>3, <1>4, StartsKnown
  <2>2. \A x \in Sockets : Unopened(x) => x \notin serving /\ job'[x] = job[x]
    BY <1>2, <1>4, AtWork DEF WebInv, Blank
  <2> QED
    BY <1>1, <1>2, <2>1, <2>2 DEF Registers
<1>6. Showing => c # sessWS
  BY <1>1, OfTheList
<1> QED
  BY <1>1, <1>2, <1>3, <1>5, <1>6, OthersRequest

LEMMA ServeKillKeeps ==
    ASSUME WebInv, NEW c \in Sockets, ServeKill(c)
    PROVE  WebInv'
<1> USE DEF DaemonOnly, page, registry, feeds, jobs
<1>1. /\ WebTypeOK' /\ Streams' /\ PageRests /\ Request(c, "kill") /\ Served(c) /\ Grows
      /\ UNCHANGED <<sessions, ids, over, missed, serving, attached, streams, cleanups, owner, owed>>
  BY RequestTypes, StreamsRest, Silent DEF ServeKill, PageRests, WebInv
<1>2. c \in Handlers /\ c \in serving /\ job[c] = Idle /\ Head(up[c]).id \in Sids
  BY <1>1, Taken DEF Handlers, Request, WebInv
<1>3. \E j \in {Job("forget", Head(up[c]).id), Idle} : TurnsTo(c, j)
  BY <1>2, StaysIdle DEF ServeKill, WebInv
<1>4. PICK next \in Jobs : TurnsTo(c, next) /\ next.do # "start"
  BY <1>2, <1>3, JobShape
<1>5. Registers
  <2>1. \A x \in Sockets : job'[x].do = "start" => job'[x].id \notin ids'
    BY <1>1, <1>2, <1>4, StartsKnown
  <2>2. \A x \in Sockets : Unopened(x) => x \notin serving /\ job'[x] = job[x]
    BY <1>2, <1>4, AtWork DEF WebInv, Blank
  <2> QED
    BY <1>1, <2>1, <2>2 DEF Registers
<1>6. Showing => c # sessWS
  BY <1>1, OfTheList
<1> QED
  BY <1>1, <1>4, <1>5, <1>6, OthersRequest

\* The page's attach is granted: it is greeted.
LEMMA ServeAttachKeeps ==
    ASSUME WebInv, NEW c \in Sockets, ServeAttach(c)
    PROVE  WebInv'
<1> USE DEF DaemonOnly, page, registry, feeds, jobs
<1> DEFINE s == Head(up[c]).id
<1>1. /\ WebTypeOK' /\ PageRests /\ Request(c, "attach") /\ Served(c)
      /\ UNCHANGED <<sessions, ids, over, missed, serving, cleanups, owner, owed>>
  BY RequestTypes DEF ServeAttach, PageRests, WebInv
<1>2. c \in Handlers /\ c \in serving /\ job[c] = Idle /\ s \in Sids /\ s # Nobody
  BY <1>1, Taken, WebClientAssumption DEF Handlers, Request, WebInv
<1>3. c \in serving /\ ~Unopened(c)
  BY <1>2 DEF WebInv, Blank
<1>4. /\ attached \in [Sockets -> Sids \cup {Nobody}]
      /\ streams \in [Sockets -> {"none", "starting", "live", "drained", "returned"}]
  BY DEF WebInv, WebTypeOK
<1>5. \/ /\ s \in sessions /\ attached' = [attached EXCEPT ![c] = s]
         /\ streams' = [streams EXCEPT ![c] = "starting"]
         /\ TurnsTo(c, Job("greet", s)) /\ UNCHANGED down
      \/ /\ s \notin sessions /\ Deliver(c, [type |-> "error"])
         /\ UNCHANGED <<attached, streams, job>>
  BY DEF ServeAttach
<1>6. Streams'
  BY <1>1, <1>2, <1>4, <1>5 DEF PageRests, WebInv, Streams
<1>7. Grows
  BY <1>5, FrameShape, Delivered, Silent DEF WebInv, Named
<1>8. PICK next \in Jobs : /\ TurnsTo(c, next)
                           /\ next = Idle \/ (next.do = "greet" /\ next.id = s)
                           /\ s \in sessions => next.do = "greet" /\ next.id = s
  <2>1. CASE s \in sessions
    BY <1>2, <1>5, <2>1, JobShape
  <2>2. CASE s \notin sessions
    BY <1>2, <1>5, <2>2, StaysIdle, JobShape DEF WebInv
  <2> QED
    BY <2>1, <2>2
<1>9. Registers
  <2>1. \A x \in Sockets : job'[x].do = "start" => job'[x].id \notin ids'
    BY <1>1, <1>2, <1>8, JobShape, StartsKnown
  <2>2. \A x \in Sockets : Unopened(x) => x \notin serving /\ job'[x] = job[x]
    BY <1>2, <1>8, AtWork DEF WebInv, Blank
  <2>3. \A x \in Sockets : Unopened(x) => attached'[x] = attached[x]
    BY <1>3, <1>4, <1>5
  <2> QED
    BY <1>1, <2>1, <2>2, <2>3 DEF Registers
<1>10. CASE Showing /\ c = sessWS
  <2>1. s = sessId
    BY <1>1, <1>10, OwnTaken
  <2>2. job'[sessWS] = next
    BY <1>2, <1>8, <1>10 DEF TurnsTo, WebInv, WebTypeOK
  <2>3. job'[sessWS] = Idle \/ job'[sessWS].id = sessId
    BY <1>8, <2>1, <2>2
  <2>4. sessId \in sessions' => attached'[sessWS] = sessId /\ Accounted'
    BY <1>1, <1>4, <1>5, <1>8, <1>10, <2>1, <2>2 DEF Accounted, BeingGreeted, PageRests
  <2>5. attached'[sessWS] \in {sessId, Nobody}
    BY <1>4, <1>5, <1>10, <2>1 DEF WebInv, OfSession
  <2>6. streams'[sessWS] = "drained" => streams[sessWS] = "drained"
    BY <1>4, <1>5, <1>10
  <2> QED
    BY <1>1, <1>6, <1>7, <1>9, <1>10, <2>3, <2>4, <2>5, <2>6, OwnServed
<1>11. CASE Showing => c # sessWS
  <2>1. Showing => attached'[sessWS] = attached[sessWS] /\ streams'[sessWS] = streams[sessWS]
    BY <1>4, <1>5, <1>11 DEF WebInv, WebTypeOK, Showing
  <2> QED
    BY <1>1, <1>6, <1>7, <1>8, <1>9, <1>11, <2>1, OthersRequest
<1> QED
  BY <1>10, <1>11

\* A request about the size, of another or of the page.
LEMMA SizeServed ==
    ASSUME WebInv, WebTypeOK', NEW c \in Sockets, NEW type \in {"resize", "take", "release"},
           Request(c, type), Served(c), PageRests,
           UNCHANGED <<down, sessions, ids, over, missed, serving, attached, streams, cleanups, owed>>,
           NEW next \in Jobs, TurnsTo(c, next),
           next = Idle \/ (next.do \in {"claim", "look"} /\ next.id = Head(up[c]).id),
           owner' = owner \/ (next.do = "look" /\ \A s \in Sids : s # next.id => owner'[s] = owner[s]),
           /\ Showing /\ c = sessWS /\ sessId \in sessions \ over /\ sessWS \notin missed
           /\ ~isController /\ ~WillTake'
           => Accounted'
    PROVE  WebInv'
<1>1. Streams' /\ Grows
  BY StreamsRest, Silent DEF WebInv, PageRests
<1>2. c \in Handlers /\ c \in serving /\ next.do \notin {"start", "greet"}
  BY JobShape DEF Handlers, Request
<1>3. Registers
  <2>1. \A x \in Sockets : job'[x].do = "start" => job'[x].id \notin ids'
    BY <1>2, StartsKnown
  <2>2. \A x \in Sockets : Unopened(x) => x \notin serving /\ job'[x] = job[x]
    BY <1>2, AtWork DEF WebInv, Blank
  <2> QED
    BY <2>1, <2>2 DEF Registers
<1>4. CASE Showing /\ c = sessWS
  <2>1. /\ Head(up[c]).id = sessId /\ ~(type = "attach")
        /\ sessId \in sessions => attached[sessWS] = sessId
    BY <1>4, OwnTaken
  <2>2. job'[sessWS] = next
    BY <1>2, <1>4 DEF TurnsTo, WebInv, WebTypeOK
  <2>3. attached[sessWS] \in {sessId, Nobody}
    BY <1>4 DEF WebInv, OfSession
  <2> QED
    BY <1>1, <1>2, <1>3, <1>4, <2>1, <2>2, <2>3, OwnServed
<1>5. CASE Showing => c # sessWS
  <2>1. Showing => sessId \in Sids
    BY DEF WebInv, WebTypeOK, Showing
  <2>2. Showing => owner'[sessId] = owner[sessId] \/ (next.do = "look" /\ next.id = sessId)
    BY <2>1
  <2> QED
    BY <1>1, <1>3, <1>5, <2>2, OthersRequest
<1> QED
  BY <1>4, <1>5

LEMMA ServeResizeKeeps ==
    ASSUME WebInv, NEW c \in Sockets, ServeResize(c)
    PROVE  WebInv'
<1> USE DEF DaemonOnly, page, registry, feeds, jobs
<1> DEFINE s == Head(up[c]).id
           next == IF s \in sessions /\ owner[s] # c THEN Job("claim", s) ELSE Idle
<1>1. /\ WebTypeOK' /\ PageRests /\ Request(c, "resize") /\ Served(c)
      /\ UNCHANGED <<down, sessions, ids, over, missed, serving, attached, streams, cleanups, owed, owner>>
  BY RequestTypes DEF ServeResize, PageRests, WebInv
<1>2. c \in Handlers /\ job[c] = Idle /\ s \in Sids /\ job \in [Handlers -> Jobs]
  BY <1>1, Taken DEF Handlers, WebInv, WebTypeOK
<1>3. /\ TurnsTo(c, next) /\ next \in Jobs
      /\ next = Idle \/ (next.do = "claim" /\ next.id = s)
      /\ s \in sessions /\ owner[s] # c => next.do = "claim"
  BY <1>2, StaysIdle, JobShape DEF ServeResize, WebInv
<1>4. ASSUME Showing, c = sessWS, sessId \in sessions \ over, sessWS \notin missed,
             ~isController, ~WillTake'
      PROVE  Accounted'
  <2>1. s = sessId /\ ~AttachComes /\ ~WillTake
    BY <1>1, <1>4, OwnTaken
  <2>2. Accounted
    BY <1>4, <2>1 DEF WebInv, Renders
  <2>3. UNCHANGED <<sessId, sessWS>> /\ job'[sessWS] = next /\ \A b \in Handlers \ {c} : job'[b] = job[b]
    BY <1>1, <1>2, <1>3, <1>4 DEF PageRests, TurnsTo
  <2>4. CASE Comes("parked")
    BY <1>1, <2>3, <2>4 DEF Accounted, Comes
  <2>5. ASSUME NEW b \in Handlers, WillPark(job[b]) PROVE Accounted'
    <3>1. b # c
      BY <1>2, <2>5, IdleParksNobody
    <3> QED
      BY <2>3, <2>5, <3>1 DEF Accounted, WillPark
  <2>6. ~BeingGreeted /\ job[sessWS].do # "claim"
    BY <1>2, <1>4, JobShape DEF BeingGreeted
  <2>7. CASE owner[sessId] = sessWS
    BY <1>1, <2>3, <2>7 DEF Accounted
  <2>8. CASE owner[sessId] = Nobody
    <3>1. sessWS # Nobody
      BY <1>4, WebClientAssumption
    <3> QED
      BY <1>1, <1>3, <1>4, <2>1, <2>3, <2>8, <3>1 DEF Accounted
  <2> QED
    BY <2>2, <2>4, <2>5, <2>6, <2>7, <2>8 DEF Accounted
<1> QED
  BY <1>1, <1>3, <1>4, SizeServed

LEMMA ServeTakeKeeps ==
    ASSUME WebInv, NEW c \in Sockets, ServeTake(c)
    PROVE  WebInv'
<1> USE DEF DaemonOnly, page, registry, feeds, jobs
<1> DEFINE s == Head(up[c]).id
           next == IF s \in sessions THEN Job("look", s) ELSE Idle
<1>1. /\ WebTypeOK' /\ PageRests /\ Request(c, "take") /\ Served(c)
      /\ UNCHANGED <<down, sessions, ids, over, missed, serving, attached, streams, cleanups, owed>>
  BY RequestTypes DEF ServeTake, PageRests, WebInv
<1>2. c \in Handlers /\ job[c] = Idle /\ s \in Sids /\ owner \in [Sids -> Owners]
  BY <1>1, Taken DEF Handlers, WebInv, WebTypeOK
<1>3. /\ TurnsTo(c, next) /\ next \in Jobs
      /\ next = Idle \/ (next.do = "look" /\ next.id = s)
      /\ s \in sessions => next.do = "look" /\ owner' = [owner EXCEPT ![s] = c]
      /\ s \notin sessions => owner' = owner
  BY <1>2, StaysIdle, JobShape DEF ServeTake, WebInv
<1>4. ASSUME Showing, c = sessWS, sessId \in sessions PROVE Accounted'
  <2>1. s = sessId
    BY <1>1, <1>4, OwnTaken
  <2> QED
    BY <1>1, <1>2, <1>3, <1>4, <2>1 DEF Accounted, PageRests, page
<1>5. s \in sessions => next.id = s /\ \A x \in Sids : x # s => owner'[x] = owner[x]
  BY <1>2, <1>3, JobShape
<1> QED
  BY <1>1, <1>2, <1>3, <1>4, <1>5, SizeServed

LEMMA ServeReleaseKeeps ==
    ASSUME WebInv, NEW c \in Sockets, ServeRelease(c)
    PROVE  WebInv'
<1> USE DEF DaemonOnly, page, registry, feeds, jobs
<1> DEFINE s == Head(up[c]).id
           next == IF s \in sessions THEN Job("look", s) ELSE Idle
<1>1. /\ WebTypeOK' /\ PageRests /\ Request(c, "release") /\ Served(c)
      /\ UNCHANGED <<down, sessions, ids, over, missed, serving, attached, streams, cleanups, owed>>
  BY RequestTypes DEF ServeRelease, PageRests, WebInv
<1>2. c \in Handlers /\ job[c] = Idle /\ s \in Sids /\ owner \in [Sids -> Owners]
  BY <1>1, Taken DEF Handlers, WebInv, WebTypeOK
<1>3. /\ TurnsTo(c, next) /\ next \in Jobs
      /\ next = Idle \/ (next.do = "look" /\ next.id = s)
      /\ s \in sessions => next.do = "look" /\ \E o \in HeirsOf(s, c) : owner' = [owner EXCEPT ![s] = o]
      /\ s \notin sessions => owner' = owner
  BY <1>2, StaysIdle, JobShape DEF ServeRelease, WebInv
<1>4. s \in sessions => next.id = s /\ \A x \in Sids : x # s => owner'[x] = owner[x]
  BY <1>2, <1>3, JobShape
<1>5. ASSUME Showing, c = sessWS, ~isController PROVE WillTake'
  <2>1. Sends("release")
    BY <1>1, <1>5, OwnTaken
  <2>2. WillTake
    BY <1>5, <2>1 DEF WebInv, AsksForSize
  <2> QED
    BY <1>1, <1>5, <2>2, OwnTaken
<1> QED
  BY <1>1, <1>2, <1>3, <1>4, <1>5, SizeServed

\* What a handler goes on to, with no request taken.
LEMMA GoesOn ==
    ASSUME WebInv, WebTypeOK', PageRests, Grows, NEW a \in Handlers, NEW next \in Jobs, TurnsTo(a, next),
           next = Idle \/ (next.id = job[a].id /\ next.do \in {"look", "gather", "write"}),
           job[a].do # "idle",
           UNCHANGED <<up, ids, over, serving, attached, streams, cleanups, owed>>,
           sessions' \subseteq sessions, missed \subseteq missed',
           /\ Showing /\ sessId \in sessions' \ over /\ sessWS \notin missed'
           /\ ~isController /\ ~WillTake /\ ~AttachComes /\ Accounted
           => Accounted'
    PROVE  WebInv'
<1>1. Streams'
  BY StreamsRest DEF WebInv, PageRests
<1>2. next.do \notin {"start", "greet"} /\ job[a] # Idle
  BY JobShape
<1>3. Registers
  <2>1. \A x \in Sockets : job'[x].do = "start" => job'[x].id \notin ids'
    BY <1>2, StartsKnown
  <2>2. \A x \in Sockets : Unopened(x) => x \notin serving /\ job'[x] = job[x]
    BY <1>2, AtWork DEF WebInv, Blank
  <2> QED
    BY <2>1, <2>2 DEF Registers
<1>4. ASSUME Showing
      PROVE  \/ job'[sessWS] = job[sessWS]
             \/ job'[sessWS] = Idle
             \/ job'[sessWS].id = sessId /\ job'[sessWS].do # "greet"
  <2>1. sessWS \in Handlers /\ job \in [Handlers -> Jobs]
    BY <1>4 DEF WebInv, WebTypeOK, Showing, Handlers
  <2>2. CASE sessWS # a
    BY <2>1, <2>2 DEF TurnsTo
  <2>3. CASE sessWS = a
    <3>1. job'[sessWS] = next /\ job[sessWS].id = sessId
      BY <1>2, <1>4, <2>1, <2>3 DEF TurnsTo, WebInv, OfSession
    <3> QED
      BY <1>2, <2>3, <3>1
  <2> QED
    BY <2>2, <2>3
<1> QED
  BY <1>1, <1>3, <1>4, Undisturbed

\* A session is started, or fails to, or is forgotten.
LEMMA StartKeeps ==
    ASSUME WebInv, NEW c \in Sockets, Start(c) \/ Forget(c)
    PROVE  WebInv'
<1> USE DEF DaemonOnly, page, registry, feeds, jobs, Step
<1>1. /\ WebTypeOK' /\ PageRests /\ job[c].do \in {"start", "forget"} /\ TurnsTo(c, Idle) /\ c \in Handlers
      /\ UNCHANGED <<up, ids, over, missed, serving, attached, streams, cleanups, owed, owner>>
  BY HandlerTypes DEF Start, Forget, PageRests, WebInv, Handlers
<1>2. job[c].id \in Sids
  BY <1>1, JobShape DEF WebInv, WebTypeOK, Jobs
<1>3. Grows /\ sessions' \subseteq sessions
  <2>1. CASE Start(c)
    <3>1. CASE Deliver(c, [type |-> "created", id |-> job[c].id]) /\ UNCHANGED sessions
      <4>1. /\ [type |-> "created", id |-> job[c].id] \in Frames
            /\ Named([type |-> "created", id |-> job[c].id], ids')
        BY <1>1, <1>2, <2>1, FrameShape DEF WebInv, Known, Named, Start
      <4> QED
        BY <3>1, <4>1, Delivered DEF WebInv
    <3>2. CASE Deliver(c, [type |-> "error"]) /\ sessions' = sessions \ {job[c].id}
      BY <3>2, FrameShape, Delivered DEF WebInv, Named
    <3> QED
      BY <2>1, <3>1, <3>2 DEF Start
  <2>2. CASE Forget(c)
    BY <2>2, Silent DEF Forget, WebInv
  <2> QED
    BY <2>1, <2>2
<1>4. ASSUME Showing, Accounted PROVE Accounted'
  BY <1>1, <1>3, <1>4, JobShape, HandlerAccounts DEF WillPark
<1> QED
  BY <1>1, <1>3, <1>4, JobShape, GoesOn

\* The page is greeted: it is told who owns the size, or asks for it.
LEMMA GreetKeeps ==
    ASSUME WebInv, NEW c \in Sockets, Greet(c)
    PROVE  WebInv'
<1> USE DEF DaemonOnly, page, registry, feeds, jobs, Step
<1> DEFINE s == job[c].id
           to == IF owner[s] \in {c, Nobody} THEN {} ELSE {c}
           next == Writes(s, owner[s], to)
<1>1. /\ WebTypeOK' /\ PageRests /\ job[c].do = "greet" /\ TurnsTo(c, next) /\ c \in Handlers /\ Grows
      /\ UNCHANGED <<down, up, ids, sessions, over, missed, serving, attached, streams, cleanups, owed, owner>>
  BY HandlerTypes, Silent DEF Greet, PageRests, WebInv, Handlers
<1>2. s \in Sids /\ owner[s] \in Owners /\ job \in [Handlers -> Jobs]
  BY <1>1, JobShape DEF WebInv, WebTypeOK, Jobs
<1>3. /\ next \in Jobs
      /\ owner[s] \in {c, Nobody} => next = Idle
      /\ owner[s] \notin {c, Nobody} =>
            next.do = "write" /\ next.id = s /\ next.owner = owner[s] /\ next.to = {c}
  BY <1>2, JobShape
<1> HIDE DEF next
<1>4. ASSUME Showing, ~isController, ~WillTake, Accounted PROVE Accounted'
  <2>1. CASE c # sessWS
    BY <1>1, <1>3, <1>4, <2>1, JobShape, HandlerAccounts DEF WillPark
  <2>2. CASE c = sessWS
    <3>1. s = sessId /\ Sends("resize")
      BY <1>1, <1>4, <2>2, JobShape DEF WebInv, OfSession, AsksForSize, BeingGreeted
    <3>2. CASE owner[s] \in {c, Nobody}
      BY <1>1, <2>2, <3>1, <3>2 DEF Accounted, Sends, PageRests
    <3>3. CASE owner[s] \notin {c, Nobody}
      <4>1. job'[c] = next /\ WillPark(next)
        BY <1>1, <1>2, <1>3, <2>2, <3>1, <3>3 DEF TurnsTo, WillPark
      <4> QED
        BY <1>1, <4>1 DEF Accounted, WillPark, PageRests, page
    <3> QED
      BY <3>2, <3>3
  <2> QED
    BY <2>1, <2>2
<1> QED
  BY <1>1, <1>3, <1>4, GoesOn

\* The page's resize finds the size free, or not any more.
LEMMA ClaimKeeps ==
    ASSUME WebInv, NEW c \in Sockets, Claim(c)
    PROVE  WebInv'
<1> USE DEF DaemonOnly, page, registry, feeds, jobs, Step
<1> DEFINE s == job[c].id
<1>1. /\ WebTypeOK' /\ PageRests /\ job[c].do = "claim" /\ c \in Handlers /\ Grows
      /\ UNCHANGED <<down, up, ids, sessions, over, missed, serving, attached, streams, cleanups, owed>>
  BY HandlerTypes, Silent DEF Claim, PageRests, WebInv, Handlers
<1>2. s \in Sids /\ owner \in [Sids -> Owners] /\ job \in [Handlers -> Jobs]
  BY <1>1, JobShape DEF WebInv, WebTypeOK, Jobs
<1>3. PICK next \in {Job("look", s), Idle} :
          /\ TurnsTo(c, next)
          /\ \/ owner[s] = Nobody /\ owner' = [owner EXCEPT ![s] = c] /\ next = Job("look", s)
             \/ owner[s] # Nobody /\ owner' = owner
  BY DEF Claim
<1>4. /\ next \in Jobs /\ Job("look", s).do = "look" /\ Job("look", s).id = s
      /\ next = Idle \/ (next.do = "look" /\ next.id = s)
  BY <1>2, <1>3, JobShape
<1>5. ASSUME Showing, Accounted PROVE Accounted'
  <2>0. sessId \in Sids /\ sessWS # Nobody /\ sessWS \in Sockets
    BY <1>5, WebClientAssumption DEF WebInv, WebTypeOK, Showing
  <2>1. CASE c # sessWS
    <3>1. owner'[sessId] = owner[sessId] \/ (next.do = "look" /\ next.id = sessId)
      BY <1>2, <1>3, <1>4, <2>0
    <3> QED
      BY <1>1, <1>3, <1>4, <1>5, <2>1, <3>1, HandlerAccounts DEF WillPark
  <2>2. CASE c = sessWS
    <3>1. s = sessId
      BY <1>1, <1>5, <2>2, JobShape DEF WebInv, OfSession
    <3>2. UNCHANGED <<sessId, sessWS>> /\ \A b \in Handlers \ {c} : job'[b] = job[b]
      BY <1>1, <1>2, <1>3 DEF PageRests, TurnsTo
    <3>3. CASE owner[s] = Nobody
      BY <1>2, <1>3, <2>2, <3>1, <3>2, <3>3 DEF Accounted
    <3>4. CASE owner[s] # Nobody
      <4>1. owner' = owner /\ ~WillPark(job[c]) /\ ~BeingGreeted
        BY <1>1, <1>3, <2>2, <3>4 DEF WillPark, BeingGreeted
      <4>2. CASE Comes("parked")
        BY <1>1, <3>2, <4>2 DEF Accounted, Comes
      <4>3. ASSUME NEW b \in Handlers, WillPark(job[b]) PROVE Accounted'
        BY <3>2, <4>1, <4>3 DEF Accounted, WillPark
      <4>4. CASE owner[sessId] = sessWS
        BY <3>2, <4>1, <4>4 DEF Accounted
      <4> QED
        BY <1>5, <3>1, <3>4, <4>1, <4>2, <4>3, <4>4 DEF Accounted
    <3> QED
      BY <3>3, <3>4
  <2> QED
    BY <2>1, <2>2
<1> QED
  BY <1>1, <1>3, <1>4, <1>5, GoesOn

LEMMA LookUpOwnerKeeps ==
    ASSUME WebInv, NEW a \in Handlers, LookUpOwner(a)
    PROVE  WebInv'
<1> USE DEF DaemonOnly, page, registry, feeds, jobs, Step
<1> DEFINE s == job[a].id
           next == [Job("gather", s) EXCEPT !.owner = owner[s]]
<1>1. /\ WebTypeOK' /\ PageRests /\ job[a].do = "look" /\ TurnsTo(a, next) /\ Grows
      /\ UNCHANGED <<down, up, ids, sessions, over, missed, serving, attached, streams, cleanups, owed, owner>>
  BY HandlerTypes, Silent DEF LookUpOwner, PageRests, WebInv
<1>2. s \in Sids /\ owner[s] \in Owners
  BY <1>1, JobShape DEF WebInv, WebTypeOK, Jobs
<1>3. next \in Jobs /\ next.do = "gather" /\ next.id = s /\ next.owner = owner[s]
  BY <1>2, JobShape
<1> HIDE DEF next
<1>4. ASSUME Showing, Accounted PROVE Accounted'
  BY <1>1, <1>3, <1>4, HandlerAccounts DEF WillPark
<1> QED
  BY <1>1, <1>3, <1>4, GoesOn

\* A broadcast finds the page subscribed, or misses it.
LEMMA LookUpSubsKeeps ==
    ASSUME WebInv, NEW a \in Handlers, LookUpSubs(a)
    PROVE  WebInv'
<1> USE DEF DaemonOnly, page, registry, feeds, jobs, Step
<1> DEFINE s == job[a].id
           to == Listeners(s)
           next == Writes(s, job[a].owner, to)
<1>1. /\ WebTypeOK' /\ PageRests /\ job[a].do = "gather" /\ TurnsTo(a, next) /\ Grows
      /\ UNCHANGED <<down, up, ids, sessions, over, serving, attached, streams, cleanups, owed, owner>>
      /\ missed' = missed \cup Newcomers(s)
  BY HandlerTypes, Silent DEF LookUpSubs, PageRests, WebInv
<1>2. s \in Sids /\ job[a].owner \in Owners /\ to \in SUBSET Sockets /\ job \in [Handlers -> Jobs]
  BY <1>1, JobShape DEF WebInv, WebTypeOK, Jobs, Listeners, Watchers
<1>3. /\ next \in Jobs /\ (to = {} => next = Idle)
      /\ to # {} => next.do = "write" /\ next.id = s /\ next.owner = job[a].owner /\ next.to = to
  BY <1>2, JobShape
<1> HIDE DEF next
<1>4. ASSUME Showing, sessId \in sessions \ over, sessWS \notin missed', ~AttachComes, Accounted
      PROVE  Accounted'
  <2>1. CASE BeingGreeted
    <3>1. a # sessWS /\ sessWS \in Handlers
      BY <1>1, <1>4, <2>1 DEF BeingGreeted, WebInv, WebTypeOK, Showing, Handlers
    <3> QED
      BY <1>1, <1>2, <2>1, <3>1 DEF Accounted, BeingGreeted, TurnsTo, PageRests
  <2>2. CASE ~BeingGreeted
    <3>1. sessWS \in Sockets /\ attached[sessWS] = sessId /\ ws[sessWS] = "open" /\ sessId # Nobody
      BY <1>4, WebClientAssumption DEF WebInv, WebTypeOK, OfSession, Showing
    <3>2. streams[sessWS] \in {"none", "starting", "live", "drained", "returned"}
      BY <3>1 DEF WebInv, WebTypeOK
    <3>3. streams[sessWS] \in {"starting", "live"}
      BY <1>4, <3>1, <3>2 DEF WebInv, Streams
    <3>4. WillPark(job[a]) => sessWS \in to /\ s = sessId
      BY <1>1, <1>4, <2>2, <3>1, <3>3 DEF WillPark, Newcomers, Listeners, Watchers, BeingGreeted
    <3>5. WillPark(job[a]) => WillPark(next)
      BY <1>1, <1>3, <3>4 DEF WillPark
    <3> QED
      BY <1>1, <1>3, <1>4, <3>5, HandlerAccounts
  <2> QED
    BY <2>1, <2>2
<1> QED
  BY <1>1, <1>3, <1>4, GoesOn

LEMMA WriteFlagKeeps ==
    ASSUME WebInv, NEW a \in Handlers, WriteFlag(a)
    PROVE  WebInv'
<1> USE DEF DaemonOnly, page, registry, feeds, jobs, Step
<1> DEFINE s == job[a].id
           f(c) == [type |-> IF c = job[a].owner THEN "active" ELSE "parked", id |-> s]
           to(c) == job[a].to \ {c}
           next(c) == Writes(s, job[a].owner, to(c))
<1>1. /\ WebTypeOK' /\ PageRests /\ job[a].do = "write"
      /\ UNCHANGED <<up, ids, sessions, over, missed, serving, attached, streams, cleanups, owed, owner>>
  BY HandlerTypes DEF WriteFlag, PageRests, WebInv
<1>2. s \in Sids /\ job[a].owner \in Owners /\ job[a].to \in SUBSET Sockets
  BY <1>1, JobShape DEF WebInv, WebTypeOK, Jobs
<1>3. PICK c \in job[a].to : Deliver(c, f(c)) /\ TurnsTo(a, next(c))
  BY DEF WriteFlag
<1>4. f(c) \in Frames /\ Named(f(c), ids') /\ (c # job[a].owner => f(c).type = "parked") /\ c \in Sockets
  BY <1>2, FrameShape DEF Named
<1> HIDE DEF f
<1>5. Grows /\ (ws[c] = "open" => \E i \in DOMAIN down'[c] : down'[c][i].type = f(c).type)
  BY <1>3, <1>4, Delivered DEF WebInv
<1>6. /\ next(c) \in Jobs /\ (to(c) = {} => next(c) = Idle)
      /\ to(c) # {} => next(c).do = "write" /\ next(c).id = s /\ next(c).owner = job[a].owner /\ next(c).to = to(c)
  BY <1>2, JobShape
<1> HIDE DEF next
<1>7. ASSUME Showing, WillPark(job[a]) PROVE WillPark(next(c)) \/ Comes("parked")'
  <2>1. CASE c = sessWS
    BY <1>1, <1>4, <1>5, <1>7, <2>1 DEF WillPark, Comes, Showing, PageRests
  <2>2. CASE c # sessWS
    <3>1. sessWS \in to(c) /\ s = sessId /\ job[a].owner # sessWS
      BY <1>1, <1>7, <2>2 DEF WillPark
    <3> QED
      BY <1>6, <3>1 DEF WillPark
  <2> QED
    BY <2>1, <2>2
<1>8. ASSUME Showing, Accounted PROVE Accounted'
  BY <1>1, <1>3, <1>5, <1>6, <1>7, <1>8, HandlerAccounts
<1> QED
  BY <1>1, <1>3, <1>5, <1>6, <1>8, GoesOn

\* The page's WebSocket is open, so it is not its own that is cleaned up after.
LEMMA CleanUpKeeps ==
    ASSUME WebInv, NEW a \in Handlers, CleanUp(a)
    PROVE  WebInv'
<1> USE DEF DaemonOnly, page, registry, feeds, jobs, Step
<1>1. /\ WebTypeOK' /\ Streams' /\ PageRests /\ job[a].do = "idle" /\ Grows
      /\ UNCHANGED <<down, up, ids, sessions, over, missed, serving, attached, streams, owed>>
  BY HandlerTypes, StreamsRest, Silent DEF CleanUp, PageRests, WebInv
<1>2. PICK s \in cleanups[a] :
        /\ cleanups' = [cleanups EXCEPT ![a] = @ \ {s}]
        /\ \E o \in HeirsOf(s, a) : owner' = [owner EXCEPT ![s] = o]
        /\ TurnsTo(a, Job("look", s))
  BY DEF CleanUp
<1>3. /\ s \in Sids /\ owner \in [Sids -> Owners] /\ job \in [Handlers -> Jobs]
      /\ cleanups \in [Handlers -> SUBSET Sids] /\ \A x \in Sockets : x \in Handlers
  BY <1>2 DEF WebInv, WebTypeOK, Handlers
<1>4. Job("look", s) \in Jobs /\ Job("look", s).do = "look" /\ Job("look", s).id = s
  BY <1>3, JobShape
<1>5. Registers
  <2>1. \A x \in Sockets : job'[x].do = "start" => job'[x].id \notin ids'
    BY <1>1, <1>2, <1>4, StartsKnown
  <2>2. \A x \in Sockets : Unopened(x) => x \notin serving /\ job'[x] = job[x]
    BY <1>2, AtWork DEF WebInv, Blank
  <2>3. \A x \in Sockets : cleanups'[x] \subseteq cleanups[x]
    BY <1>2, <1>3
  <2> QED
    BY <1>1, <2>1, <2>2, <2>3 DEF Registers
<1>6. Showing => a # sessWS /\ sessWS \in Handlers
  BY <1>2, <1>3 DEF WebInv, WebTypeOK, Showing, Blank
<1>7. Showing => job'[sessWS] = job[sessWS]
  BY <1>2, <1>3, <1>6 DEF TurnsTo
<1>8. ASSUME Showing, Accounted PROVE Accounted'
  <2>1. owner'[sessId] = owner[sessId] \/ s = sessId
    BY <1>2, <1>3, <1>8 DEF WebInv, WebTypeOK, Showing
  <2> QED
    BY <1>1, <1>2, <1>4, <1>6, <1>8, <2>1, HandlerAccounts DEF WillPark
<1> QED
  BY <1>1, <1>5, <1>7, <1>8, Undisturbed

\* What no handler does leaves sizes and flags as they are.
LEMMA Elsewhere ==
    ASSUME WebInv, WebTypeOK', Streams', PageRests, Grows, UNCHANGED <<up, attached, job, owner, ids>>,
           sessions' \subseteq sessions, over \subseteq over', missed \subseteq missed', serving' \subseteq serving,
           \A x \in Sockets : ws[x] # "closed" => cleanups'[x] \subseteq cleanups[x],
           Showing /\ streams'[sessWS] = "drained" =>
               \/ Comes("ended")' \/ sessWS \in owed'
               \/ streams[sessWS] = "drained" /\ sessWS \notin owed
    PROVE  WebInv'
<1>1. Registers
  BY DEF Registers, WebInv, Known, Blank
<1>2. ASSUME Showing, Accounted PROVE Accounted'
  <2>1. Comes("parked") => Comes("parked")'
    BY <1>2, FramesStay DEF WebInv
  <2> QED
    BY <1>2, <2>1 DEF Accounted, WillPark, BeingGreeted, Sends, PageRests, page
<1> QED
  BY <1>1, <1>2, Undisturbed

LEMMA DroppedKeeps ==
    ASSUME WebInv, NEW c \in Sockets, Dropped(c)
    PROVE  WebInv'
<1> USE DEF page, registry, feeds, queues
<1>1. /\ WebTypeOK' /\ Streams' /\ PageRests /\ Grows
      /\ UNCHANGED <<up, attached, job, owner, ids, sessions, over, missed, streams, owed>>
  BY ApartTypes, StreamsRest, Silent DEF Dropped, PageRests, WebInv
<1>2. serving' \subseteq serving /\ \A x \in Sockets : ws[x] # "closed" => cleanups'[x] \subseteq cleanups[x]
  BY DEF Dropped, WebInv, WebTypeOK, Handlers
<1> QED
  BY <1>1, <1>2, Elsewhere DEF WebInv, EndIsTold

LEMMA StreamKeeps ==
    ASSUME WebInv, NEW c \in Sockets, Subscribes(c) \/ Unsubscribes(c)
    PROVE  WebInv'
<1> USE DEF GoroutineOnly, page, registry, feeds, queues, jobs
<1>1. /\ WebTypeOK' /\ PageRests /\ Grows
      /\ UNCHANGED <<up, attached, job, owner, ids, sessions, over, missed, owed, serving, cleanups>>
  BY ApartTypes, Silent DEF Subscribes, Unsubscribes, PageRests, WebInv
<1>2. /\ streams' = [streams EXCEPT ![c] = IF Subscribes(c) /\ attached[c] \notin over THEN "live" ELSE "returned"]
      /\ streams[c] \in {"starting", "live"} /\ (~Subscribes(c) => ws[c] = "closed")
  BY DEF Subscribes, Unsubscribes
<1>3. /\ \A x \in Sockets \ {c} : streams'[x] = streams[x]
      /\ streams'[c] = IF Subscribes(c) /\ attached[c] \notin over THEN "live" ELSE "returned"
  BY <1>2 DEF WebInv, WebTypeOK
<1>4. Streams'
  BY <1>1, <1>2, <1>3 DEF Streams, WebInv, PageRests
<1>5. Showing => (streams'[sessWS] = "drained" => streams[sessWS] = "drained")
  BY <1>3 DEF WebInv, WebTypeOK, Showing
<1> QED
  BY <1>1, <1>4, <1>5, Elsewhere DEF WebInv, EndIsTold

\* Those who listen to a session that ends will be told.
LEMMA SessionEndsKeeps ==
    ASSUME WebInv, NEW s \in Sids, SessionEnds(s)
    PROVE  WebInv'
<1> USE DEF GoroutineOnly, page, registry, feeds, queues, jobs
<1>1. /\ WebTypeOK' /\ PageRests /\ Grows
      /\ UNCHANGED <<up, attached, job, owner, ids, sessions, missed, serving, cleanups>>
  BY ApartTypes, Silent DEF SessionEnds, PageRests, WebInv
<1>2. /\ over' = over \cup {s} /\ owed' = owed \cup Listeners(s)
      /\ \A x \in Sockets : streams'[x] = IF x \in Watchers(s) THEN "drained" ELSE streams[x]
  BY DEF SessionEnds
<1>3. Streams'
  BY <1>1, <1>2 DEF Streams, WebInv, PageRests, Watchers
<1>4. Showing /\ streams'[sessWS] = "drained" => streams[sessWS] = "drained" \/ sessWS \in owed'
  BY <1>2 DEF WebInv, WebTypeOK, Showing, Listeners
<1>5. Comes("ended") /\ Showing => Comes("ended")'
  BY <1>1, FramesStay DEF WebInv
<1> QED
  BY <1>1, <1>2, <1>3, <1>4, <1>5, Elsewhere DEF WebInv, EndIsTold

LEMMA NoticeKeeps ==
    ASSUME WebInv, NEW c \in Sockets, Notice(c)
    PROVE  WebInv'
<1> USE DEF GoroutineOnly, page, registry, feeds, queues, jobs
<1> DEFINE f == [type |-> "ended", id |-> attached[c]]
<1>1. /\ WebTypeOK' /\ Streams' /\ PageRests /\ Deliver(c, f) /\ owed' = owed \ {c}
      /\ UNCHANGED <<up, attached, job, owner, ids, sessions, over, missed, serving, cleanups, streams>>
  BY ApartTypes, StreamsRest DEF Notice, PageRests, WebInv
<1>2. f \in Frames /\ Named(f, ids') /\ f.type = "ended"
  <2>1. attached[c] \in Sids
    BY DEF Notice, WebInv, WebTypeOK
  <2> QED
    BY <2>1, FrameShape DEF Named
<1> HIDE DEF f
<1>3. Grows /\ (ws[c] = "open" => \E i \in DOMAIN down'[c] : down'[c][i].type = "ended")
  BY <1>1, <1>2, Delivered DEF WebInv
<1>4. Showing /\ streams'[sessWS] = "drained" => Comes("ended")' \/ sessWS \in owed' \/ sessWS \notin owed
  BY <1>1, <1>3 DEF Showing, Comes, PageRests
<1> QED
  BY <1>1, <1>3, <1>4, Elsewhere

LEMMA UnregisterKeeps ==
    ASSUME WebInv, NEW s \in Sids, Unregister(s)
    PROVE  WebInv'
<1> USE DEF GoroutineOnly, page, registry, feeds, queues, jobs
<1>1. /\ WebTypeOK' /\ Streams' /\ PageRests /\ Grows /\ sessions' \subseteq sessions
      /\ UNCHANGED <<up, attached, job, owner, ids, over, missed, serving, cleanups, streams, owed>>
  BY ApartTypes, StreamsRest, Silent DEF Unregister, PageRests, WebInv
<1> QED
  BY <1>1, Elsewhere DEF WebInv, EndIsTold

\* The desk takes the size, and will say so; the rest of what it does the page does
\* not see.
LEMMA DeskKeeps ==
    ASSUME WebInv,
           (\E s \in Sids : DeskTakes(s) \/ DeskSubscribes(s)) \/ DeskLeaves \/ DeskUnsubscribes
    PROVE  WebInv'
<1> USE DEF GoroutineOnly, DeskMoves, page, registry, feeds, queues, jobs
<1>1. /\ WebTypeOK' /\ Streams' /\ PageRests /\ Grows
      /\ UNCHANGED <<down, up, ids, sessions, over, missed, serving, attached, streams, owed>>
  BY ApartTypes, StreamsRest, Silent DEF DeskTakes, DeskSubscribes, DeskLeaves, DeskUnsubscribes, PageRests, WebInv
<1>2. CASE (\E s \in Sids : DeskSubscribes(s)) \/ DeskLeaves \/ DeskUnsubscribes
  <2>1. UNCHANGED <<job, owner>> /\ \A x \in Sockets : cleanups'[x] = cleanups[x]
    BY <1>2, WebClientAssumption
       DEF DeskSubscribes, DeskLeaves, DeskUnsubscribes, WebInv, WebTypeOK, Handlers
  <2> QED
    BY <1>1, <2>1, Elsewhere DEF WebInv, EndIsTold
<1>3. ASSUME NEW s \in Sids, DeskTakes(s) PROVE WebInv'
  <2>1. /\ job[Desk] = Idle /\ TurnsTo(Desk, Job("look", s)) /\ UNCHANGED cleanups
        /\ owner' = [owner EXCEPT ![s] = Desk]
    BY <1>3 DEF DeskTakes
  <2>2. /\ Desk \in Handlers /\ owner \in [Sids -> Owners] /\ job \in [Handlers -> Jobs]
        /\ Desk \notin Sockets /\ Sockets \subseteq Handlers
    BY WebClientAssumption DEF WebInv, WebTypeOK, Handlers
  <2>3. Job("look", s) \in Jobs /\ Job("look", s).do = "look" /\ Job("look", s).id = s
    BY JobShape
  <2>4. \A x \in Sockets : job'[x] = job[x]
    BY <2>1, <2>2 DEF TurnsTo
  <2>5. Registers
    BY <1>1, <2>1, <2>4 DEF Registers, WebInv, Known, Blank
  <2>6. ASSUME Showing, Accounted PROVE Accounted'
    <3>1. owner'[sessId] = owner[sessId] \/ s = sessId
      BY <2>1, <2>2, <2>6 DEF WebInv, WebTypeOK, Showing
    <3>2. Desk # sessWS
      BY <2>2, <2>6 DEF WebInv, WebTypeOK, Showing
    <3> QED
      BY <1>1, <2>1, <2>2, <2>3, <2>6, <3>1, <3>2, IdleParksNobody, HandlerAccounts
  <2>7. Showing => job'[sessWS] = job[sessWS]
    BY <2>4 DEF WebInv, WebTypeOK, Showing
  <2> QED
    BY <1>1, <2>5, <2>6, <2>7, Undisturbed DEF WebInv, EndIsTold
<1> QED
  BY <1>2, <1>3

--------------------------------------------------------------------------------
(* The steps of the page.                                                       *)

DaemonRests ==
    UNCHANGED <<serving, sessions, ids, killed, over, owner, attached, streams, owed, deskAt, deskOn,
                job, cleanups, missed>>

\* One queue after another.
LEMMA QueuesJoin ==
    ASSUME NEW S, NEW p \in Seq(S), NEW q \in Seq(S)
    PROVE  /\ p \o q \in Seq(S) /\ Len(p) \in Nat /\ Len(p \o q) = Len(p) + Len(q)
           /\ \A i \in DOMAIN p : i \in DOMAIN (p \o q) /\ (p \o q)[i] = p[i] /\ 1 \in DOMAIN p
           /\ \A i \in DOMAIN q : Len(p) + i \in DOMAIN (p \o q) /\ (p \o q)[Len(p) + i] = q[i]
           /\ \A i \in DOMAIN (p \o q) :
                 i \in DOMAIN p \/ (i - Len(p) \in DOMAIN q /\ (p \o q)[i] = q[i - Len(p)])
<1>1. p \o q \in Seq(S) /\ Len(p \o q) = Len(p) + Len(q)
  BY ConcatProperties
<1>2. \A i \in 1 .. Len(p) + Len(q) : (p \o q)[i] = IF i <= Len(p) THEN p[i] ELSE q[i - Len(p)]
  BY ConcatProperties
<1>3. /\ Len(p) \in Nat /\ Len(q) \in Nat /\ DOMAIN p = 1 .. Len(p) /\ DOMAIN q = 1 .. Len(q)
      /\ DOMAIN (p \o q) = 1 .. Len(p) + Len(q)
  BY <1>1
<1> QED
  BY <1>1, <1>2, <1>3

\* What the page sends on an open WebSocket comes after what it sent before.
LEMMA SentGoes ==
    ASSUME WebTypeOK, NEW c \in Sockets \cup {Nobody}, NEW q \in Seq(Requests), up' = Sent(c, q)
    PROVE  /\ up' \in [Sockets -> Seq(Requests)]
           /\ \A x \in Sockets : x # c \/ ws[x] # "open" => up'[x] = up[x]
           /\ \A x \in Sockets : Unopened(x) => up'[x] = up[x]
           /\ c \in Sockets /\ ws[c] = "open" => up'[c] = up[c] \o q
<1>1. up \in [Sockets -> Seq(Requests)] /\ (c \in Sockets => up[c] \o q \in Seq(Requests))
  BY QueuesJoin DEF WebTypeOK
<1> QED
  BY <1>1 DEF Sent, Unopened

\* Queues to the page from which at most a frame was taken.
Shrunk(frames) ==
    /\ frames \in [Sockets -> Seq(Frames)]
    /\ \A c \in Sockets : frames[c] = down[c] \/ (down[c] # <<>> /\ frames[c] = Tail(down[c]))

LEMMA ShrunkIsKnown ==
    ASSUME WebInv, NEW frames, Shrunk(frames), NEW c \in Sockets, NEW i \in DOMAIN frames[c]
    PROVE  Named(frames[c][i], ids)
<1>1. down[c] \in Seq(Frames)
  BY DEF WebInv, WebTypeOK
<1>2. \A j \in DOMAIN down[c] : Named(down[c][j], ids)
  BY DEF WebInv, Known, Named
<1>3. CASE frames[c] = down[c]
  BY <1>2, <1>3
<1>4. CASE down[c] # <<>> /\ frames[c] = Tail(down[c])
  BY <1>1, <1>2, <1>4, QueueShrinks
<1> QED
  BY <1>3, <1>4 DEF Shrunk

\* The screen moves to a new WebSocket, and away from the old ones that it listened to.
LEMMA ConnectKeeps ==
    ASSUME WebInv, NEW new \in Sockets, NEW old, NEW frames, Shrunk(frames), Connect(new, old, frames),
           DaemonRests, UNCHANGED events,
           up' \in [Sockets -> Seq(Requests)], \A c \in Sockets : Unopened(c) => up'[c] = up[c],
           screen' \in {"entry", "session"}, isController' \in BOOLEAN, listed' \in SUBSET Sids,
           listed' \cap ids = {}, sessId' \notin ids,
           \/ /\ screen' = "entry" /\ sessId' = Nobody
              /\ entryWS' = new /\ sessWS' = Nobody /\ {entryWS, sessWS} \ {Nobody} \subseteq old
           \/ /\ screen' = "session" /\ sessId' \in Sids
              /\ entryWS' = entryWS /\ sessWS' = new /\ {sessWS} \ {Nobody} \subseteq old /\ entryWS \notin old
    PROVE  WebInv'
<1> USE DEF WebInv
<1>1. /\ ws \in [Sockets -> {"unused", "connecting", "open", "closed"}] /\ Nobody \notin Sids
      /\ entryWS \in Sockets /\ sessWS \in Sockets \cup {Nobody} /\ Nobody \notin Sockets
  BY WebClientAssumption DEF WebTypeOK
<1>2. /\ ws[new] = "unused" /\ ws'[new] = "connecting" /\ ~banner' /\ banner' \in BOOLEAN
      /\ \A c \in Sockets \ {new} : ws'[c] = IF c \in old THEN "closed" ELSE ws[c]
      /\ ws' \in [Sockets -> {"unused", "connecting", "open", "closed"}]
  BY <1>1 DEF Connect
<1>3. new # entryWS /\ new # sessWS
  BY <1>1, <1>2 DEF InUse
<1>4. down' \in [Sockets -> Seq(Frames)]
  BY Queues DEF Connect, Shrunk
<1>5. WebTypeOK'
  BY <1>1, <1>2, <1>4 DEF WebTypeOK, DaemonRests
<1>6. Blank'
  BY <1>1, <1>2 DEF Blank, Unopened, DaemonRests
<1>7. InUse'
  <2>1. \A c \in Sockets : ws'[c] \in {"connecting", "open"} => c = new \/ (c \notin old /\ c \in {entryWS, sessWS})
    BY <1>1, <1>2 DEF InUse
  <2>2. entryWS' # sessWS' /\ \A c \in Sockets : ws'[c] \in {"connecting", "open"} => c \in {entryWS', sessWS'}
    BY <1>1, <1>3, <2>1
  <2>3. ws'[entryWS'] # "unused" /\ (sessWS' # Nobody => ws'[sessWS'] # "unused")
    BY <1>1, <1>2, <1>3 DEF InUse
  <2>4. ws'[Shown'] = "connecting"
    BY <1>1, <1>2 DEF Shown
  <2> QED
    BY <2>2, <2>3, <2>4 DEF InUse
<1>8. Known'
  <2>1. \A c \in Sockets : \A i \in DOMAIN down'[c] : Named(down'[c][i], ids')
    <3> SUFFICES ASSUME NEW c \in Sockets, NEW i \in DOMAIN down'[c] PROVE Named(down'[c][i], ids')
      OBVIOUS
    <3>1. CASE c \in old
      <4>1. down'[c] = <<>>
        BY <3>1 DEF Connect
      <4> QED
        BY <4>1, Queues
    <3>2. CASE c \notin old
      <4>1. down'[c] = frames[c]
        BY <3>2 DEF Connect
      <4> QED
        BY <4>1, ShrunkIsKnown DEF DaemonRests
    <3> QED
      BY <3>1, <3>2
  <2> QED
    BY <2>1 DEF Known, Named, DaemonRests
<1>9. ~Showing'
  BY <1>1, <1>2 DEF Showing
<1>10. Streams'
  BY <1>1, <1>2 DEF Streams, DaemonRests
<1>11. OfSession' /\ EndIsTold' /\ AsksForSize' /\ Renders'
  BY <1>9 DEF OfSession, EndIsTold, AsksForSize, Renders
<1> QED
  BY <1>5, <1>6, <1>7, <1>8, <1>10, <1>11

\* A tap that opens a session, goes back or connects again; a session that was
\* created is opened, one that ended is left.
LEMMA MovingKeeps ==
    ASSUME WebInv,
           \/ \E s \in Sids : TapSession(s)
           \/ TapReconnect \/ TapBack \/ CreatedArrives \/ EndArrives
    PROVE  WebInv'
<1>1. /\ Nobody \notin Sids \cup Sockets /\ entryWS \in Sockets /\ sessWS \in Sockets \cup {Nobody}
      /\ down \in [Sockets -> Seq(Frames)] /\ (screen = "session" <=> sessId # Nobody)
      /\ up \in [Sockets -> Seq(Requests)]
      /\ (screen = "session" <=> sessWS # Nobody) /\ screen \in {"entry", "session"}
      /\ sessId \in Sids \cup {Nobody} /\ isController \in BOOLEAN /\ listed \in SUBSET Sids
      /\ listed \cap ids = {} /\ sessId \notin ids /\ entryWS # sessWS /\ Nobody \notin ids
  BY WebClientAssumption DEF WebInv, WebTypeOK, Known, InUse
<1>2. Shrunk(down)
  BY <1>1 DEF Shrunk
<1>3. ASSUME NEW s \in Sids, NEW frames, Shrunk(frames), s \notin ids, enterSession(s, frames),
             DaemonRests, UNCHANGED events
      PROVE  WebInv'
  <2>1. PICK new \in Sockets : Connect(new, {sessWS}, frames) /\ sessWS' = new
    BY <1>3 DEF enterSession, reattach
  <2>2. /\ sessId' = s /\ screen' = "session" /\ isController' = FALSE
        /\ UNCHANGED <<listed, entryWS>>
    BY <1>3 DEF enterSession
  <2>3. up' = Sent(sessWS, <<[type |-> "resize", id |-> s]>>)
    BY <1>3 DEF enterSession, sizeTerminal
  <2>4. up' \in [Sockets -> Seq(Requests)] /\ \A c \in Sockets : Unopened(c) => up'[c] = up[c]
    <3>1. <<[type |-> "resize", id |-> s]>> \in Seq(Requests)
      BY RequestShape, Queues
    <3> QED
      BY <1>1, <2>3, <3>1, SentGoes DEF WebInv
  <2> QED
    BY <1>1, <1>3, <2>1, <2>2, <2>4, ConnectKeeps
<1>4. ASSUME leaveSession, DaemonRests, UNCHANGED <<up, events>>
      PROVE  WebInv'
  <2>1. PICK new \in Sockets : Connect(new, {entryWS, sessWS}, down) /\ entryWS' = new
    BY <1>4 DEF leaveSession, entryConnect
  <2>2. /\ sessId' = Nobody /\ screen' = "entry" /\ sessWS' = Nobody
        /\ UNCHANGED <<listed, isController>>
    BY <1>4 DEF leaveSession
  <2> QED
    BY <1>1, <1>2, <1>4, <2>1, <2>2, ConnectKeeps
<1>5. ASSUME NEW s \in Sids, TapSession(s) PROVE WebInv'
  BY <1>1, <1>2, <1>3, <1>5 DEF TapSession, Navigation, daemon, registry, feeds, desk, jobs, DaemonRests
<1>6. CASE TapReconnect
  <2>1. /\ DaemonRests /\ UNCHANGED <<up, events, screen, sessId, isController, listed>>
    BY <1>6 DEF TapReconnect, Navigation, daemon, registry, feeds, desk, jobs, DaemonRests
  <2>2. CASE screen = "entry"
    <3>1. PICK new \in Sockets : Connect(new, {entryWS}, down) /\ entryWS' = new
      BY <1>6, <2>2 DEF TapReconnect, entryConnect
    <3>2. sessWS' = sessWS
      BY <1>6, <2>2 DEF TapReconnect
    <3> QED
      BY <1>1, <1>2, <2>1, <2>2, <3>1, <3>2, ConnectKeeps
  <2>3. CASE screen = "session"
    <3>1. PICK new \in Sockets : Connect(new, {sessWS}, down) /\ sessWS' = new
      BY <1>6, <2>3 DEF TapReconnect, reattach
    <3>2. entryWS' = entryWS
      BY <1>6, <2>3 DEF TapReconnect
    <3> QED
      BY <1>1, <1>2, <2>1, <2>3, <3>1, <3>2, ConnectKeeps
  <2> QED
    BY <1>1, <2>2, <2>3
<1>7. CASE TapBack
  BY <1>4, <1>7 DEF TapBack, Navigation, daemon, registry, feeds, desk, jobs, DaemonRests
<1>8. CASE CreatedArrives
  <2> DEFINE frames == [down EXCEPT ![entryWS] = Tail(@)]
  <2>1. /\ down[entryWS] # <<>> /\ Head(down[entryWS]).type = "created"
        /\ enterSession(Head(down[entryWS]).id, frames)
        /\ DaemonRests /\ UNCHANGED events
    BY <1>8 DEF CreatedArrives, Arrives, daemon, registry, feeds, desk, jobs, DaemonRests
  <2>2. /\ Head(down[entryWS]) \in Frames /\ Head(down[entryWS]) = down[entryWS][1]
        /\ 1 \in DOMAIN down[entryWS] /\ Tail(down[entryWS]) \in Seq(Frames)
    BY <1>1, <2>1, QueueShrinks
  <2>3. Shrunk(frames)
    BY <1>1, <2>1, <2>2 DEF Shrunk
  <2>4. Head(down[entryWS]).id \in Sids /\ Head(down[entryWS]).id \notin ids
    BY <1>1, <2>1, <2>2, FrameShape DEF WebInv, Known
  <2> QED
    BY <1>3, <2>1, <2>3, <2>4
<1>9. CASE EndArrives
  BY <1>4, <1>9 DEF EndArrives, FrameOnly, daemon, registry, feeds, desk, jobs, DaemonRests
<1> QED
  BY <1>5, <1>6, <1>7, <1>8, <1>9


\* A frame arrives: nothing of another kind is lost.
LEMMA Consumed ==
    ASSUME WebInv, NEW c \in Sockets, NEW type, Arrives(c, type), Consume(c), UNCHANGED <<ids, sessWS>>
    PROVE  /\ Shrunk(down') /\ \A x \in Sockets : \A i \in DOMAIN down'[x] : Named(down'[x][i], ids')
           /\ Head(down[c]) \in Frames /\ Named(Head(down[c]), ids) /\ Head(down[c]).type = type
           /\ sessWS \in Sockets => \A t : Comes(t) /\ (t # type \/ c # sessWS) => Comes(t)'
<1>1. down \in [Sockets -> Seq(Frames)] /\ down[c] # <<>> /\ Head(down[c]).type = type
  BY DEF WebInv, WebTypeOK, Arrives
<1>2. down' = [down EXCEPT ![c] = Tail(@)]
  BY DEF Consume
<1>3. /\ Tail(down[c]) \in Seq(Frames) /\ Head(down[c]) = down[c][1] /\ 1 \in DOMAIN down[c]
      /\ \A i \in DOMAIN down[c] : i = 1 \/ (i - 1 \in DOMAIN Tail(down[c]) /\ Tail(down[c])[i - 1] = down[c][i])
      /\ Head(down[c]) \in Frames
  BY <1>1, QueueShrinks
<1>4. Shrunk(down')
  BY <1>1, <1>2, <1>3 DEF Shrunk
<1>5. \A x \in Sockets : \A i \in DOMAIN down'[x] : Named(down'[x][i], ids')
  BY <1>4, ShrunkIsKnown
<1>6. Named(Head(down[c]), ids)
  BY <1>3 DEF WebInv, Known, Named
<1>7. ASSUME sessWS \in Sockets, NEW t, Comes(t), t # type \/ c # sessWS PROVE Comes(t)'
  <2>1. PICK i \in DOMAIN down[sessWS] : down[sessWS][i].type = t
    BY <1>7 DEF Comes
  <2>2. CASE c # sessWS
    BY <1>1, <1>2, <1>7, <2>1, <2>2 DEF Comes
  <2>3. CASE c = sessWS /\ t # type
    BY <1>1, <1>2, <1>3, <2>1, <2>3 DEF Comes
  <2> QED
    BY <1>7, <2>2, <2>3
<1> QED
  BY <1>1, <1>3, <1>4, <1>5, <1>6, <1>7

\* What the page receives while it stays where it is.
LEMMA ArrivingKeeps ==
    ASSUME WebInv, NEW c \in Sockets, NEW type, Arrives(c, type), Consume(c),
           UNCHANGED <<screen, sessId, banner, entryWS, sessWS, ws, up>>, DaemonRests, UNCHANGED events,
           listed' \in SUBSET Sids, listed' \cap ids = {}, isController' \in BOOLEAN,
           c = sessWS => type # "ended" /\ (isController' \/ type # "parked"),
           isController => isController'
    PROVE  WebInv'
<1> USE DEF WebInv, DaemonRests
<1>1. /\ Shrunk(down') /\ \A x \in Sockets : \A i \in DOMAIN down'[x] : Named(down'[x][i], ids')
      /\ sessWS \in Sockets => \A t : Comes(t) /\ (t # type \/ c # sessWS) => Comes(t)'
  BY Consumed
<1>2. Showing => sessWS \in Sockets
  BY DEF WebTypeOK, Showing
<1>3. WebTypeOK'
  BY <1>1 DEF WebTypeOK, Shrunk
<1>4. Blank' /\ InUse' /\ Streams'
  BY DEF Blank, Unopened, InUse, Shown, Streams
<1>5. Known'
  BY <1>1 DEF Known, Named
<1>6. /\ Showing' <=> Showing
      /\ WillTake' <=> WillTake
      /\ AttachComes' <=> AttachComes
      /\ \A t : Sends(t)' <=> Sends(t)
      /\ BeingGreeted' <=> BeingGreeted
  BY DEF Showing, WillTake, AttachComes, Sends, BeingGreeted
<1>7. OfSession' /\ AsksForSize'
  BY <1>6 DEF OfSession, AsksForSize
<1>8. EndIsTold'
  BY <1>1, <1>2, <1>6 DEF EndIsTold
<1>9. Renders'
  <2>1. Showing /\ Comes("parked") /\ ~isController' => Comes("parked")'
    BY <1>1, <1>2
  <2>2. Showing /\ Accounted /\ ~isController' => Accounted'
    BY <1>6, <2>1 DEF Accounted, WillPark
  <2> QED
    BY <1>6, <2>2 DEF Renders
<1> QED
  BY <1>3, <1>4, <1>5, <1>7, <1>8, <1>9

LEMMA FrameKeeps ==
    ASSUME WebInv, ListArrives \/ ErrorArrives \/ FlagArrives
    PROVE  WebInv'
<1>1. /\ entryWS \in Sockets /\ sessWS \in Sockets \cup {Nobody} /\ entryWS # sessWS
      /\ (screen = "session" => sessWS \in Sockets) /\ Nobody \notin Sockets
      /\ isController \in BOOLEAN /\ listed \in SUBSET Sids /\ listed \cap ids = {}
  BY WebClientAssumption DEF WebInv, WebTypeOK, InUse, Known
<1>2. DaemonRests /\ UNCHANGED <<events, up, ws, entryWS, sessWS, screen, sessId, banner>>
  BY DEF ListArrives, ErrorArrives, FlagArrives, FrameOnly, daemon, registry, feeds, desk, jobs, DaemonRests, page
<1>3. CASE ListArrives
  <2>1. /\ Arrives(entryWS, "session_list") /\ Consume(entryWS)
        /\ listed' = Head(down[entryWS]).ids /\ UNCHANGED isController
    BY <1>3 DEF ListArrives
  <2>2. UNCHANGED <<ids, sessWS>>
    BY <1>2 DEF DaemonRests
  <2>3. /\ Head(down[entryWS]) \in Frames /\ Named(Head(down[entryWS]), ids)
        /\ Head(down[entryWS]).type = "session_list"
    BY <1>1, <2>1, <2>2, Consumed
  <2>4. listed' \in SUBSET Sids /\ listed' \cap ids = {}
    BY <2>1, <2>3, FrameShape DEF Named
  <2> QED
    BY <1>1, <1>2, <2>1, <2>4, ArrivingKeeps
<1>4. CASE ErrorArrives
  <2>1. PICK c \in {entryWS, sessWS} \ {Nobody} : Arrives(c, "error") /\ Consume(c)
    BY <1>4 DEF ErrorArrives
  <2>2. c \in Sockets /\ UNCHANGED <<isController, listed>>
    BY <1>1, <1>4, <2>1 DEF ErrorArrives, page
  <2> QED
    BY <1>1, <1>2, <2>1, <2>2, ArrivingKeeps
<1>5. CASE FlagArrives
  <2>1. /\ screen = "session" /\ Consume(sessWS) /\ UNCHANGED listed
        /\ isController' = ControllerAfter(Head(down[sessWS]).type)
    BY <1>5 DEF FlagArrives
  <2>2. PICK type \in {"active", "parked"} : Arrives(sessWS, type)
    BY <1>5 DEF FlagArrives
  <2>3. isController' = (isController \/ type = "parked")
    BY <2>1, <2>2 DEF Arrives, ControllerAfter
  <2> QED
    BY <1>1, <1>2, <2>1, <2>2, <2>3, ArrivingKeeps
<1> QED
  BY <1>3, <1>4, <1>5


\* A request before another, or before none.
LEMMA OneAfterOne ==
    ASSUME NEW a, NEW b
    PROVE  <<a>> \o <<>> = <<a>> /\ <<a>> \o <<b>> = <<a, b>>
<1>1. <<a>> \in Seq({a, b}) /\ <<b>> \in Seq({a, b}) /\ <<>> \in Seq({a, b})
  OBVIOUS
<1>2. Append(<<a>>, b) = <<a, b>>
  <2>1. /\ Append(<<a>>, b) \in Seq({a, b}) /\ Len(Append(<<a>>, b)) = 2
        /\ Append(<<a>>, b)[1] = a /\ Append(<<a>>, b)[2] = b
    BY AppendProperties, <1>1
  <2>2. <<a, b>> \in Seq({a, b}) /\ Len(<<a, b>>) = 2 /\ <<a, b>>[1] = a /\ <<a, b>>[2] = b
    OBVIOUS
  <2> DEFINE p == Append(<<a>>, b)
             q == <<a, b>>
  <2> HIDE DEF p, q
  <2>3. /\ p \in Seq({a, b}) /\ Len(p) = 2 /\ p[1] = a /\ p[2] = b
        /\ q \in Seq({a, b}) /\ Len(q) = 2 /\ q[1] = a /\ q[2] = b
    BY <2>1, <2>2 DEF p, q
  <2>4. \A i \in 1 .. Len(p) : p[i] = q[i]
    BY <2>3
  <2>5. p = q
    BY <2>3, <2>4, SeqEqual
  <2> QED
    BY <2>5 DEF p, q
<1>3. <<a>> \o <<b>> = Append(<<a>>, b)
  BY <1>1, AppendIsConcat
<1>4. <<a>> \o <<>> = <<a>>
  BY <1>1, ConcatEmptySeq
<1> QED
  BY <1>2, <1>3, <1>4

\* A WebSocket is open: the page says what it wants of it.
LEMMA OpenedKeeps ==
    ASSUME WebInv, NEW c \in Sockets, Opened(c)
    PROVE  WebInv'
<1> USE DEF WebInv
<1>1. /\ ws[c] = "connecting" /\ ws' = [ws EXCEPT ![c] = "open"]
      /\ up' = [up EXCEPT ![c] = Greeting(c)] /\ serving' = serving \cup {c}
      /\ UNCHANGED <<screen, sessId, isController, banner, listed, entryWS, sessWS, down>>
      /\ UNCHANGED <<sessions, ids, killed, over, owner, attached, streams, owed, deskAt, deskOn>>
      /\ UNCHANGED <<job, cleanups, missed, events>>
  BY DEF Opened, page, registry, feeds, desk, jobs
<1>2. /\ c \in {entryWS, sessWS} /\ entryWS # sessWS /\ attached[c] = Nobody /\ job[c] = Idle
      /\ Nobody \notin Sids /\ Nobody \notin Sockets /\ (c = sessWS => screen = "session" /\ sessId \in Sids)
      /\ screen \in {"entry", "session"} /\ entryWS \in Sockets
      /\ isController \in BOOLEAN
      /\ ws \in [Sockets -> {"unused", "connecting", "open", "closed"}]
      /\ up \in [Sockets -> Seq(Requests)]
  BY <1>1, WebClientAssumption DEF WebTypeOK, InUse, Blank, Unopened
<1> DEFINE attach == [type |-> "attach", id |-> sessId]
           resize == [type |-> "resize", id |-> sessId]
<1>3. c = entryWS => Greeting(c) = <<[type |-> "list"]>>
  BY DEF Greeting
<1>4. c = sessWS => attach \in Requests /\ resize \in Requests
  BY <1>2, RequestShape
<1>5. attach.type = "attach" /\ attach.id = sessId /\ resize.type = "resize" /\ resize.id = sessId
  OBVIOUS
<1>5a. c = sessWS => Greeting(c) = <<attach>> \o IF isController THEN <<>> ELSE <<resize>>
  BY <1>2 DEF Greeting, sizeTerminal
<1> HIDE DEF attach, resize
<1>5b. <<attach>> \o <<>> = <<attach>> /\ <<attach>> \o <<resize>> = <<attach, resize>>
  BY OneAfterOne
<1>5c. /\ c = sessWS /\ isController => Greeting(c) = <<attach>>
       /\ c = sessWS /\ ~isController => Greeting(c) = <<attach, resize>>
  BY <1>5a, <1>5b
<1>6. Greeting(c) \in Seq(Requests)
  <2>0. /\ <<[type |-> "list"]>> \in Seq(Requests)
        /\ c = sessWS => <<attach>> \in Seq(Requests) /\ <<attach, resize>> \in Seq(Requests)
    <3>1. \A x \in Requests : <<x>> \in Seq(Requests) /\ \A y \in Requests : <<x, y>> \in Seq(Requests)
      BY Queues
    <3> QED
      BY <1>4, <3>1, RequestShape
  <2>1. CASE c = entryWS
    BY <1>3, <2>0, <2>1
  <2>2. CASE c = sessWS /\ isController
    BY <1>5c, <2>0, <2>2
  <2>3. CASE c = sessWS /\ ~isController
    BY <1>5c, <2>0, <2>3
  <2> QED
    BY <1>2, <2>1, <2>2, <2>3
<1>7. WebTypeOK'
  <2>1. up' \in [Sockets -> Seq(Requests)] /\ ws' \in [Sockets -> {"unused", "connecting", "open", "closed"}]
    BY <1>1, <1>2, <1>6
  <2>2. serving' \in SUBSET Sockets
    BY <1>1 DEF WebTypeOK
  <2> QED
    BY <1>1, <2>1, <2>2 DEF WebTypeOK
<1>8. Blank'
  BY <1>1, <1>2 DEF Blank, Unopened
<1>9. InUse'
  BY <1>1, <1>2 DEF InUse, Shown
<1>10. Known' /\ Streams'
  BY <1>1, <1>2, WebClientAssumption DEF Known, Streams
<1>11. CASE c = entryWS
  <2>1. sessWS # c /\ (screen = "session" => up'[sessWS] = up[sessWS] /\ ws'[sessWS] = ws[sessWS])
    BY <1>1, <1>2, <1>11 DEF WebTypeOK
  <2>2. Showing' <=> Showing
    BY <1>1, <2>1 DEF Showing
  <2>3. Showing => /\ WillTake' <=> WillTake
                   /\ AttachComes' <=> AttachComes
                   /\ \A t : Sends(t)' <=> Sends(t)
                   /\ \A t : Comes(t)' <=> Comes(t)
                   /\ BeingGreeted' <=> BeingGreeted
    BY <1>1, <2>1 DEF WillTake, AttachComes, Sends, Comes, BeingGreeted, Showing
  <2>4. OfSession'
    BY <1>1, <2>1, <2>2, <2>3 DEF OfSession, Showing
  <2>5. EndIsTold' /\ AsksForSize'
    BY <1>1, <2>2, <2>3 DEF EndIsTold, AsksForSize
  <2>6. Showing /\ Accounted => Accounted'
    BY <1>1, <2>3 DEF Accounted, WillPark
  <2>7. Renders'
    BY <1>1, <2>2, <2>3, <2>6 DEF Renders
  <2> QED
    BY <1>7, <1>8, <1>9, <1>10, <2>4, <2>5, <2>7
<1>12. CASE c = sessWS
  <2>1. up'[sessWS] = Greeting(c) /\ ws'[sessWS] = "open" /\ screen' = "session"
    BY <1>1, <1>2, <1>12
  <2>2. /\ up'[sessWS] # <<>> /\ up'[sessWS][1] = attach
        /\ \A i \in DOMAIN up'[sessWS] : i = 1 \/ up'[sessWS][i] = resize
        /\ ~isController => 2 \in DOMAIN up'[sessWS] /\ up'[sessWS][2] = resize
    BY <1>2, <1>4, <1>5c, <1>12, <2>1, Queues
  <2>3. AttachComes'
    BY <1>1, <1>5, <2>2 DEF AttachComes
  <2>4. OfSession'
    BY <1>1, <1>2, <1>5, <1>12, <2>2, <2>3 DEF OfSession
  <2>5. EndIsTold'
    BY <1>1, <1>2, <1>12 DEF EndIsTold, Streams
  <2>6. ~Sends("release")' /\ (~isController => Sends("resize")')
    BY <1>1, <1>5, <2>2 DEF Sends
  <2>7. AsksForSize' /\ Renders'
    BY <1>1, <2>3, <2>6 DEF AsksForSize, Renders
  <2> QED
    BY <1>7, <1>8, <1>9, <1>10, <2>4, <2>5, <2>7
<1> QED
  BY <1>2, <1>11, <1>12

\* A WebSocket is lost, with the last of what was sent on it.
LEMMA LostKeeps ==
    ASSUME WebInv, NEW c \in Sockets, Lost(c)
    PROVE  WebInv'
<1> USE DEF WebInv
<1>1. /\ ws' = [ws EXCEPT ![c] = "closed"] /\ down' = [down EXCEPT ![c] = <<>>] /\ banner' = TRUE
      /\ UNCHANGED <<screen, sessId, isController, listed, entryWS, sessWS>>
      /\ DaemonRests
      /\ events' = events + 1 /\ events < MaxEvents /\ ws[c] \in {"connecting", "open"}
  BY DEF Lost, Happens, daemon, registry, feeds, desk, jobs, DaemonRests
<1>2. PICK n \in 0 .. Len(up[c]) : up' = [up EXCEPT ![c] = SubSeq(@, 1, n)]
  BY DEF Lost
<1>3. /\ up \in [Sockets -> Seq(Requests)] /\ down \in [Sockets -> Seq(Frames)]
      /\ ws \in [Sockets -> {"unused", "connecting", "open", "closed"}]
      /\ events \in 0 .. MaxEvents /\ MaxEvents \in Nat /\ (screen = "session" => sessWS \in Sockets)
  BY WebClientAssumption DEF WebTypeOK
<1>4. /\ SubSeq(up[c], 1, n) \in Seq(Requests)
      /\ \A i \in DOMAIN SubSeq(up[c], 1, n) :
            i \in DOMAIN up[c] /\ SubSeq(up[c], 1, n)[i] = up[c][i] /\ 1 \in DOMAIN SubSeq(up[c], 1, n)
      /\ up[c] = <<>> => SubSeq(up[c], 1, n) = <<>>
  <2>1. up[c] \in Seq(Requests) /\ n \in 0 .. Len(up[c])
    BY <1>3
  <2> QED
    BY <2>1
<1>5. WebTypeOK'
  <2>1. up' \in [Sockets -> Seq(Requests)] /\ ws' \in [Sockets -> {"unused", "connecting", "open", "closed"}]
    BY <1>1, <1>2, <1>3, <1>4
  <2>2. down' \in [Sockets -> Seq(Frames)]
    BY <1>1, <1>3, Queues
  <2>3. events' \in 0 .. MaxEvents
    BY <1>1, <1>3
  <2> QED
    BY <1>1, <2>1, <2>2, <2>3 DEF WebTypeOK, DaemonRests
<1>6. Blank' /\ InUse' /\ Streams'
  BY <1>1, <1>2, <1>3, <1>4 DEF Blank, Unopened, InUse, Shown, Streams, DaemonRests
<1>7. Known'
  <2>1. \A x \in Sockets : down'[x] = down[x] \/ DOMAIN down'[x] = {}
    BY <1>1, <1>3, Queues
  <2> QED
    BY <1>1, <2>1 DEF Known, DaemonRests
<1>8. Showing' => Showing /\ sessWS # c /\ up'[sessWS] = up[sessWS] /\ down'[sessWS] = down[sessWS]
  BY <1>1, <1>2, <1>3 DEF Showing
<1>9. Showing' => /\ WillTake' <=> WillTake
                  /\ AttachComes' <=> AttachComes
                  /\ \A t : Sends(t)' <=> Sends(t)
                  /\ \A t : Comes(t)' <=> Comes(t)
                  /\ BeingGreeted' <=> BeingGreeted
  BY <1>1, <1>8 DEF WillTake, AttachComes, Sends, Comes, BeingGreeted, DaemonRests
<1>10. OfSession'
  BY <1>1, <1>8, <1>9 DEF OfSession, DaemonRests
<1>11. EndIsTold' /\ AsksForSize'
  BY <1>1, <1>8, <1>9 DEF EndIsTold, AsksForSize, DaemonRests
<1>12. Showing' /\ Accounted => Accounted'
  BY <1>1, <1>9 DEF Accounted, WillPark, DaemonRests
<1>13. Renders'
  BY <1>1, <1>8, <1>9, <1>12 DEF Renders, DaemonRests
<1> QED
  BY <1>5, <1>6, <1>7, <1>10, <1>11, <1>13

\* What every tap that sends requests has in common.
LEMMA SentTypes ==
    ASSUME WebInv, NEW c \in Sockets, NEW q \in Seq(Requests), up' = Sent(c, q), Tap,
           UNCHANGED <<screen, sessId, banner, listed, entryWS, sessWS, ws, down>>, isController' \in BOOLEAN
    PROVE  /\ WebTypeOK' /\ Blank' /\ InUse' /\ Known' /\ Streams' /\ DaemonRests
           /\ \A x \in Sockets \ {c} : up'[x] = up[x]
           /\ ws[c] # "open" => up' = up
           /\ ws[c] = "open" => up'[c] = up[c] \o q
<1> USE DEF WebInv
<1>1. up' \in [Sockets -> Seq(Requests)] /\ \A x \in Sockets : Unopened(x) => up'[x] = up[x]
  BY SentGoes
<1>2. /\ \A x \in Sockets \ {c} : up'[x] = up[x]
      /\ ws[c] # "open" => up' = up
      /\ ws[c] = "open" => up'[c] = up[c] \o q
  BY SentGoes DEF Sent
<1>3. DaemonRests /\ events' \in 0 .. MaxEvents
  BY WebClientAssumption DEF Tap, Happens, daemon, registry, feeds, desk, jobs, DaemonRests, WebTypeOK
<1>4. WebTypeOK'
  BY <1>1, <1>3 DEF WebTypeOK, DaemonRests
<1>5. Blank'
  BY <1>1, <1>3 DEF Blank, Unopened, DaemonRests
<1>6. InUse' /\ Known' /\ Streams'
  BY <1>3 DEF InUse, Known, Shown, Streams, DaemonRests
<1> QED
  BY <1>1, <1>2, <1>3, <1>4, <1>5, <1>6

\* A tap on the list: no session is shown.
LEMMA ListTapsKeep ==
    ASSUME WebInv, TapNew \/ TapRefresh \/ \E s \in Sids : TapKill(s)
    PROVE  WebInv'
<1> USE DEF WebInv
<1>1. PICK q \in Seq(Requests) : TapOnList(q)
  <2>1. CASE TapNew
    BY <2>1, Queues, RequestShape DEF TapNew
  <2>2. CASE TapRefresh
    BY <2>2, Queues, RequestShape DEF TapRefresh
  <2>3. CASE \E s \in Sids : TapKill(s)
    <3>1. PICK s \in Sids : TapKill(s)
      BY <2>3
    <3>2. \A x, y \in Requests : <<x, y>> \in Seq(Requests)
      BY Queues
    <3>3. <<[type |-> "kill", id |-> s], [type |-> "list"]>> \in Seq(Requests)
      BY <3>2, RequestShape
    <3> QED
      BY <3>1, <3>3 DEF TapKill
  <2> QED
    BY <2>1, <2>2, <2>3
<1>2. /\ Tap /\ screen = "entry" /\ up' = Sent(entryWS, q)
      /\ UNCHANGED <<screen, sessId, banner, listed, entryWS, sessWS, ws, down, isController>>
      /\ entryWS \in Sockets /\ isController' \in BOOLEAN
  BY <1>1 DEF TapOnList, page, WebTypeOK
<1>3. WebTypeOK' /\ Blank' /\ InUse' /\ Known' /\ Streams'
  BY <1>2, SentTypes
<1>4. ~Showing'
  BY <1>2 DEF Showing
<1> QED
  BY <1>3, <1>4 DEF OfSession, EndIsTold, AsksForSize, Renders

\* A tap on the terminal sends requests of its session, and nothing of it was lost.
LEMMA SessionTap ==
    ASSUME WebInv, screen = "session", NEW q \in Seq(Requests), up' = Sent(sessWS, q), Tap,
           UNCHANGED <<screen, sessId, banner, listed, entryWS, sessWS, ws, down>>, isController' \in BOOLEAN,
           \A i \in DOMAIN q : q[i].type \in {"resize", "take", "release"} /\ q[i].id = sessId,
           Showing => AsksForSize' /\ Renders'
    PROVE  WebInv'
<1> USE DEF WebInv
<1>1. sessWS \in Sockets
  BY DEF WebTypeOK
<1>2. /\ WebTypeOK' /\ Blank' /\ InUse' /\ Known' /\ Streams' /\ DaemonRests
      /\ ws[sessWS] = "open" => up'[sessWS] = up[sessWS] \o q
  BY <1>1, SentTypes
<1>3. CASE ws[sessWS] # "open"
  <2>1. ~Showing'
    BY <1>3 DEF Showing
  <2> QED
    BY <1>2, <2>1 DEF OfSession, EndIsTold, AsksForSize, Renders
<1>4. CASE ws[sessWS] = "open"
  <2>1. up[sessWS] \in Seq(Requests) /\ up'[sessWS] = up[sessWS] \o q
    BY <1>1, <1>2, <1>4 DEF WebTypeOK
  <2>2. /\ \A i \in DOMAIN up[sessWS] :
              i \in DOMAIN up'[sessWS] /\ up'[sessWS][i] = up[sessWS][i] /\ 1 \in DOMAIN up[sessWS]
        /\ \A i \in DOMAIN up'[sessWS] :
              i \in DOMAIN up[sessWS] \/ (i - Len(up[sessWS]) \in DOMAIN q /\ up'[sessWS][i] = q[i - Len(up[sessWS])])
    BY <2>1, QueuesJoin
  <2>3. Showing
    BY <1>4 DEF Showing
  <2>4. ASSUME NEW i \in DOMAIN up'[sessWS]
        PROVE  /\ up'[sessWS][i].type \in {"attach", "resize", "take", "release"}
               /\ up'[sessWS][i].id = sessId
               /\ up'[sessWS][i].type = "attach" <=> i = 1 /\ up'[sessWS][1].type = "attach"
    <3>1. CASE i \in DOMAIN up[sessWS]
      BY <2>2, <2>3, <3>1 DEF OfSession
    <3>2. CASE i - Len(up[sessWS]) \in DOMAIN q /\ up'[sessWS][i] = q[i - Len(up[sessWS])]
      BY <3>2
    <3> QED
      BY <2>2, <3>1, <3>2
  <2>5. AttachComes => AttachComes'
    <3>1. AttachComes => 1 \in DOMAIN up[sessWS]
      BY <2>1, QueueShrinks DEF AttachComes
    <3>2. AttachComes => up'[sessWS][1].type = "attach" /\ 1 \in DOMAIN up'[sessWS]
      BY <2>2, <3>1 DEF AttachComes
    <3> QED
      BY <3>2, Queues DEF AttachComes
  <2>6. OfSession'
    BY <1>2, <2>3, <2>4, <2>5 DEF OfSession, DaemonRests
  <2>7. EndIsTold'
    BY <1>2, <2>3 DEF EndIsTold, Comes, DaemonRests
  <2> QED
    BY <1>2, <2>3, <2>6, <2>7
<1> QED
  BY <1>3, <1>4

LEMMA SessionTapsKeep ==
    ASSUME WebInv, TapMode \/ ResizeWindow
    PROVE  WebInv'
<1> USE DEF WebInv
<1> DEFINE take == [type |-> "take", id |-> sessId]
           release == [type |-> "release", id |-> sessId]
           resize == [type |-> "resize", id |-> sessId]
           q == IF TapMode THEN IF isController THEN <<take, resize>> ELSE <<release>> ELSE <<resize>>
<1>1. /\ screen = "session" /\ Tap
      /\ UNCHANGED <<screen, sessId, banner, listed, entryWS, sessWS, ws, down>>
      /\ isController \in BOOLEAN /\ isController' \in BOOLEAN
      /\ isController' = (IF TapMode THEN ~isController ELSE isController)
      /\ ~TapMode => ~isController
  BY DEF TapMode, ResizeWindow, page, WebTypeOK
<1>2. sessId \in Sids /\ sessWS \in Sockets
  BY <1>1 DEF WebTypeOK
<1>3. take \in Requests /\ release \in Requests /\ resize \in Requests
  BY <1>2, RequestShape
<1>4. /\ take.type = "take" /\ take.id = sessId /\ release.type = "release" /\ release.id = sessId
      /\ resize.type = "resize" /\ resize.id = sessId
  OBVIOUS
<1>5. up' = Sent(sessWS, q)
  <2>1. CASE TapMode /\ isController
    BY <2>1, OneAfterOne DEF TapMode, Toggle, sizeTerminal
  <2>2. CASE TapMode /\ ~isController
    BY <2>2, OneAfterOne DEF TapMode, Toggle, sizeTerminal
  <2>3. CASE ~TapMode
    BY <1>1, <2>3 DEF ResizeWindow, sizeTerminal
  <2> QED
    BY <1>1, <2>1, <2>2, <2>3
<1> HIDE DEF take, release, resize
<1>6. q \in Seq(Requests) /\ \A i \in DOMAIN q : q[i].type \in {"resize", "take", "release"} /\ q[i].id = sessId
  <2>1. /\ \A x \in Requests : <<x>> \in Seq(Requests) /\ DOMAIN <<x>> = {1} /\ <<x>>[1] = x
        /\ \A x, y \in Requests : /\ <<x, y>> \in Seq(Requests) /\ DOMAIN <<x, y>> = {1, 2}
                                  /\ <<x, y>>[1] = x /\ <<x, y>>[2] = y
    BY Queues
  <2>2. CASE TapMode /\ isController
    BY <1>3, <1>4, <2>1, <2>2
  <2>3. CASE TapMode /\ ~isController
    BY <1>3, <1>4, <2>1, <2>3
  <2>4. CASE ~TapMode
    BY <1>3, <1>4, <2>1, <2>4
  <2> QED
    BY <1>1, <2>2, <2>3, <2>4
<1>7. (TapMode /\ isController => q = <<take, resize>>) /\ (~TapMode => q = <<resize>>)
  OBVIOUS
<1> HIDE DEF q
<1>8. ASSUME Showing PROVE AsksForSize' /\ Renders'
  <2> SUFFICES ASSUME ~isController'
               PROVE  /\ WillTake' \/ (~Sends("release")' /\ (AttachComes' \/ BeingGreeted' => Sends("resize")'))
                      /\ sessId \in sessions' \ over' /\ sessWS \notin missed' =>
                            WillTake' \/ AttachComes' \/ Accounted'
    BY <1>1 DEF AsksForSize, Renders
  <2>1. ws[sessWS] = "open" /\ Showing
    BY <1>8 DEF Showing
  <2>2. up'[sessWS] = up[sessWS] \o q /\ DaemonRests
    BY <1>1, <1>2, <1>5, <1>6, <2>1, SentTypes
  <2>3. up[sessWS] \in Seq(Requests)
    BY <1>2 DEF WebTypeOK
  <2> DEFINE n == Len(up[sessWS])
  <2>4. /\ n \in Nat /\ Len(up'[sessWS]) = n + Len(q)
        /\ \A i \in DOMAIN up[sessWS] : i \in DOMAIN up'[sessWS] /\ up'[sessWS][i] = up[sessWS][i]
        /\ \A i \in DOMAIN q : n + i \in DOMAIN up'[sessWS] /\ up'[sessWS][n + i] = q[i]
        /\ \A i \in DOMAIN up'[sessWS] :
              i \in DOMAIN up[sessWS] \/ (i - n \in DOMAIN q /\ up'[sessWS][i] = q[i - n])
        /\ DOMAIN up[sessWS] = 1 .. n /\ DOMAIN up'[sessWS] = 1 .. Len(up'[sessWS])
    <3>1. up'[sessWS] \in Seq(Requests)
      BY <1>6, <2>2, <2>3, QueuesJoin
    <3>2. /\ n \in Nat /\ Len(up'[sessWS]) = n + Len(q)
          /\ \A i \in DOMAIN up[sessWS] : i \in DOMAIN up'[sessWS] /\ up'[sessWS][i] = up[sessWS][i]
      BY <1>6, <2>2, <2>3, QueuesJoin
    <3>3. \A i \in DOMAIN q : n + i \in DOMAIN up'[sessWS] /\ up'[sessWS][n + i] = q[i]
      BY <1>6, <2>2, <2>3, QueuesJoin
    <3>4. \A i \in DOMAIN up'[sessWS] :
             i \in DOMAIN up[sessWS] \/ (i - n \in DOMAIN q /\ up'[sessWS][i] = q[i - n])
      BY <1>6, <2>2, <2>3, QueuesJoin
    <3>5. DOMAIN up[sessWS] = 1 .. n /\ DOMAIN up'[sessWS] = 1 .. Len(up'[sessWS])
      BY <2>3, <3>1
    <3> QED
      BY <3>2, <3>3, <3>4, <3>5
  <2>5. CASE TapMode
    <3>1. isController /\ q = <<take, resize>>
      BY <1>1, <1>7, <2>5
    <3>2. DOMAIN q = {1, 2} /\ q[1] = take /\ q[2] = resize /\ Len(q) = 2
      BY <1>3, <3>1, Queues
    <3>3. up'[sessWS][n + 1] = take /\ up'[sessWS][n + 2] = resize /\ Len(up'[sessWS]) = n + 2 /\ n + 1 \in DOMAIN up'[sessWS]
      BY <2>4, <3>2
    <3>4. up'[sessWS][n + 1].type = "take" /\ \A j \in n + 1 + 1 .. Len(up'[sessWS]) : up'[sessWS][j].type # "release"
      <4>1. \A j \in n + 1 + 1 .. Len(up'[sessWS]) : j = n + 2
        BY <2>4, <3>3
      <4> QED
        BY <1>4, <3>3, <4>1
    <3>5. WillTake'
      BY <1>1, <3>3, <3>4 DEF WillTake
    <3> QED
      BY <3>5
  <2>6. CASE ~TapMode
    <3>1. ~isController /\ q = <<resize>>
      BY <1>1, <1>7, <2>6
    <3>2. DOMAIN q = {1} /\ q[1] = resize
      BY <1>3, <3>1, Queues
    <3>3. /\ \A i \in DOMAIN up'[sessWS] : i \in DOMAIN up[sessWS] \/ up'[sessWS][i].type = "resize"
          /\ n + 1 \in DOMAIN up'[sessWS] /\ up'[sessWS][n + 1].type = "resize"
      BY <1>4, <2>4, <3>2
    <3>4. Comes("parked") => Comes("parked")'
      BY <1>1 DEF Comes
    <3>5. Sends("resize")'
      BY <1>1, <3>3 DEF Sends
    <3>6. Sends("release")' => Sends("release")
      BY <1>1, <2>4, <3>3 DEF Sends
    <3>7. WillTake => WillTake'
      <4> SUFFICES ASSUME NEW i \in DOMAIN up[sessWS], up[sessWS][i].type = "take",
                          \A j \in i + 1 .. Len(up[sessWS]) : up[sessWS][j].type # "release"
                   PROVE  WillTake'
        BY DEF WillTake
      <4>1. i \in DOMAIN up'[sessWS] /\ up'[sessWS][i].type = "take"
        BY <2>4
      <4>2. ASSUME NEW j \in i + 1 .. Len(up'[sessWS]) PROVE up'[sessWS][j].type # "release"
        <5>1. i \in Nat /\ i >= 1 /\ Len(up'[sessWS]) \in Nat
          BY <2>4, <3>2, <2>3
        <5>2. j \in DOMAIN up'[sessWS]
          BY <2>4, <5>1
        <5>3. j \in DOMAIN up[sessWS] => j \in i + 1 .. Len(up[sessWS])
          BY <2>4, <5>1
        <5> QED
          BY <2>4, <3>3, <5>2, <5>3
      <4> QED
        BY <1>1, <4>1, <4>2 DEF WillTake
    <3>8. AttachComes => AttachComes'
      <4>1. AttachComes => 1 \in DOMAIN up[sessWS]
        BY <2>3, QueueShrinks DEF AttachComes
      <4>2. AttachComes => 1 \in DOMAIN up'[sessWS] /\ up'[sessWS][1].type = "attach"
        BY <2>4, <4>1 DEF AttachComes
      <4> QED
        BY <1>1, <4>2, Queues DEF AttachComes
    <3>9. Accounted => Accounted'
      BY <1>1, <2>2, <3>4, <3>5 DEF Accounted, WillPark, BeingGreeted, DaemonRests
    <3>10. WillTake \/ ~Sends("release")
      BY <2>1, <3>1 DEF AsksForSize
    <3>11. sessId \in sessions \ over /\ sessWS \notin missed => WillTake \/ AttachComes \/ Accounted
      BY <2>1, <3>1 DEF Renders
    <3> QED
      BY <1>1, <2>2, <3>5, <3>6, <3>7, <3>8, <3>9, <3>10, <3>11 DEF DaemonRests
  <2> QED
    BY <2>5, <2>6
<1> QED
  BY <1>1, <1>5, <1>6, <1>8, SessionTap


--------------------------------------------------------------------------------

\* No step of the page, of a handler or of a goroutine leaves the invariant.
LEMMA WebAtFirst == WebInit => WebInv
<1> SUFFICES ASSUME WebInit PROVE WebInv
  OBVIOUS
<1> USE DEF WebInit
<1>1. \A c \in Sockets : DOMAIN up[c] = {} /\ DOMAIN down[c] = {} /\ up[c] \in Seq(Requests) /\ down[c] \in Seq(Frames)
  BY Queues
<1>2. WebTypeOK
  <2>1. up \in [Sockets -> Seq(Requests)] /\ down \in [Sockets -> Seq(Frames)]
    BY <1>1
  <2>2. owner \in [Sids -> Owners] /\ deskAt \in Sids \cup {Nobody}
    BY DEF Owners, Handlers
  <2>3. ws \in [Sockets -> {"unused", "connecting", "open", "closed"}]
    OBVIOUS
  <2>4. job \in [Handlers -> Jobs] /\ cleanups \in [Handlers -> SUBSET Sids]
    BY JobShape
  <2> QED
    BY <2>1, <2>2, <2>3, <2>4, WebClientAssumption DEF WebTypeOK
<1>3. Blank /\ InUse /\ Streams
  BY WebClientAssumption DEF Blank, Unopened, InUse, Shown, Streams, Handlers
<1>4. Known
  BY <1>1, WebClientAssumption, JobShape DEF Known, Handlers
<1>5. ~Showing
  BY DEF Showing
<1> QED
  BY <1>2, <1>3, <1>4, <1>5 DEF WebInv, OfSession, EndIsTold, AsksForSize, Renders

LEMMA WebStutters == WebInv /\ UNCHANGED webVars => WebInv'
<1> SUFFICES ASSUME WebInv, UNCHANGED webVars PROVE WebInv'
  OBVIOUS
<1>1. UNCHANGED <<screen, sessId, isController, banner, listed, entryWS, sessWS, ws, up, down, events>>
  BY DEF webVars, page, queues
<1>2. UNCHANGED <<serving, sessions, ids, killed, over, owner, attached, streams, owed, deskAt, deskOn,
                  job, cleanups, missed>>
  BY DEF webVars, daemon, registry, feeds, desk, jobs
<1>3. WebTypeOK'
  BY <1>1, <1>2 DEF WebInv, WebTypeOK
<1>4. Streams' /\ PageRests
  BY <1>1, <1>2 DEF WebInv, Streams, PageRests, page
<1> QED
  BY <1>1, <1>2, <1>3, <1>4, Silent, Elsewhere DEF WebInv, EndIsTold

LEMMA WebInductive == WebInv /\ [WebNext]_webVars => WebInv'
<1> SUFFICES ASSUME WebInv, [WebNext]_webVars PROVE WebInv'
  OBVIOUS
<1>1. ASSUME NEW s \in Sids,
             \/ TapSession(s) \/ TapKill(s) \/ DeskTakes(s) \/ DeskSubscribes(s)
             \/ SessionEnds(s) \/ Unregister(s)
      PROVE  WebInv'
  BY <1>1, MovingKeeps, ListTapsKeep, DeskKeeps, SessionEndsKeeps, UnregisterKeeps
<1>2. CASE \/ DeskLeaves \/ DeskUnsubscribes
           \/ TapNew \/ TapRefresh \/ TapReconnect \/ TapMode \/ ResizeWindow \/ TapBack
  BY <1>2, DeskKeeps, ListTapsKeep, MovingKeeps, SessionTapsKeep
<1>3. CASE ListArrives \/ CreatedArrives \/ ErrorArrives \/ EndArrives \/ FlagArrives
  BY <1>3, FrameKeeps, MovingKeeps
<1>4. ASSUME NEW c \in Sockets,
             Opened(c) \/ Lost(c) \/ Dropped(c) \/ Subscribes(c) \/ Unsubscribes(c) \/ Notice(c)
      PROVE  WebInv'
  BY <1>4, OpenedKeeps, LostKeeps, DroppedKeeps, StreamKeeps, NoticeKeeps
<1>5. ASSUME NEW c \in Sockets, ServeList(c) \/ ServeNew(c) \/ Start(c) \/ ServeKill(c) \/ Forget(c)
      PROVE  WebInv'
  BY <1>5, ServeListKeeps, ServeNewKeeps, ServeKillKeeps, StartKeeps
<1>6. ASSUME NEW c \in Sockets,
             \/ ServeAttach(c) \/ Greet(c) \/ ServeResize(c) \/ Claim(c)
             \/ ServeTake(c) \/ ServeRelease(c)
      PROVE  WebInv'
  BY <1>6, ServeAttachKeeps, GreetKeeps, ServeResizeKeeps, ClaimKeeps, ServeTakeKeeps, ServeReleaseKeeps
<1>7. ASSUME NEW a \in Handlers, LookUpOwner(a) \/ LookUpSubs(a) \/ WriteFlag(a) \/ CleanUp(a)
      PROVE  WebInv'
  BY <1>7, LookUpOwnerKeeps, LookUpSubsKeeps, WriteFlagKeeps, CleanUpKeeps
<1>8. CASE UNCHANGED webVars
  BY <1>8, WebStutters
<1> QED
  BY <1>1, <1>2, <1>3, <1>4, <1>5, <1>6, <1>7, <1>8 DEF WebNext

\* In every state of page and daemon: types, what is on its way on the WebSocket of
\* the session shown, in which order, and what the daemon's handlers and stream
\* goroutines are about to do with it (app.js, webtty.go, daemon.go).
THEOREM WebCorrect == WebSpec => []WebInv
BY WebAtFirst, WebInductive, PTL DEF WebSpec

LEMMA ShownOwnsSize == WebInv => TerminalOwnsSize
<1> SUFFICES ASSUME WebInv, screen = "session", Settled(sessWS), ~isController,
                    sessId \in sessions \ over, sessWS \notin missed,
                    \A a \in Handlers : job[a].id # sessId
             PROVE  owner[sessId] = sessWS
  BY DEF TerminalOwnsSize
<1>1. Showing /\ up[sessWS] = <<>> /\ DOMAIN up[sessWS] = {} /\ DOMAIN down[sessWS] = {}
  BY Queues DEF Settled, Showing
<1>2. ~WillTake /\ ~Comes("parked") /\ ~Sends("resize") /\ ~AttachComes
  BY <1>1 DEF WillTake, Comes, Sends, AttachComes
<1>3. \A a \in Handlers : ~WillPark(job[a])
  BY DEF WillPark
<1>4. job[sessWS] = Idle
  BY <1>1 DEF WebInv, WebTypeOK, OfSession, Showing, Handlers
<1> QED
  BY <1>1, <1>2, <1>3, <1>4, JobShape DEF WebInv, Renders, Accounted, BeingGreeted

LEMMA ShownIsFed == WebInv => NeverStranded
<1> SUFFICES ASSUME WebInv PROVE NeverStranded
  OBVIOUS
<1>1. ws[Shown] = "closed" => banner
  BY DEF WebInv, InUse
<1>2. ASSUME screen = "session", Settled(sessWS), sessWS \notin owed, streams[sessWS] \in {"live", "drained"}
      PROVE  sessId \notin over
  <2>1. Showing /\ DOMAIN down[sessWS] = {} /\ sessWS \in Sockets
    BY <1>2, Queues DEF Settled, Showing, WebInv, WebTypeOK
  <2>2. streams[sessWS] = "live"
    BY <1>2, <2>1 DEF WebInv, EndIsTold, Comes
  <2>3. attached[sessWS] # Nobody /\ attached[sessWS] \notin over
    BY <2>1, <2>2 DEF WebInv, Streams
  <2> QED
    BY <2>1, <2>3 DEF WebInv, OfSession
<1> QED
  BY <1>1, <1>2 DEF NeverStranded

\* A page that renders a running session owns its size once everything about it is
\* through, after any reconnection and any race with the desk, unless a broadcast
\* missed it (onSessionFrame, btn-mode, reattach; daemon.go handleConn).
THEOREM TerminalRendersRight == WebSpec => []TerminalOwnsSize
BY WebCorrect, ShownOwnsSize, PTL

\* The screen shown is fed, or the banner says that it is not, or the end of a session
\* that it subscribed to is on its way (connect, entryConnect, reattach,
\* onSessionFrame, handleSessionExit).
THEOREM PageNeverStranded == WebSpec => []NeverStranded
BY WebCorrect, ShownIsFed, PTL

--------------------------------------------------------------------------------
(* The run checks both at once: each moves alone.                               *)

LEMMA OneAtATime ==
    [SizesAndWebNext]_sizesAndWebVars => [HistoryNext]_<<vars, history>> /\ [WebNext]_webVars
<1> SUFFICES ASSUME [SizesAndWebNext]_sizesAndWebVars
             PROVE  [HistoryNext]_<<vars, history>> /\ [WebNext]_webVars
  OBVIOUS
<1>1. CASE UNCHANGED sizesAndWebVars
  BY <1>1 DEF sizesAndWebVars
<1>2. CASE topic = "sizes" /\ HistoryNext /\ UNCHANGED <<topic, webVars>>
  BY <1>2
<1>3. ASSUME NEW s \in Sids,
             \/ WebDoes(TapSession(s)) \/ WebDoes(TapKill(s))
             \/ WebDoes(DeskTakes(s)) \/ WebDoes(DeskSubscribes(s))
             \/ WebDoes(SessionEnds(s)) \/ WebDoes(Unregister(s))
      PROVE  WebDoes(WebNext)
  BY <1>3 DEF WebDoes, WebNext
<1>4. ASSUME \/ WebDoes(DeskLeaves) \/ WebDoes(DeskUnsubscribes)
             \/ WebDoes(TapNew) \/ WebDoes(TapRefresh) \/ WebDoes(TapReconnect)
             \/ WebDoes(TapMode) \/ WebDoes(ResizeWindow) \/ WebDoes(TapBack)
             \/ WebDoes(ListArrives) \/ WebDoes(CreatedArrives) \/ WebDoes(ErrorArrives)
             \/ WebDoes(EndArrives) \/ WebDoes(FlagArrives)
      PROVE  WebDoes(WebNext)
  BY <1>4 DEF WebDoes, WebNext
<1>5. ASSUME NEW c \in Sockets,
             \/ WebDoes(Opened(c)) \/ WebDoes(Lost(c)) \/ WebDoes(Dropped(c))
             \/ WebDoes(Subscribes(c)) \/ WebDoes(Unsubscribes(c)) \/ WebDoes(Notice(c))
             \/ WebDoes(ServeList(c)) \/ WebDoes(ServeNew(c)) \/ WebDoes(Start(c))
             \/ WebDoes(ServeKill(c)) \/ WebDoes(Forget(c)) \/ WebDoes(ServeAttach(c))
             \/ WebDoes(Greet(c)) \/ WebDoes(ServeResize(c)) \/ WebDoes(Claim(c))
             \/ WebDoes(ServeTake(c)) \/ WebDoes(ServeRelease(c))
      PROVE  WebDoes(WebNext)
  BY <1>5 DEF WebDoes, WebNext
<1>6. ASSUME NEW a \in Handlers,
             \/ WebDoes(LookUpOwner(a)) \/ WebDoes(LookUpSubs(a)) \/ WebDoes(WriteFlag(a))
             \/ WebDoes(CleanUp(a))
      PROVE  WebDoes(WebNext)
  BY <1>6 DEF WebDoes, WebNext
<1>7. CASE WebDoes(WebNext)
  BY <1>7 DEF WebDoes
<1>8. CASE topic = "web" /\ UNCHANGED sizesAndWebVars
  BY <1>8 DEF sizesAndWebVars
<1> QED
  BY <1>1, <1>2, <1>3, <1>4, <1>5, <1>6, <1>7, <1>8 DEF SizesAndWebNext

\* The specification that the run checks is each of the two (the topic only says
\* which of them moves), so what is proved of one is proved of the run.
THEOREM SizesAndWebIsEach == SizesAndWebSpec => HistorySpec /\ WebSpec
<1>1. SizesAndWebInit => HistoryInit /\ WebInit
  BY DEF SizesAndWebInit
<1> QED
  BY <1>1, OneAtATime, PTL DEF SizesAndWebSpec, HistorySpec, WebSpec

\* The values of both are what their code can give them.
THEOREM SizesAndWebTypes == SizesAndWebSpec => []SizesAndWebTypeOK
<1>1. HistoryTypeOK /\ WebInv => SizesAndWebTypeOK
  BY DEF SizesAndWebTypeOK, WebInv
<1> QED
  BY <1>1, SizesAndWebIsEach, TypeCorrect, WebCorrect, PTL
================================================================================
