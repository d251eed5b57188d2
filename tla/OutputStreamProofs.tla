--------------------------- MODULE OutputStreamProofs ---------------------------
(* What holds of the way of the output for any number of clients, any buffer and *)
(* socket sizes and any amount of output: the daemon keeps OutputPromise, the     *)
(* view's goroutines stay in step, and a replay shows a client of any height what *)
(* the session's terminal shows.                                                  *)
EXTENDS MCOutputStream, SequenceTheorems, FiniteSetTheorems, NaturalsInduction,
        WellFoundedInduction, TLAPS

LEMMA Numbers == Chunks \subseteq Nat /\ Items \subseteq Nat /\ Replay \notin Chunks
BY OutputAssumption DEF OutputAssumption, Chunks, Items, Replay

\* The invariant holds initially.
LEMMA StreamInit == Init => StreamInv
<1> SUFFICES ASSUME Init PROVE StreamInv
  OBVIOUS
<1>1. emitted \in 0 .. MaxChunks /\ written \in 0 .. emitted
  BY OutputAssumption DEF Init, OutputAssumption
<1>2. joined \in [Conns -> 0 .. MaxChunks \cup {NotYet}]
  BY DEF Init
<1>3. TypeOK
  BY <1>1, <1>2 DEF Init, TypeOK
<1>4. Stages /\ Kept /\ Ordered /\ AstrayLast
  BY DEF Init, Stages, Kept, OnTheWay, Ordered, InOrder, AstrayLast, Before,
     Astray
<1> QED
  BY <1>3, <1>4 DEF StreamInv

\* No step leaves the types.
LEMMA TypingStep == TypeOK /\ [Next]_vars => TypeOK'
<1> SUFFICES ASSUME TypeOK, [Next]_vars PROVE TypeOK'
  OBVIOUS
<1> USE OutputAssumption DEF OutputAssumption, TypeOK, Chunks, Items, NotYet, Replay,
   loopVars, exitVars, streamVars, clientVars
<1>1. CASE Emit
  BY <1>1 DEF Emit
<1>2. CASE ProcessExits
  BY <1>2 DEF ProcessExits
<1>3. CASE Killed
  <2>1. emitted' \in 0 .. MaxChunks /\ written' \in 0 .. emitted'
    BY <1>3 DEF Killed
  <2> QED
    BY <1>3, <2>1 DEF Killed
<1>4. CASE HandleOutput
  BY <1>4 DEF HandleOutput, Fits
<1>5. CASE HandleExit
  BY <1>5 DEF HandleExit
<1>6. ASSUME NEW c \in Conns, NextWriter(c) PROVE TypeOK'
  BY <1>6 DEF NextWriter
<1>7. ASSUME NEW c \in Conns, TellEnd(c) PROVE TypeOK'
  BY <1>7 DEF TellEnd
<1>8. CASE ToldAll
  BY <1>8 DEF ToldAll
<1>9. ASSUME NEW c \in Conns, Subscribe(c) PROVE TypeOK'
  BY <1>9 DEF Subscribe, Snapshot
<1>10. ASSUME NEW c \in Conns, SubscribeLate(c) PROVE TypeOK'
  BY <1>10 DEF SubscribeLate
<1>11. ASSUME NEW c \in Conns, NEW i \in Chunks, TakeChunk(c, i) PROVE TypeOK'
  BY <1>11 DEF TakeChunk, Least
<1>12. ASSUME NEW c \in Conns, WriteFrame(c) PROVE TypeOK'
  BY <1>12 DEF WriteFrame
<1>13. ASSUME NEW c \in Conns, WriteFails(c) PROVE TypeOK'
  BY <1>13 DEF WriteFails
<1>14. ASSUME NEW c \in Conns, StreamEnds(c) PROVE TypeOK'
  BY <1>14 DEF StreamEnds
<1>15. ASSUME NEW c \in Conns, ReadNotice(c) PROVE TypeOK'
  BY <1>15 DEF ReadNotice
<1>16. ASSUME NEW c \in Conns, NEW i \in Items, ReadOutput(c, i) PROVE TypeOK'
  BY <1>16 DEF ReadOutput, Least
<1>17. ASSUME NEW c \in Conns, Stall(c) PROVE TypeOK'
  BY <1>17 DEF Stall
<1>18. ASSUME NEW c \in Conns, HangUp(c) PROVE TypeOK'
  BY <1>18 DEF HangUp
<1>19. CASE UNCHANGED vars
  BY <1>19 DEF vars
<1> HIDE DEF OutputAssumption, TypeOK, Chunks, Items, NotYet, Replay, loopVars,
   exitVars, streamVars, clientVars
<1> QED
  BY <1>1, <1>2, <1>3, <1>4, <1>5, <1>6, <1>7, <1>8, <1>9, <1>10, <1>11, <1>12, <1>13,
     <1>14, <1>15, <1>16, <1>17, <1>18, <1>19 DEF Next, LoopStep, StreamStep,
     ClientReads

\* The goroutines stay in step.
LEMMA StagesStep == TypeOK /\ Stages /\ [Next]_vars => Stages'
<1> SUFFICES ASSUME TypeOK, Stages, [Next]_vars PROVE Stages'
  OBVIOUS
<1> USE OutputAssumption DEF OutputAssumption, TypeOK, Stages, NotYet, loopVars,
   exitVars, streamVars, clientVars
<1>1. CASE HandleExit
  BY <1>1 DEF HandleExit
<1>2. ASSUME NEW c \in Conns, NextWriter(c) PROVE Stages'
  BY <1>2 DEF NextWriter
<1>3. ASSUME NEW c \in Conns, TellEnd(c) PROVE Stages'
  BY <1>3 DEF TellEnd
<1>4. CASE ToldAll
  BY <1>4 DEF ToldAll
<1>5. ASSUME NEW c \in Conns, Subscribe(c) PROVE Stages'
  BY <1>5 DEF Subscribe, Snapshot
<1>6. ASSUME NEW c \in Conns, SubscribeLate(c) PROVE Stages'
  BY <1>6 DEF SubscribeLate
<1>7. ASSUME NEW c \in Conns, NEW i \in Chunks, TakeChunk(c, i) PROVE Stages'
  BY <1>7 DEF TakeChunk, Least
<1>8. ASSUME NEW c \in Conns, WriteFrame(c) PROVE Stages'
  BY <1>8 DEF WriteFrame
<1>9. ASSUME NEW c \in Conns, WriteFails(c) PROVE Stages'
  BY <1>9 DEF WriteFails
<1>10. ASSUME NEW c \in Conns, StreamEnds(c) PROVE Stages'
  BY <1>10 DEF StreamEnds
<1>11. ASSUME NEW c \in Conns, ReadNotice(c) PROVE Stages'
  BY <1>11 DEF ReadNotice
<1>12. ASSUME NEW c \in Conns, NEW i \in Items, ReadOutput(c, i) PROVE Stages'
  BY <1>12 DEF ReadOutput, Least
<1>13. CASE HandleOutput
  BY <1>13 DEF HandleOutput, Fits
<1>14. CASE UNCHANGED <<loop, ended, notify, writing, told, subs, stream, joined, hand, chan, got, wire, dropped>>
  BY <1>14
<1>15. ASSUME NEW c \in Conns, Stall(c) \/ HangUp(c)
      PROVE  UNCHANGED <<loop, ended, notify, writing, told, subs, stream, joined, hand, chan, got, wire, dropped>>
  BY <1>15 DEF Stall, HangUp, loopVars, exitVars, streamVars, clientVars
<1>16. CASE Emit \/ ProcessExits \/ Killed \/ UNCHANGED vars
  BY <1>14, <1>16 DEF Emit, ProcessExits, Killed, vars, loopVars, exitVars, streamVars,
     clientVars
<1> HIDE DEF OutputAssumption, TypeOK, Stages, NotYet, loopVars, exitVars, streamVars,
   clientVars
<1> QED
  BY <1>1, <1>2, <1>3, <1>4, <1>5, <1>6, <1>7, <1>8, <1>9, <1>10, <1>11, <1>12, <1>13,
     <1>14, <1>15, <1>16 DEF Next, LoopStep, StreamStep, ClientReads

\* Only the replay and due chunks get on the way.
LEMMA KeptStep == TypeOK /\ Stages /\ Kept /\ [Next]_vars => Kept'
<1> SUFFICES ASSUME TypeOK, Stages, Kept, [Next]_vars PROVE Kept'
  OBVIOUS
<1> USE OutputAssumption DEF TypeOK, Stages, Chunks, Items, NotYet, Replay, Due, Kept,
   OnTheWay, loopVars, exitVars, streamVars, clientVars
<1>1. CASE HandleOutput
  <2>1. /\ written' = written + 1
        /\ UNCHANGED <<joined, got, wire, hand>>
        /\ \A d \in Conns :
              \/ d \in subs /\ chan'[d] = chan[d] \cup {written + 1} /\ dropped'[d] = dropped[d]
              \/ d \in subs /\ chan'[d] = chan[d] /\ dropped'[d] = dropped[d] \cup {written + 1}
              \/ chan'[d] = chan[d] /\ dropped'[d] = dropped[d]
    BY <1>1 DEF HandleOutput
  <2> SUFFICES ASSUME NEW d \in Conns, joined'[d] # NotYet PROVE OnTheWay(d)'
    OBVIOUS
  <2>2. joined[d] \in Int /\ written \in Nat
    OBVIOUS
  <2>3. joined[d] = NotYet => d \notin subs
    OBVIOUS
  <2> QED
    BY <2>1, <2>2, <2>3
<1>2. ASSUME NEW c \in Conns, Subscribe(c) PROVE Kept'
  BY <1>2 DEF Subscribe, Snapshot
<1>3. ASSUME NEW c \in Conns, NEW i \in Chunks, TakeChunk(c, i) PROVE Kept'
  BY <1>3 DEF TakeChunk, Least
<1>4. ASSUME NEW c \in Conns, WriteFrame(c) PROVE Kept'
  BY <1>4 DEF WriteFrame
<1>5. ASSUME NEW c \in Conns, WriteFails(c) PROVE Kept'
  BY <1>5 DEF WriteFails
<1>6. ASSUME NEW c \in Conns, NEW i \in Items, ReadOutput(c, i) PROVE Kept'
  BY <1>6 DEF ReadOutput, Least
<1>7. CASE UNCHANGED <<written, joined, got, wire, hand, chan, dropped>>
  BY <1>7
<1>8. ASSUME NEW c \in Conns, NextWriter(c) \/ TellEnd(c) \/ SubscribeLate(c) \/
   StreamEnds(c) \/ ReadNotice(c) \/ Stall(c) \/ HangUp(c)
      PROVE  UNCHANGED <<written, joined, got, wire, hand, chan, dropped>>
  BY <1>8 DEF NextWriter, TellEnd, SubscribeLate, StreamEnds, ReadNotice, Stall, HangUp,
     loopVars, exitVars, streamVars, clientVars
<1>9. CASE Emit \/ ProcessExits \/ Killed \/ HandleExit \/ ToldAll \/ UNCHANGED vars
  BY <1>7, <1>9 DEF Emit, ProcessExits, Killed, HandleExit, ToldAll, vars, loopVars,
     exitVars, streamVars, clientVars
<1> HIDE DEF TypeOK, Stages, Chunks, Items, NotYet, Replay, Due, Kept, OnTheWay,
   loopVars, exitVars, streamVars, clientVars
<1> QED
  BY <1>1, <1>2, <1>3, <1>4, <1>5, <1>6, <1>7, <1>8, <1>9 DEF Next, LoopStep,
     StreamStep, ClientReads

\* Chunks do not overtake each other.
LEMMA OrderStep == TypeOK /\ Stages /\ Kept /\ Ordered /\ [Next]_vars => Ordered'
<1> SUFFICES ASSUME TypeOK, Stages, Kept, Ordered, [Next]_vars PROVE Ordered'
  OBVIOUS
<1> USE OutputAssumption DEF TypeOK, Stages, Chunks, Items, NotYet, Replay, Due, Kept,
   OnTheWay, Ordered, InOrder, Before, loopVars, exitVars, streamVars, clientVars
<1>1. CASE HandleOutput
  <2>1. /\ written' = written + 1
        /\ UNCHANGED <<joined, got, wire, hand>>
        /\ \A d \in Conns :
              \/ d \in subs /\ chan'[d] = chan[d] \cup {written + 1} /\ dropped'[d] = dropped[d]
              \/ d \in subs /\ chan'[d] = chan[d] /\ dropped'[d] = dropped[d] \cup {written + 1}
              \/ chan'[d] = chan[d] /\ dropped'[d] = dropped[d]
    BY <1>1 DEF HandleOutput
  <2> SUFFICES ASSUME NEW d \in Conns PROVE InOrder(d)'
    OBVIOUS
  <2>2. joined[d] \in Int /\ written \in Nat
    OBVIOUS
  <2>3. joined[d] = NotYet => d \notin subs
    OBVIOUS
  <2> QED
    BY <2>1, <2>2, <2>3
<1>2. ASSUME NEW c \in Conns, Subscribe(c) PROVE Ordered'
  BY <1>2 DEF Subscribe, Snapshot
<1>3. ASSUME NEW c \in Conns, NEW i \in Chunks, TakeChunk(c, i) PROVE Ordered'
  BY <1>3 DEF TakeChunk, Least
<1>4. ASSUME NEW c \in Conns, WriteFrame(c) PROVE Ordered'
  BY <1>4 DEF WriteFrame
<1>5. ASSUME NEW c \in Conns, WriteFails(c) PROVE Ordered'
  BY <1>5 DEF WriteFails
<1>6. ASSUME NEW c \in Conns, NEW i \in Items, ReadOutput(c, i) PROVE Ordered'
  BY <1>6 DEF ReadOutput, Least
<1>7. CASE UNCHANGED <<written, joined, got, wire, hand, chan, dropped>>
  BY <1>7
<1>8. ASSUME NEW c \in Conns, NextWriter(c) \/ TellEnd(c) \/ SubscribeLate(c) \/
   StreamEnds(c) \/ ReadNotice(c) \/ Stall(c) \/ HangUp(c)
      PROVE  UNCHANGED <<written, joined, got, wire, hand, chan, dropped>>
  BY <1>8 DEF NextWriter, TellEnd, SubscribeLate, StreamEnds, ReadNotice, Stall, HangUp,
     loopVars, exitVars, streamVars, clientVars
<1>9. CASE Emit \/ ProcessExits \/ Killed \/ HandleExit \/ ToldAll \/ UNCHANGED vars
  BY <1>7, <1>9 DEF Emit, ProcessExits, Killed, HandleExit, ToldAll, vars, loopVars,
     exitVars, streamVars, clientVars
<1> HIDE DEF TypeOK, Stages, Chunks, Items, NotYet, Replay, Due, Kept, OnTheWay,
   Ordered, InOrder, Before, loopVars, exitVars, streamVars, clientVars
<1> QED
  BY <1>1, <1>2, <1>3, <1>4, <1>5, <1>6, <1>7, <1>8, <1>9 DEF Next, LoopStep,
     StreamStep, ClientReads

\* A chunk goes astray only behind all that the client can still read.
LEMMA AstrayStep == TypeOK /\ Stages /\ Kept /\ Ordered /\ AstrayLast /\ [Next]_vars => AstrayLast'
<1> SUFFICES ASSUME TypeOK, Stages, Kept, Ordered, AstrayLast, [Next]_vars PROVE AstrayLast'
  OBVIOUS
<1> USE OutputAssumption DEF TypeOK, Stages, Chunks, Items, NotYet, Replay, Due, Kept,
   OnTheWay, Ordered, InOrder, Before, Astray, AstrayLast, loopVars, exitVars,
   streamVars, clientVars
<1>1. CASE HandleOutput
  BY <1>1 DEF HandleOutput, Fits
<1>2. CASE HandleExit
  BY <1>2 DEF HandleExit
<1>3. ASSUME NEW c \in Conns, TellEnd(c) PROVE AstrayLast'
  BY <1>3 DEF TellEnd
<1>4. ASSUME NEW c \in Conns, ReadNotice(c) PROVE AstrayLast'
  BY <1>4 DEF ReadNotice
<1>5. ASSUME NEW c \in Conns, Subscribe(c) PROVE AstrayLast'
  BY <1>5 DEF Subscribe, Snapshot
<1>6. ASSUME NEW c \in Conns, NEW i \in Chunks, TakeChunk(c, i) PROVE AstrayLast'
  BY <1>6 DEF TakeChunk, Least
<1>7. ASSUME NEW c \in Conns, WriteFrame(c) PROVE AstrayLast'
  BY <1>7 DEF WriteFrame
<1>8. ASSUME NEW c \in Conns, WriteFails(c) PROVE AstrayLast'
  BY <1>8 DEF WriteFails
<1>9. ASSUME NEW c \in Conns, NEW i \in Items, ReadOutput(c, i) PROVE AstrayLast'
  BY <1>9 DEF ReadOutput, Least
<1>10. CASE UNCHANGED <<written, joined, got, wire, hand, chan, dropped, subs, told>>
  BY <1>10
<1>11. ASSUME NEW c \in Conns, NextWriter(c) \/ SubscribeLate(c) \/ StreamEnds(c) \/
   Stall(c) \/ HangUp(c)
      PROVE  UNCHANGED <<written, joined, got, wire, hand, chan, dropped, subs, told>>
  BY <1>11 DEF NextWriter, SubscribeLate, StreamEnds, Stall, HangUp, loopVars, exitVars,
     streamVars, clientVars
<1>12. CASE Emit \/ ProcessExits \/ Killed \/ ToldAll \/ UNCHANGED vars
  BY <1>10, <1>12 DEF Emit, ProcessExits, Killed, ToldAll, vars, loopVars, exitVars,
     streamVars, clientVars
<1> HIDE DEF TypeOK, Stages, Chunks, Items, NotYet, Replay, Due, Kept, OnTheWay,
   Ordered, InOrder, Before, Astray, AstrayLast, loopVars, exitVars, streamVars,
   clientVars
<1> QED
  BY <1>1, <1>2, <1>3, <1>4, <1>5, <1>6, <1>7, <1>8, <1>9, <1>10, <1>11, <1>12 DEF Next,
     LoopStep, StreamStep, ClientReads

\* The invariant holds in every reachable state.
THEOREM StreamCorrect == Spec => []StreamInv
<1>1. StreamInv /\ [Next]_vars => StreamInv'
  BY TypingStep, StagesStep, KeptStep, OrderStep, AstrayStep DEF StreamInv
<1> QED
  BY StreamInit, <1>1, PTL DEF Spec

\* The types of every reachable state.
THEOREM StreamTypes == Spec => []TypeOK
<1>1. StreamInv => TypeOK
  BY DEF StreamInv
<1> QED
  BY <1>1, StreamCorrect, PTL

--------------------------------------------------------------------------------
(* The refinement: each step is a step of OutputPromise or stutters.           *)

LEMMA PromiseStart == Init => Promise!PromiseInit
BY DEF Init, Promise!PromiseInit, Promise!NotYet, NotYet

\* What is still in the channel is missing, so a full channel means that the
\* client is subBuffer chunks behind.
LEMMA FullIsBehind ==
    ASSUME StreamInv, NEW c \in subs, ~Fits(c)
    PROVE  c \in Promise!Behind
<1> USE OutputAssumption DEF OutputAssumption, StreamInv, TypeOK, Chunks
<1>1. c \in Conns /\ joined[c] # NotYet /\ joined[c] \in Nat /\ written \in Nat
  BY DEF Stages, NotYet
<1>2. chan[c] \subseteq Promise!Missing(c)
  BY <1>1 DEF Kept, OnTheWay, Ordered, InOrder, Before, Due, Promise!Missing
<1>3. IsFiniteSet(Promise!Missing(c))
  <2>1. IsFiniteSet(joined[c] + 1 .. written)
    BY <1>1, FS_Interval
  <2> QED
    BY <2>1, FS_Subset DEF Promise!Missing
<1>4. /\ IsFiniteSet(chan[c])
      /\ Cardinality(chan[c]) <= Cardinality(Promise!Missing(c))
  BY <1>2, <1>3, FS_Subset
<1>5. Cardinality(chan[c]) \in Nat /\ Cardinality(Promise!Missing(c)) \in Nat
  BY <1>3, <1>4, FS_CardinalityType
<1>6. Cardinality(Promise!Missing(c)) >= SubBuffer
  BY <1>4, <1>5 DEF Fits
<1>7. Promise!Cardinality(Promise!Missing(c)) = Cardinality(Promise!Missing(c))
  BY DEF Promise!Cardinality, Cardinality
<1> QED
  BY <1>1, <1>6, <1>7 DEF Promise!Behind, Promise!NotYet, NotYet

LEMMA HandleOutputWrites == StreamInv /\ HandleOutput => Promise!Write
<1> SUFFICES ASSUME StreamInv, HandleOutput PROVE Promise!Write
  OBVIOUS
<1> DEFINE losers == {c \in subs : ~Fits(c)}
<1>1. losers \in SUBSET Promise!Behind
  BY FullIsBehind
<1>2. dropped' = [c \in Conns |-> IF c \in losers THEN dropped[c] \cup {written + 1}
                                                  ELSE dropped[c]]
  BY DEF HandleOutput
<1>3. written' = written + 1 /\ UNCHANGED <<joined, got>>
  BY DEF HandleOutput, streamVars, clientVars
<1> QED
  BY <1>1, <1>2, <1>3 DEF Promise!Write

LEMMA SubscribeJoins ==
    ASSUME StreamInv, NEW c \in Conns, Subscribe(c)
    PROVE  Promise!Join(c)
<1>1. joined[c] = NotYet
  BY DEF StreamInv, Stages, Subscribe
<1> QED
  BY <1>1 DEF Subscribe, Snapshot, loopVars, clientVars, Promise!Join, Promise!NotYet, NotYet

\* What a client reads next is the earliest chunk it misses, unless it is the replay.
LEMMA ReadOutputSees ==
    ASSUME StreamInv, NEW c \in Conns, NEW i \in Items, ReadOutput(c, i), i # Replay
    PROVE  i \in Promise!Missing(c) /\ Promise!See(c, i)
<1> USE DEF StreamInv, TypeOK, Chunks, Items
<1>1. i \in wire[c] /\ \A j \in wire[c] : i <= j
  BY DEF ReadOutput, Least
<1>2. joined[c] # NotYet
  BY <1>1 DEF Stages
<1>3. i \in Promise!Missing(c)
  BY <1>1, <1>2 DEF Kept, OnTheWay, Ordered, InOrder, Before, Due, Promise!Missing
<1>4. ASSUME NEW j \in Promise!Missing(c) PROVE i <= j
  <2>1. j \in wire[c] \cup hand[c] \cup chan[c] \cup Astray(c)
    BY <1>2, <1>4, OutputAssumption DEF OutputAssumption, Astray, Due, Promise!Missing, Replay, NotYet
  <2>2. i \in Int /\ j \in Int
    BY <1>4, OutputAssumption DEF OutputAssumption, Promise!Missing, Replay
  <2> QED
    BY <1>1, <2>1, <2>2 DEF Ordered, InOrder, AstrayLast, Before
<1>5. UNCHANGED <<written, joined, dropped>>
  BY DEF ReadOutput, loopVars, streamVars
<1>6. [d \in Conns |-> got'[d] \ {Replay}]
        = [[d \in Conns |-> got[d] \ {Replay}] EXCEPT ![c] = @ \cup {i}]
  BY DEF ReadOutput
<1> QED
  BY <1>2, <1>3, <1>4, <1>5, <1>6 DEF Promise!See, Promise!NotYet, NotYet

LEMMA PromiseStep ==
    StreamInv /\ [Next]_vars => [Promise!PromiseNext]_(Promise!promiseVars)
<1> SUFFICES ASSUME StreamInv, [Next]_vars
             PROVE  Promise!PromiseNext \/ UNCHANGED Promise!promiseVars
  OBVIOUS
<1>1. CASE HandleOutput
  BY <1>1, HandleOutputWrites DEF Promise!PromiseNext
<1>2. ASSUME NEW c \in Conns, Subscribe(c) PROVE Promise!PromiseNext
  BY <1>2, SubscribeJoins DEF Promise!PromiseNext
<1>3. ASSUME NEW c \in Conns, NEW i \in Items, ReadOutput(c, i), i # Replay
      PROVE  Promise!PromiseNext
  BY <1>3, ReadOutputSees DEF Promise!PromiseNext
<1>4. ASSUME NEW c \in Conns, ReadOutput(c, Replay) PROVE UNCHANGED Promise!promiseVars
  <2>1. [d \in Conns |-> got'[d] \ {Replay}] = [d \in Conns |-> got[d] \ {Replay}]
    BY <1>4 DEF ReadOutput, StreamInv, TypeOK
  <2> QED
    BY <1>4, <2>1 DEF ReadOutput, loopVars, streamVars, Promise!promiseVars
<1>5. CASE UNCHANGED <<written, joined, got, dropped>>
  BY <1>5 DEF Promise!promiseVars
<1>6. ASSUME NEW c \in Conns,
             \/ NextWriter(c) \/ TellEnd(c) \/ SubscribeLate(c) \/ WriteFrame(c)
             \/ WriteFails(c) \/ StreamEnds(c) \/ ReadNotice(c) \/ Stall(c) \/ HangUp(c)
             \/ \E i \in Chunks : TakeChunk(c, i)
      PROVE  UNCHANGED <<written, joined, got, dropped>>
  BY <1>6 DEF NextWriter, TellEnd, SubscribeLate, WriteFrame, WriteFails, StreamEnds,
     ReadNotice, Stall, HangUp, TakeChunk, loopVars, streamVars, clientVars
<1>7. CASE Emit \/ ProcessExits \/ Killed \/ HandleExit \/ ToldAll \/ UNCHANGED vars
  BY <1>5, <1>7 DEF Emit, ProcessExits, Killed, HandleExit, ToldAll, vars, loopVars,
     streamVars, clientVars
<1> QED
  BY <1>1, <1>2, <1>3, <1>4, <1>5, <1>6, <1>7 DEF Next, LoopStep, StreamStep, ClientReads

\* Every client gets its replay and then each later chunk once and in order, and
\* misses one only when it is subBuffer chunks behind.
THEOREM KeepsPromise == Spec => PromiseSpec
<1>1. Init => Promise!PromiseInit
  BY PromiseStart
<1>2. StreamInv /\ [Next]_vars => [Promise!PromiseNext]_(Promise!promiseVars)
  BY PromiseStep
<1> QED
  BY <1>1, <1>2, StreamCorrect, PTL DEF Spec, PromiseSpec, Promise!PromiseSpec

--------------------------------------------------------------------------------
(* The terminal inside the view.                                                *)

\* The chunk in readLoop's hands.
InHand == IF reader \in {"holding", "feeding"} THEN 1 ELSE 0

\* No chunk is fed that was not received.
FedWithin == outCh + InHand + fed <= received

TermInv == TermTypeOK /\ FedWithin

LEMMA TermAtFirst == TermInit => TermInv
<1> SUFFICES ASSUME TermInit PROVE TermInv
  OBVIOUS
<1> USE TerminalAssumption DEF TermInit
<1>1. <<>> \in Seq(Queued) /\ Len(<<>>) = 0
  BY EmptySeq
<1>2. InputRoom \in Nat /\ MaxOutput \in Nat /\ MaxQueries \in Nat /\ MaxGestures \in Nat
  OBVIOUS
<1>3. {gone, damaged, notifyC, stopChan, viewParked, scrolled} \subseteq BOOLEAN
  OBVIOUS
<1>4. inputCh \in Seq(Queued) /\ Len(inputCh) <= InputRoom
  BY <1>1, <1>2
<1>5. job \in Queued
  BY DEF Queued
<1>6. TermTypeOK
  BY <1>2, <1>3, <1>4, <1>5 DEF TermTypeOK
<1> QED
  BY <1>6 DEF TermInv, FedWithin, InHand

\* The types in two parts, which different provers see to.
TermNumbers ==
    /\ outCh \in 0 .. MaxOutput
    /\ received \in 0 .. MaxOutput /\ fed \in 0 .. received /\ painted \in 0 .. fed
    /\ owed \in 0 .. MaxQueries + 1 /\ (mu = "free" => owed = 0)
    /\ mu \in {"free", "reader", "writer"}
    /\ reader \in {"top", "reading", "holding", "feeding", "done"}
    /\ response \in {"reading", "writing", "done"}
    /\ writer \in {"idle", "wheel", "forwarding", "done"}
    /\ inputCh \in Seq(Queued) /\ Len(inputCh) <= InputRoom
    /\ armed \in Nat /\ settling \in Nat /\ ticks \in Nat
    /\ ui \in {"idle", "wheel", "enqueue", "resize", "paint", "freeze", "closing", "closed"}
    /\ job \in Queued
    /\ gestures \in 0 .. MaxGestures

TermFlags ==
    /\ gone \in BOOLEAN /\ damaged \in BOOLEAN /\ notifyC \in BOOLEAN /\ stopChan \in BOOLEAN
    /\ viewParked \in BOOLEAN /\ scrolled \in BOOLEAN

LEMMA TermParts == TermTypeOK <=> TermNumbers /\ TermFlags
<1>1. {gone, damaged, notifyC, stopChan, viewParked, scrolled} \subseteq BOOLEAN <=> TermFlags
  BY DEF TermFlags
<1> QED
  BY <1>1 DEF TermTypeOK, TermNumbers

LEMMA TermFlagsStep == TermFlags /\ [TermNext]_termVars => TermFlags'
<1> SUFFICES ASSUME TermFlags, [TermNext]_termVars PROVE TermFlags'
  OBVIOUS
<1> USE DEF TermFlags, channel, emulator, waiters, program, ReaderOnly, ResponseOnly, WriterOnly,
            WaiterOnly, ProgramOnly, MarkDamaged, termVars
<1>1. CASE OutputArrives \/ ConnectionLost
  BY <1>1 DEF OutputArrives, ConnectionLost
<1>2. CASE ReadLoop
  BY <1>2 DEF ReadLoop, ReaderTop, ReadChunk, EndOfOutput, LockToFeed, ChunkFed
<1>3. CASE ResponseLoop \/ InputWriter
  BY <1>3 DEF ResponseLoop, ReadAnswer, ForwardAnswer, InputWriter, TakeJob, SendMouseWheel, WheelSent
<1>4. CASE Waiters \/ MoreDamage
  BY <1>4 DEF Waiters, FirstDamage, Settled, WaiterStopped, MoreDamage
<1>5. CASE WheelChoice \/ Enqueue \/ Resize \/ RenderTick
  BY <1>5 DEF WheelChoice, Enqueue, Resize, RenderTick
<1>6. CASE Paint
  BY <1>6 DEF Paint, GetScreen, ScrolledView
<1>7. CASE Closed
  BY <1>7 DEF Closed
<1>8. CASE PressKey \/ TurnWheel \/ WindowSize
  BY <1>8 DEF PressKey, TurnWheel, WindowSize, Gesture
<1>9. CASE FlagArrives \/ Close
  BY <1>9 DEF FlagArrives, Close, Gesture
<1>10. CASE UNCHANGED termVars
  BY <1>10
<1> QED
  BY <1>1, <1>2, <1>3, <1>4, <1>5, <1>6, <1>7, <1>8, <1>9, <1>10 DEF TermNext, Program

LEMMA TermNumbersStep ==
    TermNumbers /\ FedWithin /\ [TermNext]_termVars => TermNumbers' /\ FedWithin'
<1> SUFFICES ASSUME TermNumbers, FedWithin, [TermNext]_termVars PROVE TermNumbers' /\ FedWithin'
  OBVIOUS
<1> USE TerminalAssumption DEF TermNumbers, FedWithin, InHand, channel, emulator, waiters, program,
            ReaderOnly, ResponseOnly, WriterOnly, WaiterOnly, ProgramOnly, MarkDamaged, termVars
<1>0. InputRoom \in Nat /\ MaxOutput \in Nat /\ MaxQueries \in Nat /\ MaxGestures \in Nat
  OBVIOUS
<1>1. CASE OutputArrives
  BY <1>0, <1>1 DEF OutputArrives
<1>2. CASE ConnectionLost
  BY <1>2 DEF ConnectionLost
<1>3. CASE ReaderTop \/ ReadChunk \/ EndOfOutput
  <2>1. CASE ReaderTop
    BY <1>0, <2>1 DEF ReaderTop
  <2>2. CASE ReadChunk
    BY <1>0, <2>2 DEF ReadChunk
  <2>3. CASE EndOfOutput
    BY <1>0, <2>3 DEF EndOfOutput
  <2> QED
    BY <1>3, <2>1, <2>2, <2>3
<1>4. CASE LockToFeed
  BY <1>0, <1>4 DEF LockToFeed
<1>5. CASE ChunkFed
  BY <1>0, <1>5 DEF ChunkFed
<1>6. CASE ReadAnswer \/ ForwardAnswer
  <2>1. CASE ReadAnswer
    BY <1>0, <2>1 DEF ReadAnswer
  <2>2. CASE ForwardAnswer
    BY <1>0, <2>2 DEF ForwardAnswer
  <2> QED
    BY <1>6, <2>1, <2>2
<1>7. CASE TakeJob
  <2>1. inputCh # <<>> => Tail(inputCh) \in Seq(Queued) /\ Len(Tail(inputCh)) = Len(inputCh) - 1
    BY HeadTailProperties
  <2>2. inputCh' \in Seq(Queued) /\ Len(inputCh') <= InputRoom
    BY <1>0, <1>7, <2>1, LenProperties DEF TakeJob
  <2> QED
    BY <1>7, <2>2 DEF TakeJob
<1>8. CASE SendMouseWheel \/ WheelSent
  <2>1. CASE SendMouseWheel
    BY <1>0, <2>1 DEF SendMouseWheel
  <2>2. CASE WheelSent
    BY <1>0, <2>2 DEF WheelSent
  <2> QED
    BY <1>8, <2>1, <2>2
<1>9. CASE FirstDamage \/ Settled \/ WaiterStopped \/ MoreDamage
  <2>1. CASE FirstDamage
    BY <1>0, <2>1 DEF FirstDamage
  <2>2. CASE Settled
    BY <1>0, <2>2 DEF Settled
  <2>3. CASE WaiterStopped
    BY <1>0, <2>3 DEF WaiterStopped
  <2>4. CASE MoreDamage
    BY <1>0, <2>4 DEF MoreDamage
  <2> QED
    BY <1>9, <2>1, <2>2, <2>3, <2>4
<1>10. CASE WheelChoice
  BY <1>10 DEF WheelChoice, Queued
<1>11. CASE Enqueue
  <2>1. inputCh' \in Seq(Queued) /\ Len(inputCh') <= InputRoom
    BY <1>0, <1>11, AppendProperties, LenProperties DEF Enqueue
  <2> QED
    BY <1>11, <2>1 DEF Enqueue, Queued
<1>12. CASE Resize \/ RenderTick
  <2>1. CASE Resize
    BY <1>0, <2>1 DEF Resize
  <2>2. CASE RenderTick
    BY <1>0, <2>2 DEF RenderTick, Rearmed
  <2> QED
    BY <1>12, <2>1, <2>2
<1>13. CASE Paint
  BY <1>13 DEF Paint, GetScreen, ScrolledView
<1>14. CASE Closed
  BY <1>0, <1>14 DEF Closed
<1>15. CASE PressKey \/ TurnWheel \/ WindowSize \/ FlagArrives
  <2>1. CASE PressKey
    BY <1>0, <2>1 DEF PressKey, Gesture, Queued
  <2>2. CASE TurnWheel
    BY <1>0, <2>2 DEF TurnWheel, Gesture
  <2>3. CASE WindowSize
    BY <1>0, <2>3 DEF WindowSize, Gesture
  <2>4. CASE FlagArrives
    BY <1>0, <2>4 DEF FlagArrives, Gesture
  <2> QED
    BY <1>15, <2>1, <2>2, <2>3, <2>4
<1>16. CASE Close
  BY <1>16 DEF Close
<1>17. CASE UNCHANGED termVars
  BY <1>17
<1> QED
  BY <1>1, <1>2, <1>3, <1>4, <1>5, <1>6, <1>7, <1>8, <1>9, <1>10, <1>11, <1>12, <1>13, <1>14, <1>15,
     <1>16, <1>17 DEF TermNext, Program, ReadLoop, ResponseLoop, InputWriter, Waiters

LEMMA TermInductive == TermInv /\ [TermNext]_termVars => TermInv'
<1> SUFFICES ASSUME TermInv, [TermNext]_termVars PROVE TermInv'
  OBVIOUS
<1>1. TermNumbers /\ TermFlags /\ FedWithin
  BY TermParts DEF TermInv
<1>2. TermNumbers' /\ TermFlags' /\ FedWithin'
  BY <1>1, TermFlagsStep, TermNumbersStep
<1>3. TermTypeOK' <=> TermNumbers' /\ TermFlags'
  BY DEF TermTypeOK, TermNumbers, TermFlags
<1> QED
  BY <1>2, <1>3 DEF TermInv

\* The view's goroutines stay within their types, whatever the output, the queries in it,
\* the room for jobs and the keys; no chunk is fed or painted that did not arrive.
THEOREM TerminalCorrect == TermSpec => []TermInv
<1> QED
  BY TermAtFirst, TermInductive, PTL DEF TermSpec

--------------------------------------------------------------------------------
(* Terminals.                                                                   *)

Lines == [1 .. Columns -> Cells]

Screens(height) == [1 .. height -> Lines]

Saved(height) == [screen : Screens(height), x : 0 .. Columns - 1, y : 0 .. height - 1]

Emulators(height) ==
    {t \in [screen : Screens(height), x : 0 .. Columns - 1, y : 0 .. height - 1, phantom : BOOLEAN,
            scrollback : Seq(Lines), altScreen : BOOLEAN, main : Seq(Saved(height))] :
        (t.phantom => t.x = Columns - 1) /\ (t.altScreen <=> t.main # <<>>)}

LEMMA Width == Columns \in Nat \ {0} /\ Rows \in Nat \ {0} /\ MaxCommands \in Nat
BY ReplayAssumption

LEMMA BlankShown == /\ BlankRow \in Lines /\ \A i \in 1 .. Columns : BlankRow[i] = Blank
               /\ \A height : BlankScreen(height) \in Screens(height)
                           /\ \A i \in 1 .. height : BlankScreen(height)[i] = BlankRow
<1>1. Blank \in Cells
  BY DEF Cells
<1>2. BlankRow \in Lines /\ \A i \in 1 .. Columns : BlankRow[i] = Blank
  BY <1>1 DEF BlankRow, Lines
<1> QED
  BY <1>2 DEF BlankScreen, Screens

LEMMA NewTyped == ASSUME NEW h \in Nat \ {0} PROVE NewTerminal(h) \in Emulators(h)
<1>1. <<>> \in Seq(Lines) /\ <<>> \in Seq(Saved(h))
  BY EmptySeq
<1>2. 0 \in 0 .. Columns - 1 /\ 0 \in 0 .. h - 1
  BY Width
<1> QED
  BY <1>1, <1>2, BlankShown DEF NewTerminal, Emulators

\* The screen s moves up by a line.
RollsTo(h, s, r) ==
    /\ r \in Screens(h) /\ Len(s) = h
    /\ \A i \in 1 .. h - 1 : r[i] = s[i + 1]
    /\ r[h] = BlankRow

LEMMA ScreenRolls == ASSUME NEW h \in Nat \ {0}, NEW s \in Screens(h)
                     PROVE  RollsTo(h, s, Append(Tail(s), BlankRow))
<1> PICK r : r = Append(Tail(s), BlankRow)
  OBVIOUS
<1>0. s \in [1 .. h -> Lines] /\ BlankRow \in Lines
  BY BlankShown DEF Screens
<1>1. s \in Seq(Lines) /\ Len(s) = h
  BY <1>0, SeqDef, LenProperties
<1>2. s # <<>>
  BY <1>1, EmptySeq
<1> PICK z : z = Tail(s)
  OBVIOUS
<1>3. z \in Seq(Lines) /\ Len(z) = h - 1 /\ \A i \in 1 .. h - 1 : z[i] = s[i + 1]
  BY <1>1, <1>2, HeadTailProperties
<1>4. /\ r \in Seq(Lines) /\ Len(r) = (h - 1) + 1 /\ \A i \in 1 .. h - 1 : r[i] = z[i]
      /\ r[(h - 1) + 1] = BlankRow
  BY <1>0, <1>3, AppendProperties
<1>5. (h - 1) + 1 = h
  OBVIOUS
<1>6. r \in [1 .. h -> Lines]
  BY <1>4, <1>5, LenProperties
<1> QED
  BY <1>1, <1>3, <1>4, <1>5, <1>6 DEF Screens, RollsTo

LEMMA ReturnTyped == ASSUME NEW h \in Nat \ {0}, NEW t \in Emulators(h)
                     PROVE  CarriageReturn(t) \in Emulators(h)
<1>1. 0 \in 0 .. Columns - 1
  BY Width
<1> QED
  BY <1>1 DEF CarriageReturn, Emulators

LEMMA FeedTyped == ASSUME NEW h \in Nat \ {0}, NEW t \in Emulators(h)
                   PROVE  LineFeed(t) \in Emulators(h)
<1>1. t.screen \in Screens(h) /\ t.y \in 0 .. h - 1 /\ t.scrollback \in Seq(Lines)
  BY DEF Emulators
<1> PICK s : s = t.screen
  OBVIOUS
<1> PICK r : r = Append(Tail(s), BlankRow)
  OBVIOUS
<1>2. Len(t.screen) = h /\ Append(Tail(t.screen), BlankRow) \in Screens(h)
  <2>1. s \in Screens(h)
    BY <1>1
  <2>2. r \in Screens(h) /\ Len(s) = h
    BY <2>1, ScreenRolls DEF RollsTo
  <2> QED
    BY <2>2
<1>3. CASE t.y + 1 < h
  <2>1. t.y + 1 \in 0 .. h - 1
    BY <1>1, <1>3
  <2> QED
    BY <1>2, <1>3, <2>1 DEF LineFeed, Emulators
<1>4. CASE ~(t.y + 1 < h)
  <2>1. t.screen[1] \in Lines
    BY <1>1 DEF Screens
  <2>2. Append(t.scrollback, t.screen[1]) \in Seq(Lines)
    BY <1>1, <2>1, AppendProperties
  <2> QED
    BY <1>2, <1>4, <2>2 DEF LineFeed, Emulators
<1> QED
  BY <1>3, <1>4

LEMMA PutTyped == ASSUME NEW h \in Nat \ {0}, NEW t \in Emulators(h), NEW cell \in Cells
                  PROVE  PutCell(t, cell) \in Emulators(h)
<1> PICK u : u = IF t.phantom THEN NewLine(t) ELSE t
  OBVIOUS
<1>1. u \in Emulators(h)
  BY ReturnTyped, FeedTyped DEF NewLine
<1>2. /\ u.screen \in [1 .. h -> [1 .. Columns -> Cells]]
      /\ u.x \in 0 .. Columns - 1 /\ u.y \in 0 .. h - 1
  BY <1>1 DEF Emulators, Screens, Lines
<1> PICK screen : screen = [u.screen EXCEPT ![u.y + 1][u.x + 1] = cell]
  OBVIOUS
<1>3. screen \in Screens(h)
  <2>1. u.x + 1 \in 1 .. Columns /\ u.y + 1 \in 1 .. h
    BY <1>2, Width
  <2> QED
    BY <1>2, <2>1 DEF Screens, Lines
<1> PICK x : x = IF u.x + 1 = Columns THEN u.x ELSE u.x + 1
  OBVIOUS
<1>4. x \in 0 .. Columns - 1 /\ (u.x + 1 = Columns => x = Columns - 1)
  BY <1>2, Width
<1>5. PutCell(t, cell) = [u EXCEPT !.screen = screen, !.phantom = (u.x + 1 = Columns), !.x = x]
  BY DEF PutCell
<1> QED
  BY <1>1, <1>3, <1>4, <1>5 DEF Emulators

LEMMA CursorTyped == ASSUME NEW h \in Nat \ {0}, NEW t \in Emulators(h), NEW n \in Nat
                     PROVE  CursorUp(t, n) \in Emulators(h) /\ CursorForward(t, n) \in Emulators(h)
<1>1. t.x \in 0 .. Columns - 1 /\ t.y \in 0 .. h - 1
  BY DEF Emulators
<1>2. (IF n > t.y THEN 0 ELSE t.y - n) \in 0 .. h - 1
  BY <1>1
<1>3. (IF t.x + n >= Columns THEN Columns - 1 ELSE t.x + n) \in 0 .. Columns - 1
  BY <1>1, Width
<1>4. CursorUp(t, n) \in Emulators(h)
  BY <1>2 DEF CursorUp, Emulators
<1> QED
  BY <1>3, <1>4 DEF CursorForward, Emulators

LEMMA AltTyped == ASSUME NEW h \in Nat \ {0}, NEW t \in Emulators(h)
                  PROVE  EnterAltScreen(t) \in Emulators(h) /\ LeaveAltScreen(t) \in Emulators(h)
<1>1. /\ t.screen \in Screens(h) /\ Len(t.screen) = h /\ t.x \in 0 .. Columns - 1 /\ t.y \in 0 .. h - 1
      /\ t.scrollback \in Seq(Lines) /\ t.main \in Seq(Saved(h)) /\ (t.altScreen <=> t.main # <<>>)
  <2>1. t.screen \in Screens(h)
    BY DEF Emulators
  <2> PICK s : s = t.screen
    OBVIOUS
  <2> PICK r : r = Append(Tail(s), BlankRow)
    OBVIOUS
  <2>2. Len(s) = h
    BY <2>1, ScreenRolls DEF RollsTo
  <2> QED
    BY <2>1, <2>2 DEF Emulators
<1>2. CASE t.altScreen
  <2>1. EnterAltScreen(t) = t
    BY <1>2 DEF EnterAltScreen
  <2> PICK m : m = t.main[1]
    OBVIOUS
  <2>2. m \in Saved(h)
    BY <1>1, <1>2, EmptySeq, LenProperties, ElementOfSeq
  <2>3. m.screen \in Screens(h) /\ m.x \in 0 .. Columns - 1 /\ m.y \in 0 .. h - 1
    BY <2>2 DEF Saved
  <2>4. LeaveAltScreen(t) = [t EXCEPT !.altScreen = FALSE, !.screen = m.screen, !.x = m.x, !.y = m.y,
                                      !.phantom = FALSE, !.main = <<>>]
    BY <1>2 DEF LeaveAltScreen
  <2>5. <<>> \in Seq(Saved(h))
    BY EmptySeq
  <2> QED
    BY <2>1, <2>3, <2>4, <2>5 DEF Emulators
<1>3. CASE ~t.altScreen
  <2> PICK m : m = [screen |-> t.screen, x |-> t.x, y |-> t.y]
    OBVIOUS
  <2>1. m \in Saved(h)
    BY <1>1 DEF Saved
  <2>2. <<m>> \in Seq(Saved(h)) /\ <<m>> # <<>>
    BY <2>1
  <2>3. EnterAltScreen(t) = [NewTerminal(h) EXCEPT !.altScreen = TRUE, !.scrollback = t.scrollback, !.main = <<m>>]
    BY <1>1, <1>3 DEF EnterAltScreen
  <2>4. LeaveAltScreen(t) = t
    BY <1>3 DEF LeaveAltScreen
  <2>5. EnterAltScreen(t) \in Emulators(h)
    BY <1>1, <2>2, <2>3, NewTyped DEF Emulators, NewTerminal
  <2> QED
    BY <2>4, <2>5
<1> QED
  BY <1>2, <1>3

\* The session's terminal is one of its size, whatever the program wrote.
ReplayInv == emu \in Emulators(Rows) /\ commands \in 0 .. MaxCommands

LEMMA ReplayAtFirst == ReplayInit => ReplayInv
<1> SUFFICES ASSUME ReplayInit PROVE ReplayInv
  OBVIOUS
<1>1. Rows \in Nat \ {0} /\ commands \in 0 .. MaxCommands
  BY Width DEF ReplayInit
<1> QED
  BY <1>1, NewTyped DEF ReplayInit, ReplayInv

LEMMA ReplayInductive == ReplayInv /\ [ReplayNext]_replayVars => ReplayInv'
<1> SUFFICES ASSUME ReplayInv, [ReplayNext]_replayVars PROVE ReplayInv'
  OBVIOUS
<1>0. Rows \in Nat \ {0} /\ emu \in Emulators(Rows) /\ 1 \in Nat
  BY Width DEF ReplayInv
<1>1. CASE EmulatorWrites
  <2>1. commands' \in 0 .. MaxCommands
    BY <1>1, Width DEF ReplayInv, EmulatorWrites
  <2>2. \/ \E cell \in Cells : emu' = PutCell(emu, cell)
        \/ emu' = NewLine(emu) \/ emu' = CarriageReturn(emu)
        \/ emu' = CursorUp(emu, 1) \/ emu' = CursorForward(emu, 1)
        \/ emu' = EnterAltScreen(emu) \/ emu' = LeaveAltScreen(emu)
    BY <1>1 DEF EmulatorWrites
  <2>3. NewLine(emu) \in Emulators(Rows) /\ CarriageReturn(emu) \in Emulators(Rows)
    BY <1>0, ReturnTyped, FeedTyped DEF NewLine
  <2>4. CursorUp(emu, 1) \in Emulators(Rows) /\ CursorForward(emu, 1) \in Emulators(Rows)
    BY <1>0, CursorTyped
  <2>5. EnterAltScreen(emu) \in Emulators(Rows) /\ LeaveAltScreen(emu) \in Emulators(Rows)
    BY <1>0, AltTyped
  <2>6. \A cell \in Cells : PutCell(emu, cell) \in Emulators(Rows)
    BY <1>0, PutTyped
  <2> QED
    BY <2>1, <2>2, <2>3, <2>4, <2>5, <2>6 DEF ReplayInv
<1>2. CASE UNCHANGED replayVars
  BY <1>2 DEF replayVars, ReplayInv
<1> QED
  BY <1>1, <1>2 DEF ReplayNext

LEMMA ReplayTypes == ReplayInv => ReplayTypeOK
BY Width DEF ReplayInv, ReplayTypeOK, Emulators, Screens, Lines

--------------------------------------------------------------------------------
(* Numbers and definitions along them.                                          *)

LEMMA LeastOf == ASSUME NEW T \in SUBSET Nat, T # {} PROVE \E x \in T : \A y \in T : x <= y
<1>1. IsWellFoundedOn(OpToRel(<, Nat), Nat)
  BY NatLessThanWellFounded
<1>2. PICK x \in T : \A y \in T : <<y, x>> \notin OpToRel(<, Nat)
  BY <1>1, WFMin
<1>3. \A a, b \in Nat : a < b => <<a, b>> \in OpToRel(<, Nat)
  <2> SUFFICES ASSUME NEW a \in Nat, NEW b \in Nat, a < b PROVE <<a, b>> \in OpToRel(<, Nat)
    OBVIOUS
  <2>1. <<a, b>> \in Nat \X Nat /\ <<a, b>>[1] < <<a, b>>[2]
    OBVIOUS
  <2> QED
    BY <2>1 DEF OpToRel
<1>4. ASSUME NEW y \in T PROVE x <= y
  <2>1. x \in Nat /\ y \in Nat
    OBVIOUS
  <2>2. <<y, x>> \notin OpToRel(<, Nat)
    BY <1>2
  <2>3. ~(y < x)
    BY <1>3, <2>1, <2>2
  <2> QED
    BY <2>1, <2>3
<1> QED
  BY <1>4

\* Step by step one reaches every number.
LEMMA Upward ==
    ASSUME NEW n \in Nat, NEW T, 0 \in T, \A j \in 0 .. n - 1 : j \in T => j + 1 \in T
    PROVE  \A j \in 0 .. n : j \in T
<1> DEFINE Missing == {j \in 0 .. n : j \notin T}
<1> SUFFICES ASSUME Missing # {} PROVE FALSE
  OBVIOUS
<1>1. Missing \in SUBSET Nat
  OBVIOUS
<1> HIDE DEF Missing
<1>2. PICK m \in Missing : \A k \in Missing : m <= k
  <2>1. \E x \in Missing : \A y \in Missing : x <= y
    BY <1>1, LeastOf
  <2> QED
    BY <2>1
<1>3. m \in 0 .. n /\ m \notin T
  BY DEF Missing
<1>4. m # 0
  BY <1>3
<1> PICK k \in 0 .. n - 1 : m = k + 1
  <2>1. m - 1 \in 0 .. n - 1 /\ m = (m - 1) + 1
    BY <1>3, <1>4
  <2> QED
    BY <2>1
<1>5. k \in Missing => m <= k
  BY <1>2
<1>6. k \in 0 .. n /\ ~(k + 1 <= k)
  OBVIOUS
<1>7. k \in T
  BY <1>5, <1>6 DEF Missing
<1> QED
  BY <1>3, <1>7

\* g is defined along the numbers up to n.
Along(g, n, first, step) == g[0] = first /\ \A j \in 1 .. n : g[j] = step[<<g[j - 1], j>>]

LEMMA Recursion ==
    ASSUME NEW S, NEW n \in Nat, NEW first \in S, NEW step \in [S \X (1 .. n) -> S]
    PROVE  \E g \in [0 .. n -> S] : Along(g, n, first, step)
<1> DEFINE Upto(m, g) == g[0] = first /\ \A j \in 1 .. m : g[j] = step[<<g[j - 1], j>>]
<1> DEFINE T == {m \in 0 .. n : \E g \in [0 .. n -> S] : Upto(m, g)}
<1>1. 0 \in T
  <2> DEFINE g == [j \in 0 .. n |-> first]
  <2>1. g \in [0 .. n -> S] /\ g[0] = first
    OBVIOUS
  <2> HIDE DEF g
  <2>2. Upto(0, g)
    BY <2>1
  <2>3. 0 \in 0 .. n
    OBVIOUS
  <2> HIDE DEF Upto
  <2> QED
    BY <2>1, <2>2, <2>3
<1>2. ASSUME NEW m \in 0 .. n - 1, m \in T PROVE m + 1 \in T
  <2>1. PICK g \in [0 .. n -> S] : Upto(m, g)
    BY <1>2
  <2> DEFINE h == [j \in 0 .. n |-> IF j = m + 1 THEN step[<<g[m], m + 1>>] ELSE g[j]]
  <2>2. m + 1 \in 1 .. n /\ m \in 0 .. n /\ m + 1 \in 0 .. n /\ m + 1 # 0 /\ 0 \in 0 .. n
    OBVIOUS
  <2>3. g[m] \in S
    BY <2>2
  <2>4. step[<<g[m], m + 1>>] \in S
    BY <2>2, <2>3
  <2>5. h \in [0 .. n -> S]
    BY <2>4
  <2>6. \A j \in 0 .. n : j # m + 1 => h[j] = g[j]
    OBVIOUS
  <2>7. h[m + 1] = step[<<g[m], m + 1>>]
    BY <2>2
  <2> HIDE DEF h
  <2>8. h[0] = first
    BY <2>1, <2>2, <2>6
  <2>9. ASSUME NEW j \in 1 .. m + 1 PROVE h[j] = step[<<h[j - 1], j>>]
    <3>1. j - 1 \in 0 .. n /\ j - 1 # m + 1 /\ j \in 0 .. n
      BY <2>2
    <3>2. h[j - 1] = g[j - 1]
      BY <2>6, <3>1
    <3>3. CASE j = m + 1
      <4>1. j - 1 = m
        BY <3>3
      <4> QED
        BY <2>7, <3>2, <3>3, <4>1
    <3>4. CASE j # m + 1
      <4>1. j \in 1 .. m
        BY <3>4
      <4>2. h[j] = g[j]
        BY <2>6, <3>1, <3>4
      <4> QED
        BY <2>1, <3>2, <4>1, <4>2
    <3> QED
      BY <3>3, <3>4
  <2>10. Upto(m + 1, h)
    BY <2>8, <2>9
  <2> QED
    BY <2>2, <2>5, <2>10
<1>3. n \in T
  <2> HIDE DEF T
  <2>1. \A j \in 0 .. n : j \in T
    BY <1>1, <1>2, Upward
  <2> QED
    BY <2>1
<1> QED
  BY <1>3 DEF Along


--------------------------------------------------------------------------------
(* Scripts.                                                                     *)

Orders ==
    [op : {"print"}, arg : Cells] \cup [op : {"newline", "return", "alt"}, arg : {0}]
        \cup [op : {"up", "forward"}, arg : Nat]

LEMMA OrdersGiven ==
    /\ \A cell \in Cells : Command("print", cell) \in Orders
    /\ Command("newline", 0) \in Orders /\ Command("return", 0) \in Orders /\ Command("alt", 0) \in Orders
    /\ \A n \in Nat : Command("up", n) \in Orders /\ Command("forward", n) \in Orders
BY DEF Command, Orders

LEMMA ObeyIs ==
    ASSUME NEW t
    PROVE  /\ \A cell : Obey(t, Command("print", cell)) = PutCell(t, cell)
           /\ Obey(t, Command("newline", 0)) = NewLine(t)
           /\ Obey(t, Command("return", 0)) = CarriageReturn(t)
           /\ Obey(t, Command("alt", 0)) = EnterAltScreen(t)
           /\ \A n : Obey(t, Command("up", n)) = CursorUp(t, n)
           /\ \A n : Obey(t, Command("forward", n)) = CursorForward(t, n)
BY DEF Obey, Command

LEMMA ObeyTyped ==
    ASSUME NEW h \in Nat \ {0}, NEW t \in Emulators(h), NEW order \in Orders
    PROVE  Obey(t, order) \in Emulators(h)
<1>1. CASE order \in [op : {"print"}, arg : Cells]
  <2>1. order.op = "print" /\ order.arg \in Cells
    BY <1>1
  <2>2. Obey(t, order) = PutCell(t, order.arg)
    BY <2>1 DEF Obey
  <2> QED
    BY <2>1, <2>2, PutTyped
<1>2. CASE order \in [op : {"newline", "return", "alt"}, arg : {0}]
  <2>1. order.op \in {"newline", "return", "alt"}
    BY <1>2
  <2>2. Obey(t, order) \in {NewLine(t), CarriageReturn(t), EnterAltScreen(t)}
    BY <2>1 DEF Obey
  <2>3. CarriageReturn(t) \in Emulators(h)
    BY ReturnTyped
  <2>4. NewLine(t) \in Emulators(h)
    BY <2>3, FeedTyped DEF NewLine
  <2>5. EnterAltScreen(t) \in Emulators(h)
    BY AltTyped
  <2> QED
    BY <2>2, <2>3, <2>4, <2>5
<1>3. CASE order \in [op : {"up", "forward"}, arg : Nat]
  <2>1. order.op \in {"up", "forward"} /\ order.arg \in Nat
    BY <1>3
  <2>2. Obey(t, order) \in {CursorUp(t, order.arg), CursorForward(t, order.arg)}
    BY <2>1 DEF Obey
  <2> QED
    BY <2>1, <2>2, CursorTyped
<1> QED
  BY <1>1, <1>2, <1>3 DEF Orders

\* The terminals that a terminal is after each of n commands.
After(after, h, t, script, n) ==
    /\ after \in [0 .. n -> Emulators(h)] /\ after[0] = t /\ ObeyAll(t, script) = after[n]
    /\ \A j \in 1 .. n : after[j] = Obey(after[j - 1], script[j])

\* What obeying command by command comes to.
LEMMA ObeyedOneByOne ==
    ASSUME NEW h \in Nat \ {0}, NEW t \in Emulators(h), NEW script \in Seq(Orders), NEW n, n = Len(script)
    PROVE  \E after : After(after, h, t, script, n)
<1>0. n \in Nat
  BY LenProperties
<1>1. ASSUME NEW x \in Emulators(h), NEW j \in 1 .. n PROVE Obey(x, script[j]) \in Emulators(h)
  <2>1. script[j] \in Orders
    BY ElementOfSeq
  <2> QED
    BY <2>1, ObeyTyped
<1> DEFINE step == [x \in Emulators(h) \X (1 .. n) |-> Obey(x[1], script[x[2]])]
<1> DEFINE Is(g) == g = [j \in 0 .. n |-> IF j = 0 THEN t ELSE Obey(g[j - 1], script[j])]
<1> DEFINE after == CHOOSE g : Is(g)
<1>2. ObeyAll(t, script) = after[n]
  BY DEF ObeyAll
<1>3. step \in [Emulators(h) \X (1 .. n) -> Emulators(h)]
  <2>1. ASSUME NEW x \in Emulators(h) \X (1 .. n) PROVE Obey(x[1], script[x[2]]) \in Emulators(h)
    BY <1>1
  <2> QED
    BY <2>1
<1>4. \A x \in Emulators(h) : \A j \in 1 .. n : step[<<x, j>>] = Obey(x, script[j])
  OBVIOUS
<1>5. PICK g \in [0 .. n -> Emulators(h)] : g[0] = t /\ \A j \in 1 .. n : g[j] = step[<<g[j - 1], j>>]
  <2> HIDE DEF step
  <2>1. \E g \in [0 .. n -> Emulators(h)] : Along(g, n, t, step)
    BY <1>0, <1>3, Recursion
  <2> QED
    BY <2>1 DEF Along
<1> HIDE DEF step
<1>6. ASSUME NEW j \in 1 .. n PROVE g[j] = Obey(g[j - 1], script[j])
  <2>1. g[j - 1] \in Emulators(h)
    BY <1>0
  <2> QED
    BY <1>4, <1>5, <2>1
<1>7. Is(g)
  <2>1. \A j \in 0 .. n : g[j] = IF j = 0 THEN t ELSE Obey(g[j - 1], script[j])
    BY <1>0, <1>5, <1>6
  <2> QED
    BY <2>1
<1>8. Is(after)
  <2> HIDE DEF Is
  <2> QED
    BY <1>7
<1> HIDE DEF after
<1>9. DOMAIN after = 0 .. n /\ after[0] = t /\ \A j \in 1 .. n : after[j] = Obey(after[j - 1], script[j])
  BY <1>0, <1>8
<1>10. \A j \in 0 .. n : after[j] \in Emulators(h)
  <2> DEFINE T == {j \in 0 .. n : after[j] \in Emulators(h)}
  <2>1. 0 \in T
    BY <1>0, <1>9
  <2>2. ASSUME NEW j \in 0 .. n - 1, j \in T PROVE j + 1 \in T
    <3>1. j + 1 \in 1 .. n /\ j + 1 \in 0 .. n /\ (j + 1) - 1 = j
      BY <1>0
    <3>2. after[j + 1] = Obey(after[j], script[j + 1])
      BY <1>9, <3>1
    <3>3. after[j + 1] \in Emulators(h)
      BY <1>1, <2>2, <3>1, <3>2
    <3> QED
      BY <3>1, <3>3
  <2> HIDE DEF T
  <2>3. \A j \in 0 .. n : j \in T
    BY <1>0, <2>1, <2>2, Upward
  <2> QED
    BY <2>3 DEF T
<1>11. after \in [0 .. n -> Emulators(h)]
  BY <1>8, <1>10
<1> QED
  BY <1>2, <1>9, <1>11 DEF After

LEMMA ObeyedTyped ==
    ASSUME NEW h \in Nat \ {0}, NEW t \in Emulators(h), NEW script \in Seq(Orders)
    PROVE  ObeyAll(t, script) \in Emulators(h)
<1> PICK n : n = Len(script)
  OBVIOUS
<1>1. n \in Nat
  BY LenProperties
<1>2. PICK after : After(after, h, t, script, n)
  BY ObeyedOneByOne
<1> QED
  BY <1>1, <1>2 DEF After

LEMMA ObeyNothing ==
    ASSUME NEW h \in Nat \ {0}, NEW t \in Emulators(h), NEW script \in Seq(Orders), Len(script) = 0
    PROVE  ObeyAll(t, script) = t
<1>1. PICK after : After(after, h, t, script, 0)
  BY ObeyedOneByOne
<1> QED
  BY <1>1 DEF After

LEMMA ObeyOne ==
    ASSUME NEW h \in Nat \ {0}, NEW t \in Emulators(h), NEW order \in Orders
    PROVE  ObeyAll(t, <<order>>) = Obey(t, order)
<1> PICK script : script = <<order>>
  OBVIOUS
<1>1. script \in Seq(Orders) /\ Len(script) = 1 /\ script[1] = order
  OBVIOUS
<1>2. PICK after : After(after, h, t, script, 1)
  BY <1>1, ObeyedOneByOne
<1>3. after[0] = t /\ ObeyAll(t, script) = after[1]
  BY <1>2 DEF After
<1>4. after[1] = Obey(after[1 - 1], script[1])
  BY <1>2 DEF After
<1> QED
  BY <1>1, <1>3, <1>4

\* A script and then another.
LEMMA ObeyJoined ==
    ASSUME NEW h \in Nat \ {0}, NEW t \in Emulators(h), NEW s \in Seq(Orders), NEW r \in Seq(Orders)
    PROVE  ObeyAll(t, s \o r) = ObeyAll(ObeyAll(t, s), r)
<1> PICK q : q = s \o r
  OBVIOUS
<1> PICK m : m = Len(s)
  OBVIOUS
<1> PICK n : n = Len(r)
  OBVIOUS
<1>0. m \in Nat /\ n \in Nat
  BY LenProperties
<1>1. /\ q \in Seq(Orders) /\ Len(q) = m + n
      /\ \A i \in 1 .. m : q[i] = s[i]
      /\ \A i \in 1 .. n : q[m + i] = r[i]
  BY ConcatProperties
<1> PICK u : u = ObeyAll(t, s)
  OBVIOUS
<1>2. u \in Emulators(h)
  BY ObeyedTyped
<1>3. PICK a : After(a, h, t, s, m)
  BY ObeyedOneByOne
<1>4. PICK b : After(b, h, u, r, n)
  BY <1>2, ObeyedOneByOne
<1>5. PICK c : After(c, h, t, q, m + n)
  BY <1>1, ObeyedOneByOne
<1>6. \A j \in 0 .. m : c[j] = a[j]
  <2> DEFINE T == {j \in 0 .. m : c[j] = a[j]}
  <2>1. 0 \in T
    BY <1>0, <1>3, <1>5 DEF After
  <2>2. ASSUME NEW j \in 0 .. m - 1, j \in T PROVE j + 1 \in T
    <3>1. j + 1 \in 1 .. m /\ j + 1 \in 0 .. m /\ j + 1 \in 1 .. m + n /\ (j + 1) - 1 = j
      BY <1>0
    <3>2. c[j + 1] = Obey(c[j], q[j + 1])
      BY <1>5, <3>1 DEF After
    <3>3. a[j + 1] = Obey(a[j], s[j + 1])
      BY <1>3, <3>1 DEF After
    <3>4. q[j + 1] = s[j + 1]
      BY <1>1, <3>1
    <3> QED
      BY <2>2, <3>1, <3>2, <3>3, <3>4
  <2> HIDE DEF T
  <2>3. \A j \in 0 .. m : j \in T
    BY <1>0, <2>1, <2>2, Upward
  <2> QED
    BY <2>3 DEF T
<1>7. c[m] = u
  BY <1>0, <1>3, <1>6 DEF After
<1>8. \A j \in 0 .. n : c[m + j] = b[j]
  <2> DEFINE T == {j \in 0 .. n : c[m + j] = b[j]}
  <2>1. 0 \in T
    <3>1. m + 0 = m
      BY <1>0
    <3> QED
      BY <1>0, <1>4, <1>7, <3>1 DEF After
  <2>2. ASSUME NEW j \in 0 .. n - 1, j \in T PROVE j + 1 \in T
    <3>1. /\ j + 1 \in 1 .. n /\ j + 1 \in 0 .. n /\ m + (j + 1) \in 1 .. m + n
          /\ (j + 1) - 1 = j /\ (m + (j + 1)) - 1 = m + j
      BY <1>0
    <3>2. c[m + (j + 1)] = Obey(c[m + j], q[m + (j + 1)])
      <4> PICK k \in 1 .. m + n : k = m + (j + 1)
        BY <3>1
      <4>1. c[k] = Obey(c[k - 1], q[k])
        BY <1>5 DEF After
      <4> QED
        BY <3>1, <4>1
    <3>3. b[j + 1] = Obey(b[j], r[j + 1])
      BY <1>4, <3>1 DEF After
    <3>4. q[m + (j + 1)] = r[j + 1]
      BY <1>1, <3>1
    <3> QED
      BY <2>2, <3>1, <3>2, <3>3, <3>4
  <2> HIDE DEF T
  <2>3. \A j \in 0 .. n : j \in T
    BY <1>0, <2>1, <2>2, Upward
  <2> QED
    BY <2>3 DEF T
<1>9. c[m + n] = b[n]
  BY <1>0, <1>8
<1> QED
  BY <1>4, <1>5, <1>9 DEF After

--------------------------------------------------------------------------------
(* Flattening.                                                                  *)

\* f is what a sequence of n sequences comes to, part by part.
Flattening(f, parts, n, S) ==
    /\ f \in [0 .. n -> Seq(S)] /\ f[0] = <<>>
    /\ \A i \in 1 .. n : f[i] = f[i - 1] \o parts[i]
    /\ n > 0 => FlattenSeq(parts) = f[n]

LEMMA Flattened ==
    ASSUME NEW S, NEW parts \in Seq(Seq(S)), NEW n, n = Len(parts)
    PROVE  \E f : Flattening(f, parts, n, S)
<1>0. n \in Nat /\ \A i \in 1 .. n : parts[i] \in Seq(S)
  BY LenProperties, ElementOfSeq
<1>1. \A x \in Seq(S), y \in Seq(S) : x \o y \in Seq(S)
  BY ConcatProperties
<1>2. <<>> \in Seq(S)
  BY EmptySeq
<1> DEFINE step == [x \in Seq(S) \X (1 .. n) |-> x[1] \o parts[x[2]]]
<1>3. step \in [Seq(S) \X (1 .. n) -> Seq(S)]
  <2>1. ASSUME NEW x \in Seq(S) \X (1 .. n) PROVE x[1] \o parts[x[2]] \in Seq(S)
    BY <1>0, <1>1
  <2> QED
    BY <2>1
<1>4. \A x \in Seq(S) : \A j \in 1 .. n : step[<<x, j>>] = x \o parts[j]
  OBVIOUS
<1>5. PICK f \in [0 .. n -> Seq(S)] : f[0] = <<>> /\ \A j \in 1 .. n : f[j] = step[<<f[j - 1], j>>]
  <2> HIDE DEF step
  <2>1. \E f \in [0 .. n -> Seq(S)] : Along(f, n, <<>>, step)
    BY <1>0, <1>2, <1>3, Recursion
  <2> QED
    BY <2>1 DEF Along
<1> HIDE DEF step
<1>6. ASSUME NEW j \in 1 .. n PROVE f[j] = f[j - 1] \o parts[j]
  <2>0. j - 1 \in 0 .. n
    BY <1>0
  <2>1. f[j - 1] \in Seq(S)
    BY <2>0
  <2> QED
    BY <1>4, <1>5, <2>1
<1>7. ASSUME n > 0 PROVE FlattenSeq(parts) = f[n]
  <2> DEFINE Is(g) == g = [i \in 1 .. n |-> IF i = 1 THEN parts[i] ELSE g[i - 1] \o parts[i]]
  <2> DEFINE flatten == CHOOSE g : Is(g)
  <2>1. FlattenSeq(parts) = flatten[n]
    <3>1. n # 0
      BY <1>0, <1>7
    <3> QED
      BY <3>1 DEF FlattenSeq
  <2> PICK g : g = [i \in 1 .. n |-> f[i]]
    OBVIOUS
  <2>2. DOMAIN g = 1 .. n /\ \A i \in 1 .. n : g[i] = f[i]
    OBVIOUS
  <2>3. ASSUME NEW i \in 1 .. n PROVE g[i] = IF i = 1 THEN parts[i] ELSE g[i - 1] \o parts[i]
    <3>1. CASE i = 1
      <4>1. f[1] = f[1 - 1] \o parts[1]
        BY <1>6, <3>1
      <4>2. f[1 - 1] = <<>>
        BY <1>5
      <4>3. <<>> \o parts[1] = parts[1]
        BY <1>0, <3>1, ConcatEmptySeq
      <4> QED
        BY <2>2, <3>1, <4>1, <4>2, <4>3
    <3>2. CASE i # 1
      <4>1. i - 1 \in 1 .. n
        BY <1>0, <3>2
      <4> QED
        BY <1>6, <2>2, <3>2, <4>1
    <3> QED
      BY <3>1, <3>2
  <2>4. Is(g)
    BY <2>2, <2>3
  <2>5. Is(flatten)
    <3> HIDE DEF Is
    <3> QED
      BY <2>4
  <2> HIDE DEF flatten
  <2>6. DOMAIN flatten = 1 .. n
        /\ \A i \in 1 .. n : flatten[i] = IF i = 1 THEN parts[i] ELSE flatten[i - 1] \o parts[i]
    BY <1>0, <2>5
  <2> HIDE DEF Is
  <2> DEFINE T == {j \in 0 .. n : j # 0 => flatten[j] = f[j]}
  <2>7. 0 \in T
    BY <1>0
  <2>8. ASSUME NEW j \in 0 .. n - 1, j \in T PROVE j + 1 \in T
    <3>1. j + 1 \in 1 .. n /\ j + 1 \in 0 .. n /\ (j + 1) - 1 = j
      BY <1>0
    <3>2. CASE j = 0
      <4>0. 1 \in 1 .. n /\ j + 1 = 1
        BY <3>1, <3>2
      <4>1. g[1] = parts[1]
        BY <2>3, <4>0
      <4>2. flatten[1] = parts[1]
        BY <2>6, <4>0
      <4>3. g[1] = f[1]
        BY <2>2, <4>0
      <4> QED
        BY <3>1, <4>0, <4>1, <4>2, <4>3
    <3>3. CASE j # 0
      <4>1. flatten[j] = f[j]
        BY <2>8, <3>3
      <4>2. j + 1 # 1
        BY <3>3
      <4>3. flatten[j + 1] = flatten[j] \o parts[j + 1]
        BY <2>6, <3>1, <4>2
      <4>4. f[j + 1] = f[j] \o parts[j + 1]
        BY <1>6, <3>1
      <4> QED
        BY <3>1, <4>1, <4>3, <4>4
    <3> QED
      BY <3>2, <3>3
  <2> HIDE DEF T
  <2>9. \A j \in 0 .. n : j \in T
    BY <1>0, <2>7, <2>8, Upward
  <2>10. n \in T /\ n # 0
    BY <1>0, <1>7, <2>9
  <2> QED
    BY <2>1, <2>10 DEF T
<1> QED
  BY <1>5, <1>6, <1>7 DEF Flattening

--------------------------------------------------------------------------------
(* What the client's terminal shows on the way.                                 *)

\* The first k cells of a row.
First(row, k) == [i \in 1 .. Columns |-> IF i <= k THEN row[i] ELSE Blank]

\* How many of n lines scrolled off a terminal of height h.
Above(n, h) == IF n > h THEN n - h ELSE 0

\* The terminal shows the lines of L up to the k-th cell of the n-th, which was
\* written last; alt: on the alternate screen.
Shows(t, h, alt, L, n, k) ==
    /\ t \in Emulators(h) /\ (t.altScreen <=> alt) /\ (alt => n <= h)
    /\ (t.phantom <=> k = Columns) /\ t.x = (IF k = Columns THEN k - 1 ELSE k)
    /\ t.y = n - 1 - Above(n, h)
    /\ Len(t.scrollback) = Above(n, h)
    /\ \A i \in 1 .. Above(n, h) : t.scrollback[i] = L[i]
    /\ \A i \in 1 .. t.y : t.screen[i] = L[Above(n, h) + i]
    /\ t.screen[t.y + 1] = First(L[n], k)
    /\ \A i \in t.y + 2 .. h : t.screen[i] = BlankRow

LEMMA FirstRows ==
    ASSUME NEW row \in Lines
    PROVE  /\ \A k \in 0 .. Columns : First(row, k) \in Lines
           /\ First(row, 0) = BlankRow
           /\ First(row, Columns) = row
<1>1. \A k \in 0 .. Columns : First(row, k) \in Lines
  BY Width DEF First, Lines, Cells
<1>2. First(row, 0) = BlankRow
  <2>1. \A i \in 1 .. Columns : ~(i <= 0)
    BY Width
  <2> QED
    BY <2>1 DEF First, BlankRow
<1>3. First(row, Columns) = row
  BY Width DEF First, Lines
<1> QED
  BY <1>1, <1>2, <1>3

LEMMA FirstGrows ==
    ASSUME NEW row \in Lines, NEW k \in 0 .. Columns - 1
    PROVE  [First(row, k) EXCEPT ![k + 1] = row[k + 1]] = First(row, k + 1)
<1>1. k + 1 \in 1 .. Columns
  BY Width
<1>2. \A i \in 1 .. Columns : i <= k + 1 <=> i <= k \/ i = k + 1
  BY Width
<1> QED
  BY <1>1, <1>2 DEF First

LEMMA CellShown ==
    ASSUME NEW h \in Nat \ {0}, NEW alt, NEW N \in Nat \ {0}, NEW L \in [1 .. N -> Lines],
           NEW n \in 1 .. N, NEW k \in 0 .. Columns - 1, NEW t, Shows(t, h, alt, L, n, k)
    PROVE  Shows(PutCell(t, L[n][k + 1]), h, alt, L, n, k + 1)
<1> PICK row : row = L[n]
  OBVIOUS
<1> PICK cell : cell = row[k + 1]
  OBVIOUS
<1>0. row \in Lines /\ cell \in Cells /\ k # Columns /\ k + 1 \in 1 .. Columns
  BY Width DEF Lines
<1>1. t \in Emulators(h) /\ ~t.phantom /\ t.x = k /\ t.y \in 0 .. h - 1
  BY <1>0 DEF Shows, Emulators
<1> PICK u : u = PutCell(t, cell)
  OBVIOUS
<1>2. u \in Emulators(h)
  BY <1>0, <1>1, PutTyped
<1>3. u = [t EXCEPT !.screen[t.y + 1][k + 1] = cell, !.phantom = k + 1 = Columns,
                    !.x = IF k + 1 = Columns THEN @ ELSE @ + 1]
  BY <1>1 DEF PutCell
<1>4. /\ u.altScreen = t.altScreen /\ u.y = t.y /\ u.scrollback = t.scrollback
      /\ u.phantom = (k + 1 = Columns) /\ u.x = (IF k + 1 = Columns THEN k ELSE k + 1)
      /\ u.screen = [t.screen EXCEPT ![t.y + 1][k + 1] = cell]
  BY <1>1, <1>3 DEF Emulators
<1>5. t.screen \in Screens(h) /\ t.y + 1 \in 1 .. h
  BY <1>1 DEF Emulators
<1>6. u.screen[t.y + 1] = First(row, k + 1)
  <2>1. u.screen[t.y + 1] = [t.screen[t.y + 1] EXCEPT ![k + 1] = cell]
    BY <1>4, <1>5 DEF Screens
  <2>2. t.screen[t.y + 1] = First(row, k)
    BY DEF Shows
  <2> QED
    BY <1>0, <2>1, <2>2, FirstGrows
<1>7. \A i \in 1 .. h : i # t.y + 1 => u.screen[i] = t.screen[i]
  BY <1>4, <1>5 DEF Screens
<1>8. (\A i \in 1 .. t.y : i \in 1 .. h /\ i # t.y + 1) /\ (\A i \in t.y + 2 .. h : i \in 1 .. h /\ i # t.y + 1)
  BY <1>1
<1>9. u.x = (IF k + 1 = Columns THEN (k + 1) - 1 ELSE k + 1)
  BY <1>4
<1>10. (u.altScreen <=> alt) /\ (alt => n <= h) /\ (u.phantom <=> k + 1 = Columns)
  BY <1>4 DEF Shows
<1>11. /\ u.y = n - 1 - Above(n, h) /\ Len(u.scrollback) = Above(n, h)
       /\ \A i \in 1 .. Above(n, h) : u.scrollback[i] = L[i]
  BY <1>4 DEF Shows
<1>12. \A i \in 1 .. u.y : u.screen[i] = L[Above(n, h) + i]
  BY <1>4, <1>7, <1>8 DEF Shows
<1>13. \A i \in u.y + 2 .. h : u.screen[i] = BlankRow
  BY <1>4, <1>7, <1>8 DEF Shows
<1> QED
  BY <1>2, <1>4, <1>6, <1>9, <1>10, <1>11, <1>12, <1>13 DEF Shows

LEMMA LineShown ==
    ASSUME NEW h \in Nat \ {0}, NEW alt, NEW N \in Nat \ {0}, NEW L \in [1 .. N -> Lines],
           NEW n \in 1 .. N - 1, NEW k \in 0 .. Columns, NEW t, Shows(t, h, alt, L, n, k),
           First(L[n], k) = L[n], alt => n + 1 <= h
    PROVE  Shows(NewLine(t), h, alt, L, n + 1, 0)
<1> PICK d : d = Above(n, h)
  OBVIOUS
<1> PICK m : m = n + 1
  OBVIOUS
<1>0. /\ m \in 1 .. N /\ n \in 1 .. N /\ L[m] \in Lines /\ d \in 0 .. n - 1 /\ 0 # Columns
      /\ (n < h => d = 0 /\ Above(m, h) = 0) /\ (~(n < h) => d = n - h /\ Above(m, h) = d + 1)
  BY Width DEF Above
<1> PICK y : y = n - 1 - d
  OBVIOUS
<1>1. /\ t \in Emulators(h) /\ (t.altScreen <=> alt) /\ t.y = y /\ y \in 0 .. h - 1
      /\ Len(t.scrollback) = d /\ \A i \in 1 .. d : t.scrollback[i] = L[i]
  BY DEF Shows, Emulators
<1>2. \A i \in 1 .. y + 1 : t.screen[i] = L[d + i]
  <2>1. t.screen[y + 1] = L[d + (y + 1)]
    <3>1. d + (y + 1) = n
      BY <1>0
    <3> QED
      BY <1>1, <3>1 DEF Shows
  <2>2. \A i \in 1 .. y : t.screen[i] = L[d + i]
    BY <1>1 DEF Shows
  <2>3. \A i \in 1 .. y + 1 : i \in 1 .. y \/ i = y + 1
    BY <1>1
  <2> QED
    BY <2>1, <2>2, <2>3
<1>3. \A i \in y + 2 .. h : t.screen[i] = BlankRow
  BY <1>1 DEF Shows
<1> PICK u : u = NewLine(t)
  OBVIOUS
<1>4. u \in Emulators(h)
  BY <1>1, ReturnTyped, FeedTyped DEF NewLine
<1> PICK s : s = t.screen
  OBVIOUS
<1> PICK r : r = Append(Tail(s), BlankRow)
  OBVIOUS
<1>5. s \in Screens(h)
  BY <1>1 DEF Emulators
<1>6. /\ r \in Screens(h) /\ Len(s) = h
      /\ \A i \in 1 .. h - 1 : r[i] = s[i + 1]
      /\ r[h] = BlankRow
  BY <1>5, ScreenRolls DEF RollsTo
<1>7. First(L[m], 0) = BlankRow
  BY <1>0, FirstRows
<1> PICK c : c = CarriageReturn(t)
  OBVIOUS
<1>8. /\ c.x = 0 /\ c.phantom = FALSE /\ c.y = y /\ c.screen = s /\ c.scrollback = t.scrollback
      /\ c.altScreen = t.altScreen /\ u = LineFeed(c) /\ c \in Emulators(h)
  BY <1>1, ReturnTyped DEF CarriageReturn, Emulators, NewLine
<1>9. CASE n < h
  <2>1. y + 1 < Len(c.screen) /\ y = n - 1
    BY <1>0, <1>6, <1>8, <1>9
  <2>2. u = [c EXCEPT !.y = @ + 1]
    BY <1>8, <2>1 DEF LineFeed
  <2>3. /\ u.x = 0 /\ u.phantom = FALSE /\ u.y = y + 1 /\ u.screen = s /\ u.scrollback = t.scrollback
        /\ u.altScreen = t.altScreen
    BY <1>8, <2>2 DEF Emulators
  <2>4. u.y = m - 1 - Above(m, h)
    BY <1>0, <1>9, <2>1, <2>3
  <2>5. \A i \in 1 .. u.y : u.screen[i] = L[Above(m, h) + i]
    BY <1>0, <1>2, <1>9, <2>3
  <2>6. u.screen[u.y + 1] = First(L[m], 0)
    <3>1. (y + 1) + 1 \in y + 2 .. h
      BY <1>9, <2>1
    <3> QED
      BY <1>3, <1>7, <2>3, <3>1
  <2>7. \A i \in u.y + 2 .. h : u.screen[i] = BlankRow
    <3>1. \A i \in (y + 1) + 2 .. h : i \in y + 2 .. h
      BY <1>1
    <3> QED
      BY <1>3, <2>3, <3>1
  <2>8. Len(u.scrollback) = Above(m, h) /\ \A i \in 1 .. Above(m, h) : u.scrollback[i] = L[i]
    BY <1>0, <1>1, <1>9, <2>3
  <2>9. alt => m <= h
    BY <1>9
  <2> QED
    BY <1>0, <1>1, <1>4, <2>3, <2>4, <2>5, <2>6, <2>7, <2>8, <2>9 DEF Shows
<1>10. CASE ~(n < h)
  <2>1. ~(y + 1 < Len(c.screen)) /\ y = h - 1 /\ ~alt
    BY <1>0, <1>6, <1>8, <1>10
  <2>2. u = [c EXCEPT !.screen = r, !.scrollback = Append(t.scrollback, s[1])]
    BY <1>1, <1>8, <2>1 DEF LineFeed
  <2> PICK b : b = Append(t.scrollback, s[1])
    OBVIOUS
  <2>3. /\ u.x = 0 /\ u.phantom = FALSE /\ u.y = y /\ u.screen = r /\ u.scrollback = b
        /\ u.altScreen = t.altScreen
    BY <1>8, <2>2 DEF Emulators
  <2>4. u.y = m - 1 - Above(m, h)
    BY <1>0, <1>10, <2>1, <2>3
  <2>5. \A i \in 1 .. u.y : u.screen[i] = L[Above(m, h) + i]
    <3> SUFFICES ASSUME NEW i \in 1 .. y PROVE r[i] = L[(d + 1) + i]
      BY <1>0, <1>10, <2>3
    <3>1. i \in 1 .. h - 1 /\ i + 1 \in 1 .. y + 1 /\ d + (i + 1) = (d + 1) + i
      BY <1>0, <2>1
    <3>2. r[i] = s[i + 1] /\ s[i + 1] = L[d + (i + 1)]
      BY <1>2, <1>6, <3>1
    <3> QED
      BY <3>1, <3>2
  <2>6. u.screen[u.y + 1] = First(L[m], 0)
    <3>1. y + 1 = h
      BY <2>1
    <3> QED
      BY <1>6, <1>7, <2>3, <3>1
  <2>7. \A i \in u.y + 2 .. h : u.screen[i] = BlankRow
    BY <2>1, <2>3
  <2>8. s[1] = L[d + 1] /\ s[1] \in Lines
    <3>1. 1 \in 1 .. y + 1 /\ 1 \in 1 .. h
      BY <1>1
    <3> QED
      BY <1>2, <1>5, <3>1 DEF Screens
  <2>9. t.scrollback \in Seq(Lines)
    BY <1>1 DEF Emulators
  <2>10. Len(b) = d + 1 /\ (\A i \in 1 .. d : b[i] = t.scrollback[i]) /\ b[d + 1] = s[1]
    BY <1>1, <2>8, <2>9, AppendProperties
  <2>11. Len(u.scrollback) = Above(m, h) /\ \A i \in 1 .. Above(m, h) : u.scrollback[i] = L[i]
    <3>1. Above(m, h) = d + 1 /\ \A i \in 1 .. d + 1 : i \in 1 .. d \/ i = d + 1
      BY <1>0, <1>10
    <3> QED
      BY <1>1, <2>3, <2>8, <2>10, <3>1
  <2> QED
    BY <1>0, <1>1, <1>4, <2>1, <2>3, <2>4, <2>5, <2>6, <2>7, <2>11 DEF Shows
<1> QED
  BY <1>9, <1>10

\* r writes the first m cells of a row.
Writes(r, row, m) ==
    /\ r \in Seq(Orders) /\ Len(r) = m
    /\ \A i \in 1 .. m : r[i] = Command("print", row[i])

LEMMA CellsWritten ==
    ASSUME NEW m \in Nat, NEW row \in [1 .. m -> Cells]
    PROVE  Writes(writeCells(row), row, m)
<1> PICK r : r = writeCells(row)
  OBVIOUS
<1>1. r = [i \in 1 .. m |-> Command("print", row[i])]
  BY DEF writeCells
<1>2. \A i \in 1 .. m : Command("print", row[i]) \in Orders
  BY OrdersGiven
<1>3. r \in [1 .. m -> Orders]
  BY <1>1, <1>2
<1>4. r \in Seq(Orders) /\ Len(r) = m
  BY <1>3, SeqDef, LenProperties
<1> QED
  BY <1>1, <1>4 DEF Writes

LEMMA RowShown ==
    ASSUME NEW h \in Nat \ {0}, NEW alt, NEW N \in Nat \ {0}, NEW L \in [1 .. N -> Lines],
           NEW n \in 1 .. N, NEW t, Shows(t, h, alt, L, n, 0),
           NEW m \in 0 .. Columns, NEW r, Writes(r, L[n], m)
    PROVE  Shows(ObeyAll(t, r), h, alt, L, n, m)
<1>0. m \in Nat /\ r \in Seq(Orders) /\ Len(r) = m /\ t \in Emulators(h)
  BY Width DEF Writes, Shows
<1>1. PICK after : After(after, h, t, r, m)
  BY <1>0, ObeyedOneByOne
<1> DEFINE T == {j \in 0 .. m : Shows(after[j], h, alt, L, n, j)}
<1>2. 0 \in T
  BY <1>0, <1>1 DEF After
<1>3. ASSUME NEW j \in 0 .. m - 1, j \in T PROVE j + 1 \in T
  <2>1. j + 1 \in 1 .. m /\ j + 1 \in 0 .. m /\ (j + 1) - 1 = j /\ j \in 0 .. Columns - 1
    BY <1>0, Width
  <2> PICK u : u = after[j]
    OBVIOUS
  <2>2. Shows(u, h, alt, L, n, j)
    BY <1>3
  <2> HIDE DEF T
  <2>3. after[j + 1] = Obey(u, Command("print", L[n][j + 1]))
    BY <1>1, <2>1 DEF After, Writes
  <2>4. after[j + 1] = PutCell(u, L[n][j + 1])
    BY <2>3, ObeyIs
  <2>5. Shows(PutCell(u, L[n][j + 1]), h, alt, L, n, j + 1)
    BY <2>1, <2>2, CellShown
  <2> QED
    BY <2>1, <2>4, <2>5 DEF T
<1>4. \A j \in 0 .. m : j \in T
  <2> HIDE DEF T
  <2> QED
    BY <1>0, <1>2, <1>3, Upward
<1>5. Shows(after[m], h, alt, L, n, m)
  BY <1>0, <1>4
<1> QED
  BY <1>1, <1>5 DEF After

\* m is the last cell of the row that is not blank.
TrimsTo(row, m) ==
    /\ m \in 0 .. Columns /\ First(row, m) = row
    /\ TrimmedRow(row) \in [1 .. m -> Cells]
    /\ \A i \in 1 .. m : TrimmedRow(row)[i] = row[i]

LEMMA RowTrimmed == ASSUME NEW row \in Lines PROVE \E m : TrimsTo(row, m)
<1> PICK S : S = {0} \cup {i \in DOMAIN row : row[i] # Blank}
  OBVIOUS
<1>0. S \in SUBSET (0 .. Columns) /\ 0 \in S /\ \A i \in 1 .. Columns : row[i] # Blank => i \in S
  BY Width DEF Lines
<1> PICK T : T = {j \in Nat : \E i \in S : j = Columns - i}
  OBVIOUS
<1>1. PICK x \in T : \A y \in T : x <= y
  <2>1. T \in SUBSET Nat /\ Columns \in T
    BY <1>0, Width
  <2> QED
    BY <2>1, LeastOf
<1> PICK m \in S : x = Columns - m
  OBVIOUS
<1>2. \A i \in S : m >= i
  <2> SUFFICES ASSUME NEW i \in S PROVE m >= i
    OBVIOUS
  <2>1. i \in 0 .. Columns /\ m \in 0 .. Columns
    BY <1>0
  <2>2. Columns - i \in T
    BY <2>1, Width
  <2>3. Columns - m <= Columns - i
    BY <1>1, <2>2
  <2> QED
    BY <2>1, <2>3, Width
<1>3. Max(S) = m
  <2>1. Max(S) \in S /\ \A i \in S : Max(S) >= i
    BY <1>2 DEF Max
  <2> QED
    BY <1>0, <1>2, <2>1
<1>4. m \in 0 .. Columns
  BY <1>0
<1>5. First(row, m) = row
  <2>1. \A i \in 1 .. Columns : ~(i <= m) => row[i] = Blank
    BY <1>0, <1>2, <1>4
  <2> QED
    BY <2>1 DEF First, Lines
<1> PICK r : r = TrimmedRow(row)
  OBVIOUS
<1>6. r = SubSeq(row, 1, m)
  BY <1>3 DEF TrimmedRow
<1>7. r \in [1 .. m -> Cells] /\ \A i \in 1 .. m : r[i] = row[i]
  <2>1. row \in Seq(Cells) /\ Len(row) = Columns
    BY Width, SeqDef, LenProperties DEF Lines
  <2>2. SubSeq(row, 1, m) = [i \in 1 .. m |-> row[i]]
    BY <1>4, Width DEF Lines
  <2>3. \A i \in 1 .. m : row[i] \in Cells
    BY <1>4, Width DEF Lines
  <2> QED
    BY <1>6, <2>2, <2>3
<1> QED
  BY <1>4, <1>5, <1>7 DEF TrimsTo

LEMMA ScreenHeight == ASSUME NEW h \in Nat \ {0}, NEW t \in Emulators(h) PROVE Len(t.screen) = h
<1> PICK s : s = t.screen
  OBVIOUS
<1>1. s \in Screens(h)
  BY DEF Emulators
<1>2. RollsTo(h, s, Append(Tail(s), BlankRow))
  BY <1>1, ScreenRolls
<1> QED
  BY <1>2 DEF RollsTo

LEMMA ObeyAppended ==
    ASSUME NEW h \in Nat \ {0}, NEW t \in Emulators(h), NEW s \in Seq(Orders), NEW order \in Orders
    PROVE  /\ Append(s, order) \in Seq(Orders)
           /\ ObeyAll(t, Append(s, order)) = Obey(ObeyAll(t, s), order)
<1> PICK one : one = <<order>>
  OBVIOUS
<1>1. one \in Seq(Orders) /\ Len(one) = 1 /\ one[1] = order
  OBVIOUS
<1>2. Append(s, order) = s \o one
  BY <1>1
<1>3. ObeyAll(t, s \o one) = ObeyAll(ObeyAll(t, s), one)
  BY <1>1, ObeyJoined
<1> PICK u : u = ObeyAll(t, s)
  OBVIOUS
<1>4. u \in Emulators(h)
  BY ObeyedTyped
<1>5. ObeyAll(u, one) = Obey(u, order)
  BY <1>4, ObeyOne
<1> QED
  BY <1>2, <1>3, <1>5, AppendProperties

\* A new terminal, and one on the alternate screen, are ready for the first cell.
LEMMA ShowsNothing ==
    ASSUME NEW h \in Nat \ {0}, NEW L
    PROVE  /\ Shows(NewTerminal(h), h, FALSE, L, 1, 0)
           /\ Shows(EnterAltScreen(NewTerminal(h)), h, TRUE, L, 1, 0)
<1> PICK t : t = NewTerminal(h)
  OBVIOUS
<1>0. /\ t \in Emulators(h) /\ 0 # Columns /\ Above(1, h) = 0
  BY NewTyped, Width DEF Above
<1>1. /\ t.x = 0 /\ t.y = 0 /\ t.phantom = FALSE /\ t.scrollback = <<>> /\ t.altScreen = FALSE
      /\ t.screen = BlankScreen(h)
  BY DEF NewTerminal
<1>2. First(L[1], 0) = BlankRow
  <2>1. \A i \in 1 .. Columns : ~(i <= 0)
    BY Width
  <2> QED
    BY <2>1 DEF First, BlankRow
<1>3. Len(t.scrollback) = 0
  BY <1>1
<1>4. \A i \in 1 .. h : t.screen[i] = BlankRow
  BY <1>1 DEF BlankScreen
<1>5. 0 + 1 \in 1 .. h /\ \A i \in 0 + 2 .. h : i \in 1 .. h
  OBVIOUS
<1>6. Shows(t, h, FALSE, L, 1, 0)
  BY <1>0, <1>1, <1>2, <1>3, <1>4, <1>5 DEF Shows
<1> PICK u : u = EnterAltScreen(t)
  OBVIOUS
<1>7. u \in Emulators(h)
  BY <1>0, AltTyped
<1>8. Len(t.screen) = h
  BY <1>0, ScreenHeight
<1>9. u = [t EXCEPT !.altScreen = TRUE, !.scrollback = t.scrollback,
                    !.main = <<[screen |-> t.screen, x |-> t.x, y |-> t.y]>>]
  BY <1>1, <1>8 DEF EnterAltScreen
<1>10. /\ u.x = 0 /\ u.y = 0 /\ u.phantom = FALSE /\ u.scrollback = t.scrollback /\ u.altScreen = TRUE
       /\ u.screen = t.screen
  BY <1>0, <1>1, <1>9 DEF Emulators
<1>11. Shows(u, h, TRUE, L, 1, 0)
  BY <1>0, <1>2, <1>3, <1>4, <1>5, <1>7, <1>10 DEF Shows
<1> QED
  BY <1>6, <1>11

\* script brought c to the N-th line, of which only blanks are left to write.
Reached(c, h, alt, L, N, script) ==
    /\ script \in Seq(Orders)
    /\ \E k \in 0 .. Columns : Shows(c, h, alt, L, N, k) /\ First(L[N], k) = L[N]

\* A row up to its last cell that is not blank is the row.
LEMMA TrimmedShown ==
    ASSUME NEW h \in Nat \ {0}, NEW alt, NEW N \in Nat \ {0}, NEW L \in [1 .. N -> Lines],
           NEW n \in 1 .. N, NEW t, Shows(t, h, alt, L, n, 0)
    PROVE  Reached(ObeyAll(t, writeCells(TrimmedRow(L[n]))), h, alt, L, n, writeCells(TrimmedRow(L[n])))
<1> PICK w : w = writeCells(TrimmedRow(L[n]))
  OBVIOUS
<1> PICK row : row = L[n]
  OBVIOUS
<1>1. row \in Lines
  OBVIOUS
<1>2. PICK k : TrimsTo(row, k)
  BY <1>1, RowTrimmed
<1> PICK trimmed : trimmed = TrimmedRow(row)
  OBVIOUS
<1>3. /\ k \in 0 .. Columns /\ k \in Nat /\ First(row, k) = row /\ trimmed \in [1 .. k -> Cells]
      /\ \A i \in 1 .. k : trimmed[i] = row[i]
  BY <1>2, Width DEF TrimsTo
<1>4. Writes(w, trimmed, k)
  BY <1>3, CellsWritten
<1>5. Writes(w, row, k)
  BY <1>3, <1>4 DEF Writes
<1>6. Shows(ObeyAll(t, w), h, alt, L, n, k)
  BY <1>3, <1>5, RowShown
<1> QED
  BY <1>3, <1>5, <1>6 DEF Writes, Reached

LEMMA HistoryShown ==
    ASSUME NEW h \in Nat \ {0}, NEW N \in Nat \ {0}, NEW L \in [1 .. N -> Lines], NEW t,
           t.scrollback \in Seq(Lines), NEW d, d = Len(t.scrollback), d < N,
           \A i \in 1 .. d : L[i] = t.scrollback[i], NEW c, Shows(c, h, FALSE, L, 1, 0)
    PROVE  /\ HistoryScript(t) \in Seq(Orders)
           /\ Shows(ObeyAll(c, HistoryScript(t)), h, FALSE, L, d + 1, 0)
<1> PICK newline : newline = Command("newline", 0)
  OBVIOUS
<1> PICK parts : parts = [i \in DOMAIN t.scrollback |-> Append(writeCells(t.scrollback[i]), newline)]
  OBVIOUS
<1>0. /\ d \in Nat /\ newline \in Orders /\ c \in Emulators(h) /\ DOMAIN t.scrollback = 1 .. d
      /\ Columns \in Nat /\ Columns \in 0 .. Columns
  BY OrdersGiven, LenProperties, Width DEF Shows
<1>1. ASSUME NEW i \in 1 .. d
      PROVE  /\ Writes(writeCells(t.scrollback[i]), L[i], Columns)
             /\ parts[i] = Append(writeCells(t.scrollback[i]), newline) /\ parts[i] \in Seq(Orders)
  <2> PICK w : w = writeCells(t.scrollback[i])
    OBVIOUS
  <2>1. L[i] \in [1 .. Columns -> Cells]
    BY <1>0 DEF Lines
  <2>2. Writes(w, L[i], Columns)
    BY <1>0, <2>1, CellsWritten
  <2>3. parts[i] = Append(w, newline)
    BY <1>0
  <2>4. w \in Seq(Orders)
    BY <2>2 DEF Writes
  <2> QED
    BY <1>0, <2>2, <2>3, <2>4, AppendProperties
<1>2. parts \in Seq(Seq(Orders)) /\ Len(parts) = d
  <2>1. parts \in [1 .. d -> Seq(Orders)]
    BY <1>0, <1>1
  <2> QED
    BY <1>0, <2>1, SeqDef, LenProperties
<1> PICK script : script = HistoryScript(t)
  OBVIOUS
<1>3. script = FlattenSeq(parts)
  BY DEF HistoryScript
<1>4. CASE d = 0
  <2>1. script = parts /\ parts = <<>>
    BY <1>2, <1>3, <1>4, EmptySeq DEF FlattenSeq
  <2>2. script \in Seq(Orders) /\ Len(script) = 0
    BY <2>1, EmptySeq
  <2>3. ObeyAll(c, script) = c
    BY <1>0, <2>2, ObeyNothing
  <2>4. d + 1 = 1
    BY <1>4
  <2> QED
    BY <2>2, <2>3, <2>4
<1>5. CASE d # 0
  <2>1. PICK f : Flattening(f, parts, d, Orders)
    BY <1>2, Flattened
  <2>2. script = f[d] /\ script \in Seq(Orders)
    <3>1. d > 0 /\ d \in 0 .. d
      BY <1>0, <1>5
    <3> QED
      BY <1>3, <2>1, <3>1 DEF Flattening
  <2> DEFINE T == {i \in 0 .. d : Shows(ObeyAll(c, f[i]), h, FALSE, L, i + 1, 0)}
  <2>3. 0 \in T
    <3> PICK s : s = f[0]
      OBVIOUS
    <3>1. s \in Seq(Orders) /\ Len(s) = 0
      BY <2>1, EmptySeq DEF Flattening
    <3>2. ObeyAll(c, s) = c
      BY <1>0, <3>1, ObeyNothing
    <3>3. 0 \in 0 .. d /\ 0 + 1 = 1
      BY <1>0
    <3>4. Shows(ObeyAll(c, s), h, FALSE, L, 0 + 1, 0)
      BY <3>2, <3>3
    <3> QED
      BY <3>3, <3>4
  <2>4. ASSUME NEW i \in 0 .. d - 1, i \in T PROVE i + 1 \in T
    <3>1. Shows(ObeyAll(c, f[i]), h, FALSE, L, i + 1, 0)
      BY <2>4
    <3> HIDE DEF T
    <3> PICK n : n = i + 1
      OBVIOUS
    <3>2. n \in 1 .. d /\ n \in 0 .. d /\ n \in 1 .. N /\ n \in 1 .. N - 1 /\ n - 1 = i /\ i \in 0 .. d
      BY <1>0
    <3> PICK s : s = f[i]
      OBVIOUS
    <3> PICK w : w = writeCells(t.scrollback[n])
      OBVIOUS
    <3> PICK p : p = Append(w, newline)
      OBVIOUS
    <3>3. s \in Seq(Orders) /\ f[n] = s \o p
      BY <1>1, <2>1, <3>2 DEF Flattening
    <3>4. Writes(w, L[n], Columns) /\ w \in Seq(Orders) /\ p \in Seq(Orders)
      BY <1>1, <3>2 DEF Writes
    <3> PICK u : u = ObeyAll(c, s)
      OBVIOUS
    <3>5. Shows(u, h, FALSE, L, n, 0) /\ u \in Emulators(h)
      BY <3>1 DEF Shows
    <3> PICK v : v = ObeyAll(u, w)
      OBVIOUS
    <3>6. Shows(v, h, FALSE, L, n, Columns)
      BY <1>0, <3>2, <3>4, <3>5, RowShown
    <3>7. First(L[n], Columns) = L[n]
      BY <3>2, FirstRows
    <3>8. Shows(NewLine(v), h, FALSE, L, n + 1, 0)
      BY <1>0, <3>2, <3>6, <3>7, LineShown
    <3>9. ObeyAll(c, s \o p) = ObeyAll(u, p)
      <4>1. c \in Emulators(h) /\ s \in Seq(Orders) /\ p \in Seq(Orders)
        BY <1>0, <3>3, <3>4
      <4>2. ObeyAll(c, s \o p) = ObeyAll(ObeyAll(c, s), p)
        BY ONLY <4>1, ObeyJoined
      <4> QED
        BY <4>2
    <3>10. ObeyAll(u, p) = Obey(v, newline)
      BY <1>0, <3>4, <3>5, ObeyAppended
    <3>11. Obey(v, newline) = NewLine(v)
      BY ObeyIs
    <3> QED
      BY <3>2, <3>3, <3>8, <3>9, <3>10, <3>11 DEF T
  <2>5. \A i \in 0 .. d : i \in T
    <3> HIDE DEF T
    <3> QED
      BY <1>0, <2>3, <2>4, Upward
  <2>6. Shows(ObeyAll(c, f[d]), h, FALSE, L, d + 1, 0)
    <3>1. d \in 0 .. d
      BY <1>0
    <3> HIDE DEF T
    <3>2. d \in T
      BY <2>5, <3>1
    <3> QED
      BY <3>2 DEF T
  <2> QED
    BY <2>2, <2>6
<1> QED
  BY <1>4, <1>5

LEMMA SequenceOf == ASSUME NEW S, NEW n \in Nat, NEW s \in [1 .. n -> S] PROVE s \in Seq(S) /\ Len(s) = n
BY SeqDef, LenProperties

\* c shows d lines and is to take the Rows of t's screen, the last of N in all.
ReadyForScreen(c, h, alt, L, N, t, d) ==
    /\ N = d + Rows /\ (alt => N <= h) /\ Shows(c, h, alt, L, d + 1, 0)
    /\ \A i \in 1 .. Rows : L[d + i] = t.screen[i]

LEMMA ScreenShown ==
    ASSUME NEW h \in Nat \ {0}, NEW alt, NEW N \in Nat \ {0}, NEW L \in [1 .. N -> Lines],
           NEW t \in Emulators(Rows), NEW d \in Nat, NEW c, ReadyForScreen(c, h, alt, L, N, t, d)
    PROVE  Reached(ObeyAll(c, ScreenScript(t)), h, alt, L, N, ScreenScript(t))
<1> /\ N = d + Rows /\ (alt => N <= h) /\ Shows(c, h, alt, L, d + 1, 0)
    /\ \A i \in 1 .. Rows : L[d + i] = t.screen[i]
  BY DEF ReadyForScreen
<1> PICK newline : newline = Command("newline", 0)
  OBVIOUS
<1> PICK parts : parts = [i \in DOMAIN t.screen |->
                            When(i > 1, <<newline>>) \o writeCells(TrimmedRow(t.screen[i]))]
  OBVIOUS
<1> PICK break : break = <<newline>>
  OBVIOUS
<1>0. /\ Rows \in Nat \ {0} /\ newline \in Orders /\ c \in Emulators(h)
      /\ t.screen \in [1 .. Rows -> Lines] /\ DOMAIN t.screen = 1 .. Rows
  BY OrdersGiven, Width DEF Shows, Emulators, Screens
<1>1. <<>> \in Seq(Orders) /\ break \in Seq(Orders)
  BY <1>0, EmptySeq
<1>2. \A x \in Seq(Orders), y \in Seq(Orders) : x \o y \in Seq(Orders)
  BY ConcatProperties
<1>3. ASSUME NEW i \in 1 .. Rows
      PROVE  /\ writeCells(TrimmedRow(t.screen[i])) \in Seq(Orders) /\ parts[i] \in Seq(Orders)
             /\ parts[i] = (IF i > 1 THEN break ELSE <<>>) \o writeCells(TrimmedRow(t.screen[i]))
  <2> PICK row : row = t.screen[i]
    OBVIOUS
  <2>1. row \in Lines
    BY <1>0
  <2>2. PICK m : TrimsTo(row, m)
    BY <2>1, RowTrimmed
  <2> PICK trimmed : trimmed = TrimmedRow(row)
    OBVIOUS
  <2>3. m \in Nat /\ trimmed \in [1 .. m -> Cells]
    BY <2>2, Width DEF TrimsTo
  <2> PICK w : w = writeCells(trimmed)
    OBVIOUS
  <2>4. w \in Seq(Orders)
    BY <2>3, CellsWritten DEF Writes
  <2>5. parts[i] = (IF i > 1 THEN break ELSE <<>>) \o w
    BY <1>0 DEF When
  <2>6. parts[i] \in Seq(Orders)
    <3> PICK before : before = IF i > 1 THEN break ELSE <<>>
      OBVIOUS
    <3>1. before \in Seq(Orders)
      BY <1>1
    <3>2. before \o w \in Seq(Orders)
      BY ONLY <1>2, <2>4, <3>1
    <3> QED
      BY <2>5, <3>2
  <2> QED
    BY <2>4, <2>5, <2>6
<1>4. parts \in Seq(Seq(Orders)) /\ Len(parts) = Rows
  <2>1. parts \in [1 .. Rows -> Seq(Orders)]
    BY <1>0, <1>3
  <2> QED
    BY <1>0, <2>1, SequenceOf
<1>5. PICK f : Flattening(f, parts, Rows, Orders)
  BY <1>4, Flattened
<1>6. ScreenScript(t) = f[Rows] /\ f[Rows] \in Seq(Orders)
  <2>1. Rows > 0 /\ Rows \in 0 .. Rows
    BY <1>0
  <2>2. ScreenScript(t) = FlattenSeq(parts)
    BY DEF ScreenScript
  <2> QED
    BY <1>5, <2>1, <2>2 DEF Flattening
<1> DEFINE Done(i) == \E k \in 0 .. Columns :
                         Shows(ObeyAll(c, f[i]), h, alt, L, d + i, k) /\ First(L[d + i], k) = L[d + i]
<1>7. ASSUME NEW i \in 1 .. Rows, NEW u, Shows(u, h, alt, L, d + i, 0)
      PROVE  \E k \in 0 .. Columns :
                /\ Shows(ObeyAll(u, writeCells(TrimmedRow(t.screen[i]))), h, alt, L, d + i, k)
                /\ First(L[d + i], k) = L[d + i]
  <2> PICK n : n = d + i
    OBVIOUS
  <2>1. n \in 1 .. N /\ L[n] = t.screen[i]
    BY <1>0
  <2> PICK w : w = writeCells(TrimmedRow(L[n]))
    OBVIOUS
  <2>2. Shows(u, h, alt, L, n, 0)
    BY <1>7
  <2>3. Reached(ObeyAll(u, w), h, alt, L, n, w)
    BY <2>1, <2>2, TrimmedShown
  <2> QED
    BY <2>1, <2>3 DEF Reached
<1>8. Done(1)
  <2> PICK w : w = writeCells(TrimmedRow(t.screen[1]))
    OBVIOUS
  <2>1. 1 \in 1 .. Rows /\ ~(1 > 1) /\ 1 - 1 = 0
    BY <1>0
  <2>2. w \in Seq(Orders) /\ parts[1] = <<>> \o w
    BY <1>3, <2>1
  <2>3. f[0] = <<>> /\ f[1] = f[1 - 1] \o parts[1]
    BY <1>5, <2>1 DEF Flattening
  <2>4. f[1] = w
    BY <2>1, <2>2, <2>3, ConcatEmptySeq
  <2>5. \E k \in 0 .. Columns : Shows(ObeyAll(c, w), h, alt, L, d + 1, k) /\ First(L[d + 1], k) = L[d + 1]
    BY <1>7, <2>1
  <2> QED
    BY <2>4, <2>5
<1>9. ASSUME NEW j \in 0 .. Rows - 2, Done(j + 1) PROVE Done((j + 1) + 1)
  <2> PICK i : i = j + 1
    OBVIOUS
  <2> PICK m : m = i + 1
    OBVIOUS
  <2>1. /\ i \in 1 .. Rows /\ i \in 0 .. Rows /\ m \in 1 .. Rows /\ m > 1 /\ m - 1 = i
        /\ d + i \in 1 .. N - 1 /\ (d + i) + 1 = d + m /\ (alt => (d + i) + 1 <= h)
    BY <1>0
  <2>2. PICK k \in 0 .. Columns : Shows(ObeyAll(c, f[i]), h, alt, L, d + i, k) /\ First(L[d + i], k) = L[d + i]
    BY <1>9
  <2> HIDE DEF Done
  <2> PICK s : s = f[i]
    OBVIOUS
  <2> PICK w : w = writeCells(TrimmedRow(t.screen[m]))
    OBVIOUS
  <2> PICK p : p = break \o w
    OBVIOUS
  <2>3. w \in Seq(Orders) /\ p \in Seq(Orders) /\ s \in Seq(Orders) /\ f[m] = s \o p
    <3>1. parts[m] = p /\ p \in Seq(Orders) /\ w \in Seq(Orders)
      BY <1>3, <2>1
    <3>2. s \in Seq(Orders) /\ f[m] = f[m - 1] \o parts[m]
      BY <1>5, <2>1 DEF Flattening
    <3> QED
      BY <2>1, <3>1, <3>2
  <2> PICK u : u = ObeyAll(c, s)
    OBVIOUS
  <2>4. Shows(u, h, alt, L, d + i, k) /\ u \in Emulators(h)
    BY <2>2 DEF Shows
  <2> PICK v : v = NewLine(u)
    OBVIOUS
  <2>5. Shows(v, h, alt, L, d + m, 0)
    <3> PICK n : n = d + i
      OBVIOUS
    <3>1. n \in 1 .. N - 1 /\ n + 1 = d + m /\ (alt => n + 1 <= h)
      BY <2>1
    <3>2. Shows(u, h, alt, L, n, k) /\ First(L[n], k) = L[n]
      BY <2>2
    <3>3. Shows(v, h, alt, L, n + 1, 0)
      BY <3>1, <3>2, LineShown
    <3> QED
      BY <3>1, <3>3
  <2>6. ObeyAll(u, break) = v
    <3>1. ObeyAll(u, <<newline>>) = Obey(u, newline)
      BY <1>0, <2>4, ObeyOne
    <3>2. Obey(u, newline) = NewLine(u)
      BY ObeyIs
    <3> QED
      BY <3>1, <3>2
  <2>7. ObeyAll(u, break \o w) = ObeyAll(ObeyAll(u, break), w)
    <3>1. u \in Emulators(h) /\ break \in Seq(Orders) /\ w \in Seq(Orders)
      BY <1>1, <2>3, <2>4
    <3> QED
      BY ONLY <3>1, ObeyJoined
  <2>8. ObeyAll(c, s \o p) = ObeyAll(ObeyAll(c, s), p)
    <3>1. c \in Emulators(h) /\ s \in Seq(Orders) /\ p \in Seq(Orders)
      BY <1>0, <2>3
    <3> QED
      BY ONLY <3>1, ObeyJoined
  <2>9. ObeyAll(c, f[m]) = ObeyAll(v, w)
    BY <2>3, <2>6, <2>7, <2>8
  <2>10. \E q \in 0 .. Columns : Shows(ObeyAll(v, w), h, alt, L, d + m, q) /\ First(L[d + m], q) = L[d + m]
    BY <1>7, <2>1, <2>5
  <2>11. Done(m)
    BY <2>9, <2>10 DEF Done
  <2> QED
    BY <2>11
<1> HIDE DEF Done
<1>10. Done(Rows)
  <2> PICK last : last = Rows - 1
    OBVIOUS
  <2>0. last \in Nat /\ last - 1 = Rows - 2 /\ last + 1 = Rows /\ last \in 0 .. last
    BY <1>0
  <2> DEFINE T == {j \in 0 .. last : Done(j + 1)}
  <2>1. 0 \in T
    <3>1. 0 + 1 = 1 /\ 0 \in 0 .. last
      BY <2>0
    <3> QED
      BY <1>8, <3>1
  <2>2. ASSUME NEW j \in 0 .. last - 1, j \in T PROVE j + 1 \in T
    <3>1. j \in 0 .. Rows - 2 /\ j + 1 \in 0 .. last
      BY <2>0
    <3> QED
      BY <1>9, <2>2, <3>1
  <2> HIDE DEF T
  <2>3. last \in T
    BY <2>0, <2>1, <2>2, Upward
  <2> QED
    BY <2>0, <2>3 DEF T
<1> QED
  BY <1>6, <1>10 DEF Done, Reached

\* The cursor is brought to where the session's is, counted from the last line.
LEMMA CursorBrought ==
    ASSUME NEW h \in Nat \ {0}, NEW t \in Emulators(Rows), NEW c \in Emulators(h),
           c.y >= Rows - 1 - t.y
    PROVE  LET v == ObeyAll(c, CursorScript(t))
           IN  /\ CursorScript(t) \in Seq(Orders)
               /\ v.x = t.x /\ v.y = c.y - (Rows - 1 - t.y)
               /\ v.screen = c.screen /\ v.scrollback = c.scrollback /\ v.altScreen = c.altScreen
<1> PICK up : up = Rows - 1 - t.y
  OBVIOUS
<1>0. /\ Rows \in Nat \ {0} /\ t.y \in 0 .. Rows - 1 /\ t.x \in 0 .. Columns - 1 /\ Len(t.screen) = Rows
      /\ up \in Nat /\ t.x \in Nat /\ Columns \in Nat
  <2>1. Rows \in Nat \ {0} /\ Columns \in Nat \ {0}
    BY Width
  <2>2. Len(t.screen) = Rows
    BY <2>1, ScreenHeight
  <2>3. t.y \in 0 .. Rows - 1 /\ t.x \in 0 .. Columns - 1
    BY DEF Emulators
  <2> QED
    BY <2>1, <2>2, <2>3
<1> PICK a : a = <<Command("return", 0)>>
  OBVIOUS
<1> PICK b : b = When(up > 0, <<Command("up", up)>>)
  OBVIOUS
<1> PICK e : e = When(t.x > 0, <<Command("forward", t.x)>>)
  OBVIOUS
<1>1. CursorScript(t) = (a \o b) \o e
  BY <1>0 DEF CursorScript
<1>2. Command("return", 0) \in Orders /\ Command("up", up) \in Orders /\ Command("forward", t.x) \in Orders
  BY <1>0, OrdersGiven
<1>3. a \in Seq(Orders) /\ b \in Seq(Orders) /\ e \in Seq(Orders)
  <2>1. <<>> \in Seq(Orders)
    BY EmptySeq
  <2>2. \A order \in Orders : <<order>> \in Seq(Orders)
    OBVIOUS
  <2> QED
    BY <1>2, <2>1, <2>2 DEF When
<1>4. a \o b \in Seq(Orders) /\ (a \o b) \o e \in Seq(Orders)
  <2>1. \A x \in Seq(Orders), y \in Seq(Orders) : x \o y \in Seq(Orders)
    BY ConcatProperties
  <2> QED
    BY <1>3, <2>1
<1> PICK r : r = ObeyAll(c, a)
  OBVIOUS
<1> PICK u : u = ObeyAll(r, b)
  OBVIOUS
<1> PICK v : v = ObeyAll(u, e)
  OBVIOUS
<1>5. r \in Emulators(h) /\ u \in Emulators(h)
  BY <1>3, ObeyedTyped
<1>6. ObeyAll(c, (a \o b) \o e) = v
  <2>1. ObeyAll(c, a \o b) = u
    BY ONLY <1>3, ObeyJoined, r = ObeyAll(c, a), u = ObeyAll(r, b)
  <2> PICK ab : ab = a \o b
    OBVIOUS
  <2>2. ObeyAll(c, ab \o e) = ObeyAll(ObeyAll(c, ab), e)
    <3>1. ab \in Seq(Orders)
      BY <1>4
    <3> QED
      BY ONLY <1>3, <3>1, ObeyJoined
  <2> QED
    BY <2>1, <2>2
<1>7. r = CarriageReturn(c)
  BY <1>2, ObeyOne, ObeyIs
<1>8. /\ r.x = 0 /\ r.y = c.y /\ r.screen = c.screen /\ r.scrollback = c.scrollback
      /\ r.altScreen = c.altScreen
  BY <1>7 DEF CarriageReturn, Emulators
<1>9. \A empty : empty = <<>> => ObeyAll(r, empty) = r /\ ObeyAll(u, empty) = u
  <2>1. <<>> \in Seq(Orders) /\ Len(<<>>) = 0
    BY EmptySeq
  <2> QED
    BY <1>5, <2>1, ObeyNothing
<1>10. /\ u.x = 0 /\ u.y = c.y - up /\ u.screen = c.screen /\ u.scrollback = c.scrollback
       /\ u.altScreen = c.altScreen
  <2>1. CASE up > 0
    <3>1. u = CursorUp(r, up)
      <4>1. b = <<Command("up", up)>>
        BY <2>1 DEF When
      <4>2. ObeyAll(r, <<Command("up", up)>>) = Obey(r, Command("up", up))
        BY <1>2, <1>5, ObeyOne
      <4> QED
        BY <4>1, <4>2, ObeyIs
    <3>2. c.y \in Nat /\ ~(up > c.y)
      BY <1>0 DEF Emulators
    <3>3. u = [r EXCEPT !.y = r.y - up, !.phantom = FALSE]
      BY <1>8, <3>1, <3>2 DEF CursorUp
    <3>4. /\ u.x = r.x /\ u.y = r.y - up /\ u.screen = r.screen /\ u.scrollback = r.scrollback
          /\ u.altScreen = r.altScreen
      BY <1>5, <3>3 DEF Emulators
    <3> QED
      BY <1>8, <3>4
  <2>2. CASE ~(up > 0)
    <3>1. up = 0 /\ c.y \in Nat /\ b = <<>>
      BY <1>0, <2>2 DEF Emulators, When
    <3>2. u = r
      BY <1>9, <3>1
    <3>3. c.y - up = c.y
      BY <3>1
    <3> QED
      BY <1>8, <3>2, <3>3
  <2> QED
    BY <2>1, <2>2
<1>11. /\ v.x = t.x /\ v.y = u.y /\ v.screen = u.screen /\ v.scrollback = u.scrollback
       /\ v.altScreen = u.altScreen
  <2>1. CASE t.x > 0
    <3>1. v = CursorForward(u, t.x)
      <4>1. e = <<Command("forward", t.x)>>
        BY <2>1 DEF When
      <4>2. ObeyAll(u, <<Command("forward", t.x)>>) = Obey(u, Command("forward", t.x))
        BY <1>2, <1>5, ObeyOne
      <4> QED
        BY <4>1, <4>2, ObeyIs
    <3>2. 0 + t.x = t.x /\ ~(t.x >= Columns)
      BY <1>0
    <3>3. v = [u EXCEPT !.x = t.x, !.phantom = FALSE]
      BY <1>10, <3>1, <3>2 DEF CursorForward
    <3> QED
      BY <1>5, <3>3 DEF Emulators
  <2>2. CASE ~(t.x > 0)
    <3>1. t.x = 0 /\ e = <<>>
      BY <1>0, <2>2 DEF When
    <3>2. v = u
      BY <1>9, <3>1
    <3> QED
      BY <1>10, <3>1, <3>2
  <2> QED
    BY <2>1, <2>2
<1> QED
  BY <1>1, <1>4, <1>6, <1>10, <1>11

\* q is s and then r, of m and n elements.
JoinIs(q, s, r, m, n, S) ==
    /\ q \in Seq(S) /\ Len(q) = m + n
    /\ \A i \in 1 .. m : q[i] = s[i]
    /\ \A i \in 1 .. n : q[m + i] = r[i]

LEMMA JoinedAre ==
    ASSUME NEW S, NEW s \in Seq(S), NEW r \in Seq(S), NEW m, m = Len(s), NEW n, n = Len(r)
    PROVE  JoinIs(s \o r, s, r, m, n, S)
<1> PICK q : q = s \o r
  OBVIOUS
<1>1. /\ q \in Seq(S) /\ Len(q) = m + n
      /\ \A i \in 1 .. m : q[i] = s[i]
      /\ \A i \in 1 .. n : q[m + i] = r[i]
  BY ConcatProperties
<1> QED
  BY <1>1 DEF JoinIs

\* What can be read on a terminal, line by line.
PageLines(t, h, page, d) ==
    /\ page \in Seq(Lines) /\ Len(page) = d + h
    /\ \A i \in 1 .. d : page[i] = t.scrollback[i]
    /\ \A i \in 1 .. h : page[d + i] = t.screen[i]

LEMMA PageIs ==
    ASSUME NEW h \in Nat \ {0}, NEW t \in Emulators(h)
    PROVE  PageLines(t, h, PageOf(t), HistoryDepth(t)) /\ HistoryDepth(t) \in Nat
<1> PICK past : past = IF t.altScreen THEN <<>> ELSE t.scrollback
  OBVIOUS
<1> PICK s : s = t.screen
  OBVIOUS
<1> PICK d : d = HistoryDepth(t)
  OBVIOUS
<1>1. past \in Seq(Lines) /\ Len(past) = d
  <2>1. <<>> \in Seq(Lines) /\ Len(<<>>) = 0
    BY EmptySeq
  <2>2. t.scrollback \in Seq(Lines) /\ t.altScreen \in BOOLEAN
    BY DEF Emulators
  <2>3. CASE t.altScreen
    BY <2>1, <2>3 DEF HistoryDepth
  <2>4. CASE ~t.altScreen
    BY <2>2, <2>4 DEF HistoryDepth
  <2> QED
    BY <2>3, <2>4
<1>2. \A i \in 1 .. d : past[i] = t.scrollback[i]
  BY DEF HistoryDepth
<1>3. s \in Seq(Lines) /\ Len(s) = h
  <2>1. s \in [1 .. h -> Lines]
    BY DEF Emulators, Screens
  <2> QED
    BY <2>1, SequenceOf
<1> PICK page : page = past \o s
  OBVIOUS
<1>4. /\ page \in Seq(Lines) /\ Len(page) = d + h
      /\ \A i \in 1 .. d : page[i] = past[i]
      /\ \A i \in 1 .. h : page[d + i] = s[i]
  <2>1. JoinIs(past \o s, past, s, d, h, Lines)
    BY <1>1, <1>3, JoinedAre
  <2> QED
    BY <2>1 DEF JoinIs
<1>5. PageOf(t) = page
  BY DEF PageOf
<1>6. d \in Nat
  BY <1>1, LenProperties
<1> QED
  BY <1>2, <1>4, <1>5, <1>6 DEF PageLines

\* A terminal fed with the replay shows what t shows.
LooksLike(client, t) ==
    /\ client.altScreen = t.altScreen
    /\ SubSeq(PageOf(client), 1, Len(PageOf(t))) = PageOf(t)
    /\ \A i \in Len(PageOf(t)) + 1 .. Len(PageOf(client)) : PageOf(client)[i] = BlankRow
    /\ Caret(client) = Caret(t)

\* The mode lead and the history bring a new terminal to the first line of the screen.
LEMMA HistoryReplayed ==
    ASSUME NEW h \in Nat \ {0}, NEW t \in Emulators(Rows), NEW N \in Nat \ {0},
           NEW L \in [1 .. N -> Lines], NEW d, d = HistoryDepth(t), d < N,
           \A i \in 1 .. d : L[i] = t.scrollback[i]
    PROVE  LET script == ModeLead(t) \o When(~t.altScreen, HistoryScript(t))
           IN  /\ script \in Seq(Orders)
               /\ Shows(ObeyAll(NewTerminal(h), script), h, t.altScreen, L, d + 1, 0)
<1> PICK c : c = NewTerminal(h)
  OBVIOUS
<1> PICK lead : lead = ModeLead(t)
  OBVIOUS
<1> PICK history : history = When(~t.altScreen, HistoryScript(t))
  OBVIOUS
<1>0. c \in Emulators(h) /\ <<>> \in Seq(Orders) /\ Len(<<>>) = 0 /\ Command("alt", 0) \in Orders
  BY NewTyped, EmptySeq, OrdersGiven
<1>1. Shows(c, h, FALSE, L, 1, 0) /\ Shows(EnterAltScreen(c), h, TRUE, L, 1, 0)
  BY ShowsNothing
<1>2. CASE t.altScreen
  <2>1. lead = <<Command("alt", 0)>> /\ history = <<>> /\ d = 0 /\ (t.altScreen <=> TRUE)
    BY <1>2 DEF ModeLead, When, HistoryDepth
  <2>2. lead \in Seq(Orders)
    BY <1>0, <2>1
  <2>3. lead \o history = lead
    BY <2>1, <2>2, ConcatEmptySeq
  <2>4. ObeyAll(c, <<Command("alt", 0)>>) = Obey(c, Command("alt", 0))
    BY <1>0, ObeyOne
  <2>5. ObeyAll(c, lead) = EnterAltScreen(c)
    BY <2>1, <2>4, ObeyIs
  <2>6. d + 1 = 1
    BY <2>1
  <2>7. Shows(ObeyAll(c, lead), h, TRUE, L, d + 1, 0)
    BY <1>1, <2>5, <2>6
  <2>8. Shows(ObeyAll(c, lead), h, t.altScreen, L, d + 1, 0)
    BY <1>2, <2>7 DEF Shows
  <2> QED
    BY <2>2, <2>3, <2>8
<1>3. CASE ~t.altScreen
  <2>1. lead = <<>> /\ history = HistoryScript(t) /\ d = Len(t.scrollback) /\ t.scrollback \in Seq(Lines)
    BY <1>3 DEF ModeLead, When, HistoryDepth, Emulators
  <2>2. history \in Seq(Orders) /\ Shows(ObeyAll(c, history), h, FALSE, L, d + 1, 0)
    BY <1>1, <2>1, HistoryShown
  <2>3. lead \o history = history
    BY <2>1, <2>2, ConcatEmptySeq
  <2>4. Shows(ObeyAll(c, history), h, t.altScreen, L, d + 1, 0)
    BY <1>3, <2>2 DEF Shows
  <2> QED
    BY <2>2, <2>3, <2>4
<1> QED
  BY <1>2, <1>3

LEMMA Replayed ==
    ASSUME NEW t \in Emulators(Rows), NEW h \in Nat, h >= Rows
    PROVE  LooksLike(ObeyAll(NewTerminal(h), serializeReplay(t)), t)
<1>0. h \in Nat \ {0} /\ Rows \in Nat \ {0} /\ NewTerminal(h) \in Emulators(h)
  BY Width, NewTyped
<1> PICK d : d = HistoryDepth(t)
  OBVIOUS
<1> PICK L : L = PageOf(t)
  OBVIOUS
<1> PICK N : N = d + Rows
  OBVIOUS
<1>1. PageLines(t, Rows, L, d) /\ d \in Nat
  BY <1>0, PageIs
<1>2. /\ N \in Nat \ {0} /\ d < N /\ L \in Seq(Lines) /\ Len(L) = N /\ L \in [1 .. N -> Lines]
      /\ \A i \in 1 .. d : L[i] = t.scrollback[i]
      /\ \A i \in 1 .. Rows : L[d + i] = t.screen[i]
  BY <1>0, <1>1, LenProperties DEF PageLines
<1>3. t.altScreen => N <= h /\ d = 0
  BY <1>0, <1>1 DEF HistoryDepth
<1> PICK A : A = ModeLead(t) \o When(~t.altScreen, HistoryScript(t))
  OBVIOUS
<1> PICK B : B = ScreenScript(t)
  OBVIOUS
<1> PICK C : C = CursorScript(t)
  OBVIOUS
<1> PICK c0 : c0 = NewTerminal(h)
  OBVIOUS
<1> PICK c1 : c1 = ObeyAll(c0, A)
  OBVIOUS
<1> PICK c2 : c2 = ObeyAll(c1, B)
  OBVIOUS
<1> PICK v : v = ObeyAll(c2, C)
  OBVIOUS
<1>4. A \in Seq(Orders) /\ Shows(c1, h, t.altScreen, L, d + 1, 0)
  BY <1>0, <1>2, HistoryReplayed
<1>5. B \in Seq(Orders) /\ \E k \in 0 .. Columns : Shows(c2, h, t.altScreen, L, N, k) /\ First(L[N], k) = L[N]
  <2> PICK alt : alt = t.altScreen
    OBVIOUS
  <2>1. ReadyForScreen(c1, h, alt, L, N, t, d)
    BY <1>1, <1>2, <1>3, <1>4 DEF ReadyForScreen
  <2>2. Reached(ObeyAll(c1, B), h, alt, L, N, B)
    BY <1>0, <1>1, <1>2, <2>1, ScreenShown
  <2> QED
    BY <2>2 DEF Reached
<1> PICK k \in 0 .. Columns : Shows(c2, h, t.altScreen, L, N, k) /\ First(L[N], k) = L[N]
  BY <1>5
<1>6. c1 \in Emulators(h) /\ c2 \in Emulators(h)
  BY <1>4 DEF Shows
<1> PICK a : a = Above(N, h)
  OBVIOUS
<1>7. a \in Nat /\ a <= N - 1 /\ N - a <= h /\ c2.y = N - 1 - a /\ t.y \in 0 .. Rows - 1 /\ N - 1 - a >= Rows - 1
  <2>1. d \in Nat /\ Rows \in Nat \ {0} /\ h \in Nat /\ h >= Rows /\ N = d + Rows
    BY <1>0, <1>1
  <2>2. a = IF N > h THEN N - h ELSE 0
    BY DEF Above
  <2>3. c2.y = N - 1 - a
    BY DEF Shows
  <2>4. t.y \in 0 .. Rows - 1
    BY DEF Emulators
  <2>5. a \in Nat /\ a <= N - 1 /\ N - a <= h /\ N - 1 - a >= Rows - 1
    BY ONLY <2>1, <2>2
  <2> QED
    BY <2>3, <2>4, <2>5
<1>70. /\ d \in Nat /\ Rows \in Nat \ {0} /\ h \in Nat /\ h >= Rows /\ N = d + Rows
       /\ a \in Nat /\ a <= N - 1 /\ N - a <= h /\ c2.y = N - 1 - a
  BY <1>0, <1>1, <1>7
<1>8. c2.y >= Rows - 1 - t.y
  BY <1>0, <1>7
<1>9. /\ C \in Seq(Orders) /\ v.x = t.x /\ v.y = c2.y - (Rows - 1 - t.y)
      /\ v.screen = c2.screen /\ v.scrollback = c2.scrollback /\ v.altScreen = c2.altScreen
  BY <1>0, <1>6, <1>8, CursorBrought
<1>10. ObeyAll(c0, serializeReplay(t)) = v /\ v \in Emulators(h)
  <2>1. serializeReplay(t) = (A \o B) \o C
    BY DEF serializeReplay
  <2>2. ObeyAll(c0, A \o B) = ObeyAll(ObeyAll(c0, A), B)
    BY ONLY <1>0, <1>4, <1>5, ObeyJoined, c0 = NewTerminal(h)
  <2> PICK AB : AB = A \o B
    OBVIOUS
  <2>3. AB \in Seq(Orders)
    <3>1. \A x \in Seq(Orders), y \in Seq(Orders) : x \o y \in Seq(Orders)
      BY ConcatProperties
    <3> QED
      BY <1>4, <1>5, <3>1
  <2>4. ObeyAll(c0, AB \o C) = ObeyAll(ObeyAll(c0, AB), C)
    BY ONLY <1>0, <1>9, <2>3, ObeyJoined, c0 = NewTerminal(h)
  <2>5. v \in Emulators(h)
    BY <1>0, <1>6, <1>9, ObeyedTyped
  <2> QED
    BY <2>1, <2>2, <2>4, <2>5
<1>11. (v.altScreen <=> t.altScreen) /\ v.altScreen \in BOOLEAN /\ t.altScreen \in BOOLEAN
  BY <1>6, <1>9 DEF Shows, Emulators
<1>12. HistoryDepth(v) = a
  <2>1. CASE t.altScreen
    BY <1>0, <1>3, <1>11, <2>1 DEF HistoryDepth, Above
  <2>2. CASE ~t.altScreen
    <3>1. Len(c2.scrollback) = a
      BY DEF Shows
    <3> QED
      BY <1>9, <1>11, <2>2, <3>1 DEF HistoryDepth
  <2> QED
    BY <2>1, <2>2
<1> PICK page : page = PageOf(v)
  OBVIOUS
<1>13. /\ page \in Seq(Lines) /\ Len(page) = a + h
       /\ \A i \in 1 .. a : page[i] = v.scrollback[i]
       /\ \A i \in 1 .. h : page[a + i] = v.screen[i]
  <2>1. PageLines(v, h, page, a)
    <3>1. PageLines(v, h, PageOf(v), HistoryDepth(v))
      BY ONLY <1>0, <1>10, PageIs
    <3> QED
      BY <1>12, <3>1
  <2> QED
    BY <2>1 DEF PageLines
<1>14. \A i \in 1 .. N - a : v.screen[i] = L[a + i]
  <2>1. \A i \in 1 .. c2.y : v.screen[i] = L[a + i]
    <3>1. \A i \in 1 .. c2.y : c2.screen[i] = L[Above(N, h) + i]
      BY DEF Shows
    <3> QED
      BY <1>9, <3>1
  <2>2. v.screen[c2.y + 1] = L[N]
    BY <1>9 DEF Shows
  <2>3. c2.y + 1 = N - a /\ a + (N - a) = N
    BY ONLY <1>70
  <2>4. \A i \in 1 .. N - a : i \in 1 .. c2.y \/ i = N - a
    BY ONLY <1>70
  <2> QED
    BY <2>1, <2>2, <2>3, <2>4
<1>15. \A i \in 1 .. N : page[i] = L[i]
  <2> SUFFICES ASSUME NEW i \in 1 .. N PROVE page[i] = L[i]
    OBVIOUS
  <2>1. CASE i <= a
    <3>1. i \in 1 .. a
      BY <2>1, <1>7
    <3>2. c2.scrollback[i] = L[i]
      BY <3>1 DEF Shows
    <3> QED
      BY <1>9, <1>13, <3>1, <3>2
  <2>2. CASE ~(i <= a)
    <3> PICK j : j = i - a
      OBVIOUS
    <3>1. j \in 1 .. N - a /\ j \in 1 .. h /\ a + j = i
      BY ONLY <1>70, <2>2, i \in 1 .. N, j = i - a
    <3> QED
      BY <1>13, <1>14, <3>1
  <2> QED
    BY <2>1, <2>2
<1>16. SubSeq(page, 1, N) = L
  <2>1. N \in 1 .. Len(page)
    <3>1. Len(page) = a + h
      BY <1>13
    <3> QED
      BY ONLY <1>70, <3>1
  <2>2. SubSeq(page, 1, N) = [i \in 1 .. N |-> page[i]]
    BY <1>13, <2>1
  <2> QED
    BY <1>2, <1>15, <2>2
<1>17. \A i \in N + 1 .. Len(page) : page[i] = BlankRow
  <2> SUFFICES ASSUME NEW i \in N + 1 .. a + h PROVE page[i] = BlankRow
    BY <1>13
  <2> PICK j : j = i - a
    OBVIOUS
  <2>1. j \in c2.y + 2 .. h /\ j \in 1 .. h /\ a + j = i
    BY ONLY <1>70, i \in N + 1 .. a + h, j = i - a
  <2>2. c2.screen[j] = BlankRow
    BY <2>1 DEF Shows
  <2> QED
    BY <1>9, <1>13, <2>1, <2>2
<1>18. Caret(v) = Caret(t)
  <2>1. a + v.y = d + t.y
    <3>1. v.y = (N - 1 - a) - (Rows - 1 - t.y) /\ t.y \in 0 .. Rows - 1
      BY <1>7, <1>9
    <3> QED
      BY ONLY <1>70, <3>1
  <2> QED
    BY <1>9, <1>12, <2>1 DEF Caret
<1> QED
  BY <1>2, <1>10, <1>11, <1>16, <1>17, <1>18 DEF LooksLike

LEMMA ReplayFaithful == ReplayInv => ReplayIsFaithful
<1> SUFFICES ASSUME ReplayInv, NEW height \in ClientRows
             PROVE  LooksLike(ObeyAll(NewTerminal(height), serializeReplay(emu)), emu)
  BY DEF ReplayIsFaithful, LooksLike
<1>1. emu \in Emulators(Rows) /\ height \in Nat /\ height >= Rows
  BY ReplayAssumption DEF ReplayInv
<1> QED
  BY <1>1, Replayed

\* The session's terminal has its size, whatever the program wrote.
THEOREM ReplayCorrect == ReplaySpec => []ReplayInv
<1> QED
  BY ReplayAtFirst, ReplayInductive, PTL DEF ReplaySpec

\* A client that attaches, of the session's height or taller, is shown the history, the
\* screen and the cursor of the session's terminal, of any size and after any output.
THEOREM ReplaysAreFaithful == ReplaySpec => []ReplayIsFaithful
<1> QED
  BY ReplayCorrect, ReplayFaithful, PTL

--------------------------------------------------------------------------------
(* The three side by side.                                                      *)

LEMMA OutputMoves ==
    [OutputNext]_outputVars => [Next]_vars /\ [TermNext]_termVars /\ [ReplayNext]_replayVars
<1> SUFFICES ASSUME [OutputNext]_outputVars
             PROVE  [Next]_vars /\ [TermNext]_termVars /\ [ReplayNext]_replayVars
  OBVIOUS
<1>1. UNCHANGED outputVars => UNCHANGED vars /\ UNCHANGED termVars /\ UNCHANGED replayVars
  BY DEF outputVars
<1>2. ASSUME \/ StreamDoes(Emit) \/ StreamDoes(ProcessExits) \/ StreamDoes(Killed)
             \/ StreamDoes(HandleOutput) \/ StreamDoes(HandleExit) \/ StreamDoes(ToldAll)
             \/ StreamDoes(Over /\ UNCHANGED vars)
      PROVE  StreamDoes(Next)
  BY <1>2 DEF StreamDoes, Next, LoopStep
<1>3. ASSUME NEW c \in Conns,
             \/ StreamDoes(NextWriter(c)) \/ StreamDoes(TellEnd(c))
             \/ StreamDoes(Subscribe(c)) \/ StreamDoes(SubscribeLate(c))
             \/ \E i \in Chunks : StreamDoes(TakeChunk(c, i))
             \/ StreamDoes(WriteFrame(c)) \/ StreamDoes(WriteFails(c)) \/ StreamDoes(StreamEnds(c))
             \/ \E i \in Items : StreamDoes(ReadOutput(c, i))
             \/ StreamDoes(ReadNotice(c)) \/ StreamDoes(Stall(c)) \/ StreamDoes(HangUp(c))
      PROVE  StreamDoes(Next)
  BY <1>3 DEF StreamDoes, Next, LoopStep, StreamStep, ClientReads
<1>4. ASSUME \/ TermDoes(OutputArrives) \/ TermDoes(ConnectionLost)
             \/ TermDoes(ReaderTop) \/ TermDoes(ReadChunk) \/ TermDoes(EndOfOutput)
             \/ TermDoes(LockToFeed) \/ TermDoes(ChunkFed)
             \/ TermDoes(ReadAnswer) \/ TermDoes(ForwardAnswer)
             \/ TermDoes(TakeJob) \/ TermDoes(SendMouseWheel) \/ TermDoes(WheelSent)
      PROVE  TermDoes(TermNext)
  BY <1>4 DEF TermDoes, TermNext, ReadLoop, ResponseLoop, InputWriter
<1>5. ASSUME \/ TermDoes(FirstDamage) \/ TermDoes(MoreDamage) \/ TermDoes(Settled) \/ TermDoes(WaiterStopped)
             \/ TermDoes(WheelChoice) \/ TermDoes(Enqueue) \/ TermDoes(Resize) \/ TermDoes(RenderTick)
             \/ TermDoes(Paint) \/ TermDoes(Closed)
             \/ TermDoes(PressKey) \/ TermDoes(TurnWheel) \/ TermDoes(WindowSize)
             \/ TermDoes(FlagArrives) \/ TermDoes(Close)
      PROVE  TermDoes(TermNext)
  BY <1>5 DEF TermDoes, TermNext, Waiters, Program
<1>6. ASSUME ReplayDoes(EmulatorWrites) PROVE ReplayDoes(ReplayNext)
  BY <1>6 DEF ReplayDoes, ReplayNext
<1>7. \/ UNCHANGED outputVars
      \/ StreamDoes(Next) \/ TermDoes(TermNext) \/ ReplayDoes(ReplayNext)
  BY <1>2, <1>3, <1>4, <1>5, <1>6 DEF OutputNext
<1> QED
  BY <1>1, <1>7 DEF StreamDoes, TermDoes, ReplayDoes

\* What the run checks side by side are steps of the three models as they are alone.
THEOREM OutputIsEach ==
    OutputSpec => /\ Init /\ [][Next]_vars
                  /\ TermInit /\ [][TermNext]_termVars
                  /\ ReplaySpec
<1>1. OutputInit => Init /\ TermInit /\ ReplayInit
  BY DEF OutputInit
<1> QED
  BY <1>1, OutputMoves, PTL DEF OutputSpec, ReplaySpec

\* On its way from the PTY to the screen the output stays within its types, for any
\* number of clients, any buffers, any queries and any size of the terminal.
THEOREM OutputTypes == OutputSpec => []OutputTypeOK
<1>1. StreamInv /\ [Next]_vars => StreamInv'
  BY TypingStep, StagesStep, KeptStep, OrderStep, AstrayStep DEF StreamInv
<1>2. StreamInv /\ TermInv /\ ReplayInv => OutputTypeOK
  BY ReplayTypes DEF OutputTypeOK, StreamInv, TermInv
<1> QED
  BY <1>1, <1>2, StreamInit, TermAtFirst, TermInductive, ReplayCorrect, OutputIsEach, PTL

================================================================================
