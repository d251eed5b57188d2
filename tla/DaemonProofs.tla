----------------------------- MODULE DaemonProofs -----------------------------
(* What holds of SessionLifecycle for any number of connections, sessions and  *)
(* requests, whichever clients stall; of Discovery for any processes; and of    *)
(* the two checked in one run.                                                  *)
EXTENDS MCDaemon, TLAPS

\* Adding one element, or removing one, at one place keeps the types.
LEMMA SetOps ==
    ASSUME NEW S, NEW R \in SUBSET S, NEW e \in S
    PROVE  R \cup {e} \in SUBSET S /\ R \ {e} \in SUBSET S
OBVIOUS

LEMMA UpdateType ==
    ASSUME NEW S, NEW T, NEW f \in [S -> T], NEW e \in S, NEW t \in T
    PROVE  [f EXCEPT ![e] = t] \in [S -> T]
OBVIOUS

\* The inductive invariant holds initially.
LEMMA LifecycleInit == Init => LifecycleInv
<1> SUFFICES ASSUME Init PROVE LifecycleInv
  OBVIOUS
<1>1. requests \in 0 .. MaxRequests /\ nextID \in 1 .. MaxSessions + 1
  BY LifecycleAssumption DEF LifecycleAssumption, Init
<1>2. TypeOK
  BY <1>1 DEF Init, TypeOK, Statuses
<1>3. CreatorsApart /\ FirstRegistration /\ KillInHand /\ NoticeInHand
  BY DEF Init, CreatorsApart, Creating, FirstRegistration, NoSession,
     KillInHand, NoticeInHand
<1>4. EndNoticeIsFinal /\ NoSubscriberAfterEnd
  BY DEF Init, EndNoticeIsFinal, NoSubscriberAfterEnd
<1> QED
  BY <1>2, <1>3, <1>4 DEF LifecycleInv

\* No step leaves the types.
LEMMA TypingStep == TypeOK /\ CreatorsApart /\ [Next]_vars => TypeOK'
<1> SUFFICES ASSUME TypeOK, CreatorsApart, [Next]_vars PROVE TypeOK'
  OBVIOUS
<1> USE LifecycleAssumption DEF LifecycleAssumption, TypeOK, Sessions, NoSession, Statuses, Goto, Receive,
   Finish, Hear, daemonVars, sessionVars, loopVars, handlerVars, streamVars, clientVars
<1>1. ASSUME NEW c \in Conns, AllocID(c) PROVE TypeOK'
  <2>1. nextID' \in 1 .. MaxSessions + 1
    BY <1>1 DEF AllocID, NextID
  <2> QED
    BY <1>1, <2>1 DEF AllocID
<1>2. ASSUME NEW c \in Conns, Register(c) PROVE TypeOK'
  <2>1. job[c] \in Sessions /\ registry \in SUBSET Sessions
    BY <1>2 DEF Register
  <2>2. registry' \in SUBSET Sessions
    BY <1>2, <2>1, SetOps DEF Register
  <2> QED
    BY <1>2, <2>2 DEF Register
<1>3. ASSUME NEW c \in Conns, Spawn(c) PROVE TypeOK'
  BY <1>3 DEF Spawn
<1>4. ASSUME NEW c \in Conns, SpawnFails(c) PROVE TypeOK'
  BY <1>4 DEF SpawnFails
<1>5. ASSUME NEW c \in Conns, Publish(c) PROVE TypeOK'
  <2>1. job[c] \in Sessions /\ proc[job[c]] # "none"
    BY <1>5 DEF Publish, CreatorsApart, Creating
  <2> QED
    BY <1>5, <2>1 DEF Publish, StatusPublished
<1>6. ASSUME NEW c \in Conns, Unregister(c) PROVE TypeOK'
  <2>1. job[c] \in Sessions /\ registry \in SUBSET Sessions
    BY <1>6 DEF Unregister
  <2>2. registry' \in SUBSET Sessions
    BY <1>6, <2>1, SetOps DEF Unregister
  <2> QED
    BY <1>6, <2>2 DEF Unregister
<1>7. ASSUME NEW c \in Conns, NEW s \in Sessions, KillSession(c, s) PROVE TypeOK'
  BY <1>7 DEF KillSession
<1>8. ASSUME NEW c \in Conns, MarkKilled(c) PROVE TypeOK'
  BY <1>8 DEF MarkKilled
<1>9. ASSUME NEW c \in Conns, KillChild(c) PROVE TypeOK'
  BY <1>9 DEF KillChild, Slain
<1>10. ASSUME NEW c \in Conns, RemoveKilled(c) PROVE TypeOK'
  <2>1. job[c] \in Sessions /\ registry \in SUBSET Sessions
    BY <1>10 DEF RemoveKilled
  <2>2. registry' \in SUBSET Sessions
    BY <1>10, <2>1, SetOps DEF RemoveKilled
  <2> QED
    BY <1>10, <2>2 DEF RemoveKilled
<1>11. ASSUME NEW c \in Conns, Disconnect(c) PROVE TypeOK'
  BY <1>11 DEF Disconnect
<1>12. ASSUME NEW c \in Conns, NEW s \in Sessions, Attach(c, s) PROVE TypeOK'
  BY <1>12 DEF Attach
<1>13. ASSUME NEW c \in Conns, NEW s \in Sessions, AttachUnknown(c, s) PROVE TypeOK'
  BY <1>13 DEF AttachUnknown
<1>14. ASSUME NEW c \in Conns, Subscribe(c) PROVE TypeOK'
  <2>1. watched[c] \in Sessions
    BY <1>14 DEF Subscribe
  <2>2. subs[watched[c]] \cup {c} \in SUBSET Conns
    BY <2>1, SetOps
  <2>3. CASE Accepts(watched[c])
    <3>1. subs' = [subs EXCEPT ![watched[c]] = subs[watched[c]] \cup {c}]
      BY <1>14, <2>3 DEF Subscribe
    <3>2. subs' \in [Sessions -> SUBSET Conns]
      BY <2>1, <2>2, <3>1, UpdateType
    <3>3. stream' = [stream EXCEPT ![c] = "streaming"]
      BY <1>14, <2>3 DEF Subscribe
    <3> QED
      BY <1>14, <2>3, <3>2, <3>3 DEF Subscribe
  <2>4. CASE ~Accepts(watched[c])
    BY <1>14, <2>4 DEF Subscribe
  <2> QED
    BY <2>3, <2>4
<1>15. ASSUME NEW c \in Conns, StreamEnds(c) PROVE TypeOK'
  BY <1>15 DEF StreamEnds
<1>16. ASSUME NEW c \in Conns, StreamFails(c) PROVE TypeOK'
  <2>1. watched[c] \in Sessions
    BY <1>16 DEF StreamFails
  <2>2. subs[watched[c]] \ {c} \in SUBSET Conns
    BY <2>1, SetOps
  <2>3. subs' \in [Sessions -> SUBSET Conns]
    BY <1>16, <2>1, <2>2, UpdateType DEF StreamFails
  <2> QED
    BY <1>16, <2>3 DEF StreamFails
<1>17. ASSUME NEW c \in Conns, HangUp(c) PROVE TypeOK'
  BY <1>17 DEF HangUp
<1>18. ASSUME NEW c \in Conns, Stall(c) PROVE TypeOK'
  BY <1>18 DEF Stall
<1>19. ASSUME NEW s \in Sessions, MarkExited(s) PROVE TypeOK'
  BY <1>19 DEF MarkExited, FinalStatus
<1>20. ASSUME NEW s \in Sessions, ReadStatus(s) PROVE TypeOK'
  BY <1>20 DEF ReadStatus
<1>21. ASSUME NEW s \in Sessions, CloseSubs(s) PROVE TypeOK'
  BY <1>21 DEF CloseSubs, ToldAtEnd
<1>22. ASSUME NEW s \in Sessions, NEW c \in Conns, NextWriter(s, c) PROVE TypeOK'
  BY <1>22 DEF NextWriter
<1>23. ASSUME NEW s \in Sessions, TellEnd(s) PROVE TypeOK'
  BY <1>23 DEF TellEnd
<1>24. ASSUME NEW s \in Sessions, ToldAll(s) PROVE TypeOK'
  BY <1>24 DEF ToldAll
<1>25. ASSUME NEW s \in Sessions, RemoveEnded(s) PROVE TypeOK'
  BY <1>25 DEF RemoveEnded, RegistryWithout
<1>26. ASSUME NEW s \in Sessions, ProcessExits(s) PROVE TypeOK'
  BY <1>26 DEF ProcessExits
<1>27. CASE Signal
  BY <1>27 DEF Signal
<1>28. ASSUME NEW s \in Sessions, ShutdownKills(s) PROVE TypeOK'
  BY <1>28 DEF ShutdownKills, Slain
<1>29. CASE ShutdownReturns
  BY <1>29 DEF ShutdownReturns
<1>30. CASE Exit
  BY <1>30 DEF Exit
<1>31. CASE UNCHANGED vars
  BY <1>31 DEF vars
<1> HIDE DEF TypeOK, Sessions, NoSession, Statuses, Goto, Receive, Finish, Hear,
   daemonVars, sessionVars, loopVars, handlerVars, streamVars, clientVars
<1> QED
  BY <1>1, <1>2, <1>3, <1>4, <1>5, <1>6, <1>7, <1>8, <1>9, <1>10, <1>11, <1>12, <1>13,
     <1>14, <1>15, <1>16, <1>17, <1>18, <1>19, <1>20, <1>21, <1>22, <1>23, <1>24, <1>25,
     <1>26, <1>27, <1>28, <1>29, <1>30, <1>31 DEF Next, Request, HandlerStep,
     StreamStep, LoopStep, ShutdownStep

\* Two handlers never create the same session, nor one that is started.
LEMMA CreatorsStep == TypeOK /\ CreatorsApart /\ [Next]_vars => CreatorsApart'
<1> SUFFICES ASSUME TypeOK, CreatorsApart, [Next]_vars PROVE CreatorsApart'
  OBVIOUS
<1> USE DEF TypeOK, Sessions, NoSession, CreatorsApart, Creating, Goto, Receive, Finish,
   daemonVars, sessionVars, loopVars, handlerVars, streamVars, clientVars
<1>1. ASSUME NEW c \in Conns, AllocID(c) PROVE CreatorsApart'
  BY <1>1 DEF AllocID, NextID
<1>2. ASSUME NEW c \in Conns, Register(c) PROVE CreatorsApart'
  BY <1>2 DEF Register
<1>3. ASSUME NEW c \in Conns, Spawn(c) PROVE CreatorsApart'
  BY <1>3 DEF Spawn
<1>4. ASSUME NEW c \in Conns, SpawnFails(c) PROVE CreatorsApart'
  BY <1>4 DEF SpawnFails
<1>5. ASSUME NEW c \in Conns, Publish(c) PROVE CreatorsApart'
  BY <1>5 DEF Publish, StatusPublished
<1>6. ASSUME NEW c \in Conns, Unregister(c) PROVE CreatorsApart'
  BY <1>6 DEF Unregister
<1>7. ASSUME NEW c \in Conns, NEW s \in Sessions, KillSession(c, s) PROVE CreatorsApart'
  BY <1>7 DEF KillSession
<1>8. ASSUME NEW c \in Conns, MarkKilled(c) PROVE CreatorsApart'
  BY <1>8 DEF MarkKilled
<1>9. ASSUME NEW c \in Conns, KillChild(c) PROVE CreatorsApart'
  BY <1>9 DEF KillChild, Slain
<1>10. ASSUME NEW c \in Conns, RemoveKilled(c) PROVE CreatorsApart'
  BY <1>10 DEF RemoveKilled
<1>11. ASSUME NEW c \in Conns, Disconnect(c) PROVE CreatorsApart'
  BY <1>11 DEF Disconnect
<1>12. ASSUME NEW s \in Sessions, ProcessExits(s) PROVE CreatorsApart'
  BY <1>12 DEF ProcessExits
<1>13. ASSUME NEW s \in Sessions, ShutdownKills(s) PROVE CreatorsApart'
  BY <1>13 DEF ShutdownKills, Slain
<1>14. CASE UNCHANGED <<nextID, started, proc, pc, job>>
  BY <1>14
<1>15. ASSUME NEW c \in Conns, Subscribe(c) \/ StreamEnds(c) \/ StreamFails(c) \/
   HangUp(c) \/ Stall(c) \/ (\E s \in Sessions : Attach(c, s) \/ AttachUnknown(c, s))
      PROVE  UNCHANGED <<nextID, started, proc, pc, job>>
  BY <1>15 DEF Attach, AttachUnknown, Subscribe, Accepts, StreamEnds, StreamFails,
     HangUp, Stall, daemonVars, sessionVars, loopVars, handlerVars, streamVars,
     clientVars
<1>16. ASSUME NEW s \in Sessions, MarkExited(s) \/ ReadStatus(s) \/ CloseSubs(s) \/
   TellEnd(s) \/ ToldAll(s) \/ RemoveEnded(s) \/ (\E c \in Conns : NextWriter(s, c))
      PROVE  UNCHANGED <<nextID, started, proc, pc, job>>
  BY <1>16 DEF MarkExited, FinalStatus, ReadStatus, CloseSubs, ToldAtEnd, NextWriter,
     TellEnd, ToldAll, RemoveEnded, RegistryWithout, daemonVars, sessionVars, loopVars,
     handlerVars, streamVars, clientVars
<1>17. CASE Signal \/ ShutdownReturns \/ Exit \/ UNCHANGED vars
  BY <1>14, <1>17 DEF Signal, ShutdownReturns, Exit, vars, daemonVars, sessionVars,
     loopVars, handlerVars, streamVars, clientVars
<1> HIDE DEF TypeOK, Sessions, NoSession, CreatorsApart, Creating, Goto, Receive,
   Finish, daemonVars, sessionVars, loopVars, handlerVars, streamVars, clientVars
<1> QED
  BY <1>1, <1>2, <1>3, <1>4, <1>5, <1>6, <1>7, <1>8, <1>9, <1>10, <1>11, <1>12, <1>13,
     <1>14, <1>15, <1>16, <1>17 DEF Next, Request, HandlerStep, StreamStep, LoopStep,
     ShutdownStep

\* A new session stays unknown to the other handlers until it is registered.
LEMMA RegistrationStep == TypeOK /\ FirstRegistration /\ [Next]_vars => FirstRegistration'
<1> SUFFICES ASSUME TypeOK, FirstRegistration, [Next]_vars PROVE FirstRegistration'
  OBVIOUS
<1> USE DEF TypeOK, Sessions, NoSession, FirstRegistration, Goto, Receive, Finish,
   daemonVars, sessionVars, loopVars, handlerVars, streamVars, clientVars
<1>1. ASSUME NEW c \in Conns, AllocID(c) PROVE FirstRegistration'
  BY <1>1 DEF AllocID, NextID
<1>2. ASSUME NEW c \in Conns, Register(c) PROVE FirstRegistration'
  BY <1>2 DEF Register
<1>3. ASSUME NEW c \in Conns, Spawn(c) PROVE FirstRegistration'
  BY <1>3 DEF Spawn
<1>4. ASSUME NEW c \in Conns, SpawnFails(c) PROVE FirstRegistration'
  BY <1>4 DEF SpawnFails
<1>5. ASSUME NEW c \in Conns, Publish(c) PROVE FirstRegistration'
  BY <1>5 DEF Publish, StatusPublished
<1>6. ASSUME NEW c \in Conns, Unregister(c) PROVE FirstRegistration'
  BY <1>6 DEF Unregister
<1>7. ASSUME NEW c \in Conns, NEW s \in Sessions, KillSession(c, s) PROVE FirstRegistration'
  BY <1>7 DEF KillSession
<1>8. ASSUME NEW c \in Conns, MarkKilled(c) PROVE FirstRegistration'
  BY <1>8 DEF MarkKilled
<1>9. ASSUME NEW c \in Conns, KillChild(c) PROVE FirstRegistration'
  BY <1>9 DEF KillChild, Slain
<1>10. ASSUME NEW c \in Conns, RemoveKilled(c) PROVE FirstRegistration'
  BY <1>10 DEF RemoveKilled
<1>11. ASSUME NEW c \in Conns, Disconnect(c) PROVE FirstRegistration'
  BY <1>11 DEF Disconnect
<1>12. ASSUME NEW s \in Sessions, RemoveEnded(s) PROVE FirstRegistration'
  BY <1>12 DEF RemoveEnded, RegistryWithout
<1>13. CASE UNCHANGED <<registry, nextID, pc, job>>
  BY <1>13
<1>14. ASSUME NEW c \in Conns, Subscribe(c) \/ StreamEnds(c) \/ StreamFails(c) \/
   HangUp(c) \/ Stall(c) \/ (\E s \in Sessions : Attach(c, s) \/ AttachUnknown(c, s))
      PROVE  UNCHANGED <<registry, nextID, pc, job>>
  BY <1>14 DEF Attach, AttachUnknown, Subscribe, Accepts, StreamEnds, StreamFails,
     HangUp, Stall, daemonVars, sessionVars, loopVars, handlerVars, streamVars,
     clientVars
<1>15. ASSUME NEW s \in Sessions, MarkExited(s) \/ ReadStatus(s) \/ CloseSubs(s) \/
   TellEnd(s) \/ ToldAll(s) \/ ProcessExits(s) \/ ShutdownKills(s) \/ (\E c \in Conns :
   NextWriter(s, c))
      PROVE  UNCHANGED <<registry, nextID, pc, job>>
  BY <1>15 DEF MarkExited, FinalStatus, ReadStatus, CloseSubs, ToldAtEnd, NextWriter,
     TellEnd, ToldAll, ProcessExits, ShutdownKills, Slain, daemonVars, sessionVars,
     loopVars, handlerVars, streamVars, clientVars
<1>16. CASE Signal \/ ShutdownReturns \/ Exit \/ UNCHANGED vars
  BY <1>13, <1>16 DEF Signal, ShutdownReturns, Exit, vars, daemonVars, sessionVars,
     loopVars, handlerVars, streamVars, clientVars
<1> HIDE DEF TypeOK, Sessions, NoSession, FirstRegistration, Goto, Receive, Finish,
   daemonVars, sessionVars, loopVars, handlerVars, streamVars, clientVars
<1> QED
  BY <1>1, <1>2, <1>3, <1>4, <1>5, <1>6, <1>7, <1>8, <1>9, <1>10, <1>11, <1>12, <1>13,
     <1>14, <1>15, <1>16 DEF Next, Request, HandlerStep, StreamStep, LoopStep,
     ShutdownStep

\* A Kill that marked a started session kills the process it saw.
LEMMA KillStep == TypeOK /\ CreatorsApart /\ KillInHand /\ [Next]_vars => KillInHand'
<1> SUFFICES ASSUME TypeOK, CreatorsApart, KillInHand, [Next]_vars PROVE KillInHand'
  OBVIOUS
<1> USE DEF TypeOK, CreatorsApart, Creating, KillInHand, Goto, Receive, Finish,
   daemonVars, sessionVars, loopVars, handlerVars, streamVars, clientVars
<1>1. ASSUME NEW c \in Conns, AllocID(c) PROVE KillInHand'
  BY <1>1 DEF AllocID, NextID
<1>2. ASSUME NEW c \in Conns, Register(c) PROVE KillInHand'
  BY <1>2 DEF Register
<1>3. ASSUME NEW c \in Conns, Spawn(c) PROVE KillInHand'
  BY <1>3 DEF Spawn
<1>4. ASSUME NEW c \in Conns, SpawnFails(c) PROVE KillInHand'
  BY <1>4 DEF SpawnFails
<1>5. ASSUME NEW c \in Conns, Publish(c) PROVE KillInHand'
  BY <1>5 DEF Publish, StatusPublished
<1>6. ASSUME NEW c \in Conns, Unregister(c) PROVE KillInHand'
  BY <1>6 DEF Unregister
<1>7. ASSUME NEW c \in Conns, NEW s \in Sessions, KillSession(c, s) PROVE KillInHand'
  BY <1>7 DEF KillSession
<1>8. ASSUME NEW c \in Conns, MarkKilled(c) PROVE KillInHand'
  BY <1>8 DEF MarkKilled
<1>9. ASSUME NEW c \in Conns, KillChild(c) PROVE KillInHand'
  BY <1>9 DEF KillChild, Slain
<1>10. ASSUME NEW c \in Conns, RemoveKilled(c) PROVE KillInHand'
  BY <1>10 DEF RemoveKilled
<1>11. ASSUME NEW c \in Conns, Disconnect(c) PROVE KillInHand'
  BY <1>11 DEF Disconnect
<1>12. ASSUME NEW s \in Sessions, ProcessExits(s) PROVE KillInHand'
  BY <1>12 DEF ProcessExits
<1>13. ASSUME NEW s \in Sessions, MarkExited(s) PROVE KillInHand'
  BY <1>13 DEF MarkExited, FinalStatus
<1>14. ASSUME NEW s \in Sessions, ShutdownKills(s) PROVE KillInHand'
  BY <1>14 DEF ShutdownKills, Slain
<1>15. CASE UNCHANGED <<started, status, proc, pc, job, hasChild>>
  BY <1>15
<1>16. ASSUME NEW c \in Conns, Subscribe(c) \/ StreamEnds(c) \/ StreamFails(c) \/
   HangUp(c) \/ Stall(c) \/ (\E s \in Sessions : Attach(c, s) \/ AttachUnknown(c, s))
      PROVE  UNCHANGED <<started, status, proc, pc, job, hasChild>>
  BY <1>16 DEF Attach, AttachUnknown, Subscribe, Accepts, StreamEnds, StreamFails,
     HangUp, Stall, daemonVars, sessionVars, loopVars, handlerVars, streamVars,
     clientVars
<1>17. ASSUME NEW s \in Sessions, ReadStatus(s) \/ CloseSubs(s) \/ TellEnd(s) \/
   ToldAll(s) \/ RemoveEnded(s) \/ (\E c \in Conns : NextWriter(s, c))
      PROVE  UNCHANGED <<started, status, proc, pc, job, hasChild>>
  BY <1>17 DEF ReadStatus, CloseSubs, ToldAtEnd, NextWriter, TellEnd, ToldAll,
     RemoveEnded, RegistryWithout, daemonVars, sessionVars, loopVars, handlerVars,
     streamVars, clientVars
<1>18. CASE Signal \/ ShutdownReturns \/ Exit \/ UNCHANGED vars
  BY <1>15, <1>18 DEF Signal, ShutdownReturns, Exit, vars, daemonVars, sessionVars,
     loopVars, handlerVars, streamVars, clientVars
<1> HIDE DEF TypeOK, CreatorsApart, Creating, KillInHand, Goto, Receive, Finish,
   daemonVars, sessionVars, loopVars, handlerVars, streamVars, clientVars
<1> QED
  BY <1>1, <1>2, <1>3, <1>4, <1>5, <1>6, <1>7, <1>8, <1>9, <1>10, <1>11, <1>12, <1>13,
     <1>14, <1>15, <1>16, <1>17, <1>18 DEF Next, Request, HandlerStep, StreamStep,
     LoopStep, ShutdownStep

\* Once the read loop ended, the status and its copy stay final.
LEMMA NoticeStep == TypeOK /\ CreatorsApart /\ NoticeInHand /\ [Next]_vars => NoticeInHand'
<1> SUFFICES ASSUME TypeOK, CreatorsApart, NoticeInHand, [Next]_vars PROVE NoticeInHand'
  OBVIOUS
<1> USE DEF TypeOK, CreatorsApart, Creating, NoticeInHand, Final, Statuses, Finish,
   Goto, daemonVars, sessionVars, loopVars, handlerVars, streamVars, clientVars
<1>1. ASSUME NEW c \in Conns, Publish(c) PROVE NoticeInHand'
  BY <1>1 DEF Publish, StatusPublished
<1>2. ASSUME NEW c \in Conns, MarkKilled(c) PROVE NoticeInHand'
  BY <1>2 DEF MarkKilled
<1>3. ASSUME NEW s \in Sessions, MarkExited(s) PROVE NoticeInHand'
  BY <1>3 DEF MarkExited, FinalStatus
<1>4. ASSUME NEW s \in Sessions, ReadStatus(s) PROVE NoticeInHand'
  BY <1>4 DEF ReadStatus
<1>5. ASSUME NEW s \in Sessions, CloseSubs(s) PROVE NoticeInHand'
  BY <1>5 DEF CloseSubs, ToldAtEnd
<1>6. ASSUME NEW s \in Sessions, NEW c \in Conns, NextWriter(s, c) PROVE NoticeInHand'
  BY <1>6 DEF NextWriter
<1>7. ASSUME NEW s \in Sessions, TellEnd(s) PROVE NoticeInHand'
  BY <1>7 DEF TellEnd
<1>8. ASSUME NEW s \in Sessions, ToldAll(s) PROVE NoticeInHand'
  BY <1>8 DEF ToldAll
<1>9. ASSUME NEW s \in Sessions, RemoveEnded(s) PROVE NoticeInHand'
  BY <1>9 DEF RemoveEnded, RegistryWithout
<1>10. ASSUME NEW s \in Sessions, ShutdownKills(s) PROVE NoticeInHand'
  BY <1>10 DEF ShutdownKills, Slain
<1>11. CASE UNCHANGED <<loop, started, status, notice, writing>>
  BY <1>11
<1>12. ASSUME NEW c \in Conns, AllocID(c) \/ Register(c) \/ Spawn(c) \/ SpawnFails(c) \/
   Unregister(c) \/ KillChild(c) \/ RemoveKilled(c) \/ Disconnect(c) \/ Subscribe(c) \/
   StreamEnds(c) \/ StreamFails(c) \/ HangUp(c) \/ Stall(c) \/ (\E s \in Sessions :
   KillSession(c, s) \/ Attach(c, s) \/ AttachUnknown(c, s))
      PROVE  UNCHANGED <<loop, started, status, notice, writing>>
  BY <1>12 DEF AllocID, NextID, Register, Spawn, SpawnFails, Unregister, KillSession,
     KillChild, Slain, RemoveKilled, Disconnect, Attach, AttachUnknown, Subscribe,
     Accepts, StreamEnds, StreamFails, HangUp, Stall, daemonVars, sessionVars, loopVars,
     handlerVars, streamVars, clientVars
<1>13. ASSUME NEW s \in Sessions, ProcessExits(s)
      PROVE  UNCHANGED <<loop, started, status, notice, writing>>
  BY <1>13 DEF ProcessExits, daemonVars, sessionVars, loopVars, handlerVars, streamVars,
     clientVars
<1>14. CASE Signal \/ ShutdownReturns \/ Exit \/ UNCHANGED vars
  BY <1>11, <1>14 DEF Signal, ShutdownReturns, Exit, vars, daemonVars, sessionVars,
     loopVars, handlerVars, streamVars, clientVars
<1> HIDE DEF TypeOK, CreatorsApart, Creating, NoticeInHand, Final, Statuses, Finish,
   Goto, daemonVars, sessionVars, loopVars, handlerVars, streamVars, clientVars
<1> QED
  BY <1>1, <1>2, <1>3, <1>4, <1>5, <1>6, <1>7, <1>8, <1>9, <1>10, <1>11, <1>12, <1>13,
     <1>14 DEF Next, Request, HandlerStep, StreamStep, LoopStep, ShutdownStep

\* What a client hears of the end is such a copy.
LEMMA HeardStep == TypeOK /\ NoticeInHand /\ EndNoticeIsFinal /\ [Next]_vars => EndNoticeIsFinal'
<1> SUFFICES ASSUME TypeOK, NoticeInHand, EndNoticeIsFinal, [Next]_vars PROVE EndNoticeIsFinal'
  OBVIOUS
<1> USE DEF TypeOK, NoticeInHand, EndNoticeIsFinal, Final, Hear, daemonVars,
   sessionVars, loopVars, handlerVars, streamVars, clientVars
<1>1. ASSUME NEW s \in Sessions, TellEnd(s) PROVE EndNoticeIsFinal'
  BY <1>1 DEF TellEnd
<1>2. ASSUME NEW c \in Conns, NEW s \in Sessions, AttachUnknown(c, s) PROVE EndNoticeIsFinal'
  BY <1>2 DEF AttachUnknown
<1>3. CASE UNCHANGED heard
  BY <1>3
<1>4. ASSUME NEW c \in Conns, AllocID(c) \/ Register(c) \/ Spawn(c) \/ SpawnFails(c) \/
   Publish(c) \/ Unregister(c) \/ MarkKilled(c) \/ KillChild(c) \/ RemoveKilled(c) \/
   Disconnect(c) \/ Subscribe(c) \/ StreamEnds(c) \/ StreamFails(c) \/ HangUp(c) \/
   Stall(c) \/ (\E s \in Sessions : KillSession(c, s) \/ Attach(c, s))
      PROVE  UNCHANGED heard
  BY <1>4 DEF AllocID, NextID, Register, Spawn, SpawnFails, Publish, StatusPublished,
     Unregister, KillSession, MarkKilled, KillChild, Slain, RemoveKilled, Disconnect,
     Attach, Subscribe, Accepts, StreamEnds, StreamFails, HangUp, Stall, daemonVars,
     sessionVars, loopVars, handlerVars, streamVars, clientVars
<1>5. ASSUME NEW s \in Sessions, MarkExited(s) \/ ReadStatus(s) \/ CloseSubs(s) \/
   ToldAll(s) \/ RemoveEnded(s) \/ ProcessExits(s) \/ ShutdownKills(s) \/ (\E c \in
   Conns : NextWriter(s, c))
      PROVE  UNCHANGED heard
  BY <1>5 DEF MarkExited, FinalStatus, ReadStatus, CloseSubs, ToldAtEnd, NextWriter,
     ToldAll, RemoveEnded, RegistryWithout, ProcessExits, ShutdownKills, Slain,
     daemonVars, sessionVars, loopVars, handlerVars, streamVars, clientVars
<1>6. CASE Signal \/ ShutdownReturns \/ Exit \/ UNCHANGED vars
  BY <1>3, <1>6 DEF Signal, ShutdownReturns, Exit, vars, daemonVars, sessionVars,
     loopVars, handlerVars, streamVars, clientVars
<1> HIDE DEF TypeOK, NoticeInHand, EndNoticeIsFinal, Final, Hear, daemonVars,
   sessionVars, loopVars, handlerVars, streamVars, clientVars
<1> QED
  BY <1>1, <1>2, <1>3, <1>4, <1>5, <1>6 DEF Next, Request, HandlerStep, StreamStep,
     LoopStep, ShutdownStep

\* The end empties s.subs, and nobody subscribes after it.
LEMMA SubscriberStep == TypeOK /\ NoSubscriberAfterEnd /\ [Next]_vars => NoSubscriberAfterEnd'
<1> SUFFICES ASSUME TypeOK, NoSubscriberAfterEnd, [Next]_vars PROVE NoSubscriberAfterEnd'
  OBVIOUS
<1> USE DEF TypeOK, NoSubscriberAfterEnd, daemonVars, sessionVars, loopVars,
   handlerVars, streamVars, clientVars
<1>1. ASSUME NEW s \in Sessions, CloseSubs(s) PROVE NoSubscriberAfterEnd'
  BY <1>1 DEF CloseSubs, ToldAtEnd
<1>2. ASSUME NEW c \in Conns, Subscribe(c) PROVE NoSubscriberAfterEnd'
  BY <1>2 DEF Subscribe, Accepts
<1>3. ASSUME NEW c \in Conns, StreamFails(c) PROVE NoSubscriberAfterEnd'
  BY <1>3 DEF StreamFails
<1>4. CASE UNCHANGED <<ended, subs>>
  BY <1>4
<1>5. ASSUME NEW c \in Conns, AllocID(c) \/ Register(c) \/ Spawn(c) \/ SpawnFails(c) \/
   Publish(c) \/ Unregister(c) \/ MarkKilled(c) \/ KillChild(c) \/ RemoveKilled(c) \/
   Disconnect(c) \/ StreamEnds(c) \/ HangUp(c) \/ Stall(c) \/ (\E s \in Sessions :
   KillSession(c, s) \/ Attach(c, s) \/ AttachUnknown(c, s))
      PROVE  UNCHANGED <<ended, subs>>
  BY <1>5 DEF AllocID, NextID, Register, Spawn, SpawnFails, Publish, StatusPublished,
     Unregister, KillSession, MarkKilled, KillChild, Slain, RemoveKilled, Disconnect,
     Attach, AttachUnknown, StreamEnds, HangUp, Stall, daemonVars, sessionVars,
     loopVars, handlerVars, streamVars, clientVars
<1>6. ASSUME NEW s \in Sessions, MarkExited(s) \/ ReadStatus(s) \/ TellEnd(s) \/
   ToldAll(s) \/ RemoveEnded(s) \/ ProcessExits(s) \/ ShutdownKills(s) \/ (\E c \in
   Conns : NextWriter(s, c))
      PROVE  UNCHANGED <<ended, subs>>
  BY <1>6 DEF MarkExited, FinalStatus, ReadStatus, NextWriter, TellEnd, ToldAll,
     RemoveEnded, RegistryWithout, ProcessExits, ShutdownKills, Slain, daemonVars,
     sessionVars, loopVars, handlerVars, streamVars, clientVars
<1>7. CASE Signal \/ ShutdownReturns \/ Exit \/ UNCHANGED vars
  BY <1>4, <1>7 DEF Signal, ShutdownReturns, Exit, vars, daemonVars, sessionVars,
     loopVars, handlerVars, streamVars, clientVars
<1> HIDE DEF TypeOK, NoSubscriberAfterEnd, daemonVars, sessionVars, loopVars,
   handlerVars, streamVars, clientVars
<1> QED
  BY <1>1, <1>2, <1>3, <1>4, <1>5, <1>6, <1>7 DEF Next, Request, HandlerStep,
     StreamStep, LoopStep, ShutdownStep

\* The inductive invariant holds in every reachable state, fairness or not.
LEMMA LifecycleSafe == Init /\ [][Next]_vars => []LifecycleInv
<1>1. LifecycleInv /\ [Next]_vars => LifecycleInv'
  BY TypingStep, CreatorsStep, RegistrationStep, KillStep, NoticeStep, HeardStep, SubscriberStep DEF LifecycleInv
<1> QED
  BY LifecycleInit, <1>1, PTL

\* Types, and what each handler and read loop at work knows of its session
\* (session.go, daemon.go).
THEOREM LifecycleCorrect == Spec => []LifecycleInv
BY LifecycleSafe, PTL DEF Spec

\* The types of every reachable state.
THEOREM LifecycleTypes == Spec => []TypeOK
<1>1. LifecycleInv => TypeOK
  BY DEF LifecycleInv
<1> QED
  BY <1>1, LifecycleCorrect, PTL

\* No interleaving of Start, Kill, Shutdown and a natural exit leaves a started
\* session marked as killed with its process running.
THEOREM KilledStaysDead == Spec => []KilledIsDead
<1>1. LifecycleInv => KilledIsDead
  BY DEF LifecycleInv, KillInHand, KilledIsDead, Killing
<1> QED
  BY <1>1, LifecycleCorrect, PTL

\* The notice of the end always makes the client leave.
THEOREM NoticesAreFinal == Spec => []EndNoticeIsFinal
<1>1. LifecycleInv => EndNoticeIsFinal
  BY DEF LifecycleInv
<1> QED
  BY <1>1, LifecycleCorrect, PTL

\* No client waits on a channel that nobody will close.
THEOREM EndLeavesNoSubscriber == Spec => []NoSubscriberAfterEnd
<1>1. LifecycleInv => NoSubscriberAfterEnd
  BY DEF LifecycleInv
<1> QED
  BY <1>1, LifecycleCorrect, PTL

\* A session is registered once, before its start, while its creator alone works
\* on it: ids are never shared.
THEOREM IdsAreNotShared == Spec => RegisteredOnce
<1> DEFINE Entry == \A s \in Sessions : s \in registry' \ registry =>
                        /\ ~started[s]
                        /\ \A c, d \in Conns : job[c] = s /\ job[d] = s => c = d
<1>1. LifecycleInv /\ [Next]_vars => [Entry]_vars
  <2> SUFFICES ASSUME LifecycleInv, Next PROVE Entry
    OBVIOUS
  <2>1. ASSUME NEW c \in Conns, Register(c) PROVE Entry
    BY <2>1 DEF LifecycleInv, CreatorsApart, FirstRegistration, Creating, Register
  <2>2. CASE registry' \subseteq registry
    BY <2>2
  <2>3. ASSUME NEW c \in Conns, HandlerStep(c), ~Register(c)
        PROVE  registry' \subseteq registry
    BY <2>3 DEF HandlerStep, Spawn, SpawnFails, Publish, Unregister, MarkKilled, KillChild,
       RemoveKilled, Disconnect, daemonVars
  <2>4. ASSUME NEW c \in Conns, Request(c) \/ StreamStep(c) \/ HangUp(c) \/ Stall(c)
        PROVE  registry' \subseteq registry
    BY <2>4 DEF Request, AllocID, KillSession, Attach, AttachUnknown, StreamStep,
       Subscribe, StreamEnds, StreamFails, HangUp, Stall, daemonVars
  <2>5. ASSUME NEW s \in Sessions, LoopStep(s) \/ ProcessExits(s)
        PROVE  registry' \subseteq registry
    BY <2>5 DEF LoopStep, MarkExited, ReadStatus, CloseSubs, NextWriter, TellEnd, ToldAll,
       RemoveEnded, RegistryWithout, ProcessExits, daemonVars
  <2>6. CASE Signal \/ ShutdownStep \/ UNCHANGED vars
    BY <2>6 DEF Signal, ShutdownStep, ShutdownKills, ShutdownReturns, Exit, vars, daemonVars
  <2> QED
    BY <2>1, <2>2, <2>3, <2>4, <2>5, <2>6 DEF Next
<1> QED
  BY <1>1, LifecycleCorrect, PTL DEF Spec, RegisteredOnce

--------------------------------------------------------------------------------
(* Discovery: agents outside of every session, for any number of processes.      *)

\* Nobody is the child of a process that does not run, and parents come first: no
\* set of processes has only members with a parent in it.
Forest ==
    /\ \A p \in Procs : home[p] = "unborn" => parent[p] = "none"
    /\ \A p \in Procs : parent[p] \in Procs => parent[p] \in Alive
    /\ \A S \in SUBSET Procs : S # {} => \E p \in S : parent[p] \notin S

\* What is in a session is its process, or the child of something in it.
Housed ==
    \A p \in Procs : home[p] \in Own =>
        /\ p \in Alive /\ stage[home[p]] \notin {"none", "registered"}
        /\ p # root[home[p]] => parent[p] \in Procs /\ home[parent[p]] = home[p]

\* The scan still tells the parents of what is in a session.
ScanHolds ==
    \A p \in DOMAIN tree :
        /\ home[p] # "unborn"
        /\ home[p] \in Own => tree[p] = parent[p] /\ (tree[p] \in Procs => tree[p] \in DOMAIN tree)

DiscoveryInv == DiscoveryTypeOK /\ Forest /\ Housed /\ ScanHolds

\* A family has its root, and the children of all its members; and whatever has
\* those has the family.
LEMMA Families ==
    ASSUME NEW t, NEW r
    PROVE  /\ Family(t, r) \subseteq DOMAIN t
           /\ \A p \in DOMAIN t : p = r \/ t[p] = r \/ t[p] \in Family(t, r) => p \in Family(t, r)
<1>1. ASSUME NEW p \in DOMAIN t, p = r \/ t[p] = r PROVE p \in Family(t, r)
  BY <1>1 DEF Family
<1>2. ASSUME NEW p \in DOMAIN t, t[p] \in Family(t, r) PROVE p \in Family(t, r)
  BY <1>2 DEF Family
<1>3. Family(t, r) \subseteq DOMAIN t
  BY DEF Family
<1> QED
  BY <1>1, <1>2, <1>3

\* All of a session that the scan saw is in the family of the session's process.
LEMMA SessionIsFamily ==
    ASSUME DiscoveryInv, NEW s \in Own, NEW p \in DOMAIN tree, home[p] = s
    PROVE  p \in Family(tree, root[s])
<1> SUFFICES ASSUME NEW S \in SUBSET DOMAIN tree, p \notin S,
                    \A q \in DOMAIN tree : root[s] \in {q, tree[q]} \/ tree[q] \in S => q \in S
             PROVE  FALSE
  BY DEF Family
<1> DEFINE Left == {q \in DOMAIN tree : home[q] = s /\ q \notin S}
<1>1. Left \in SUBSET Procs /\ Left # {}
  BY DEF DiscoveryInv, DiscoveryTypeOK
<1>2. PICK q \in Left : parent[q] \notin Left
  BY <1>1 DEF DiscoveryInv, Forest
<1>3. q \in DOMAIN tree /\ q \in Procs /\ home[q] = s /\ q \notin S
  BY <1>1, <1>2
<1>4. q # root[s] /\ tree[q] \notin S
  BY <1>3
<1>5. parent[q] \in Procs /\ home[parent[q]] = s
  BY <1>3, <1>4 DEF DiscoveryInv, Housed
<1>6. tree[q] = parent[q] /\ tree[q] \in DOMAIN tree
  BY <1>3, <1>5 DEF DiscoveryInv, ScanHolds
<1> QED
  BY <1>2, <1>4, <1>5, <1>6

LEMMA DiscoveryAtFirst == DiscoveryInit => DiscoveryInv
<1> SUFFICES ASSUME DiscoveryInit PROVE DiscoveryInv
  OBVIOUS
<1>1. DOMAIN tree = {} /\ lists \in 0 .. MaxLists
  BY DiscoveryAssumption DEF DiscoveryInit
<1>2. DiscoveryTypeOK
  BY <1>1 DEF DiscoveryInit, DiscoveryTypeOK
<1>3. Forest
  BY DiscoveryAssumption DEF DiscoveryInit, Forest, Alive
<1>4. Housed /\ ScanHolds
  BY <1>1, DiscoveryAssumption DEF DiscoveryInit, Housed, ScanHolds
<1> QED
  BY <1>2, <1>3, <1>4 DEF DiscoveryInv

\* A process begins, below another one or on its own.
LEMMA BirthKeeps ==
    ASSUME DiscoveryInv, NEW p \in Procs, NEW by, NEW session, Begins(p, by, session),
           \/ by = "init" /\ session = "none"
           \/ by \in Alive /\ session = home[by]
           \/ by = "init" /\ session \in Own /\ root'[session] = p /\ stage'[session] = "forked"
              /\ stage[session] = "registered",
           \A s \in Own \ {session} : root'[s] = root[s] /\ stage'[s] = stage[s],
           session \notin Own \/ by # "init" => UNCHANGED <<root, stage>>,
           UNCHANGED tree
    PROVE  /\ Forest' /\ Housed' /\ ScanHolds'
           /\ parent' \in [Procs -> Procs \cup {"init", "none"}] /\ home' \in [Procs -> Own \cup {"none", "unborn"}]
<1> USE DEF DiscoveryInv
<1>1. /\ home[p] = "unborn" /\ parent' = [parent EXCEPT ![p] = by]
      /\ home' = [home EXCEPT ![p] = session]
      /\ parent \in [Procs -> Procs \cup {"init", "none"}] /\ home \in [Procs -> Own \cup {"none", "unborn"}]
      /\ parent[p] = "none" /\ p \notin Alive /\ \A q \in Procs : parent[q] # p
      /\ {"init", "none", "unborn"} \cap (Procs \cup Own) = {}
  BY DiscoveryAssumption DEF Begins, DiscoveryTypeOK, Forest, Alive
<1>2. by \in Procs \cup {"init"} /\ by # p /\ by # "none" /\ session \in Own \cup {"none", "unborn"}
  BY <1>1 DEF Alive
<1>3. /\ parent' \in [Procs -> Procs \cup {"init", "none"}] /\ home' \in [Procs -> Own \cup {"none", "unborn"}]
      /\ parent'[p] = by /\ home'[p] = session
      /\ \A q \in Procs \ {p} : parent'[q] = parent[q] /\ home'[q] = home[q]
  BY <1>1, <1>2
<1>4. session # "unborn"
  BY <1>1 DEF Forest, Alive
<1>5. Alive' = Alive \cup {p}
  BY <1>1, <1>2, <1>3 DEF Alive
<1>6. Forest'
  <2>1. \A q \in Procs : home'[q] = "unborn" => parent'[q] = "none"
    BY <1>3, <1>4 DEF Forest
  <2>2. \A q \in Procs : parent'[q] \in Procs => parent'[q] \in Alive'
    BY <1>1, <1>2, <1>3, <1>5 DEF Forest
  <2>3. ASSUME NEW S \in SUBSET Procs, S # {} PROVE \E q \in S : parent'[q] \notin S
    <3>1. CASE S \ {p} = {}
      BY <1>2, <1>3, <2>3, <3>1
    <3>2. CASE S \ {p} # {}
      <4>1. PICK q \in S \ {p} : parent[q] \notin S \ {p}
        BY <3>2 DEF Forest
      <4> QED
        BY <1>1, <1>3, <4>1
    <3> QED
      BY <3>1, <3>2
  <2> QED
    BY <2>1, <2>2, <2>3 DEF Forest
<1>7. Housed'
  <2> SUFFICES ASSUME NEW q \in Procs, home'[q] \in Own
               PROVE  /\ q \in Alive' /\ stage'[home'[q]] \notin {"none", "registered"}
                      /\ q # root'[home'[q]] => parent'[q] \in Procs /\ home'[parent'[q]] = home'[q]
    BY DEF Housed
  <2>1. CASE q = p
    <3>1. CASE by = "init"
      BY <1>1, <1>3, <1>5, <2>1, <3>1 DEF Alive
    <3>2. CASE by # "init"
      <4>1. by \in Alive /\ session = home[by] /\ by \in Procs /\ home'[by] = home[by] /\ UNCHANGED stage
        BY <1>1, <1>2, <1>3, <3>2 DEF Alive
      <4> QED
        BY <1>3, <1>5, <2>1, <4>1 DEF Housed
    <3> QED
      BY <3>1, <3>2
  <2>2. CASE q # p
    <3>1. /\ home'[q] = home[q] /\ parent'[q] = parent[q] /\ q \in Alive
          /\ stage[home[q]] \notin {"none", "registered"}
          /\ q # root[home[q]] => parent[q] \in Procs /\ home[parent[q]] = home[q] /\ parent[q] # p
      BY <1>1, <1>3, <2>2 DEF Housed
    <3>2. root'[home[q]] = root[home[q]] /\ stage'[home[q]] = stage[home[q]]
      <4>1. home[q] \in Own
        BY <2>2, <3>1
      <4>2. CASE home[q] # session
        BY <4>1, <4>2
      <4>3. CASE home[q] = session /\ by = "init"
        BY <1>1, <3>1, <4>1, <4>3 DEF Alive
      <4>4. CASE home[q] = session /\ by # "init"
        BY <4>4
      <4> QED
        BY <4>2, <4>3, <4>4
    <3> QED
      BY <1>3, <1>5, <3>1, <3>2
  <2> QED
    BY <2>1, <2>2
<1>8. ScanHolds'
  <2>1. DOMAIN tree \subseteq Procs /\ p \notin DOMAIN tree
    BY <1>1 DEF ScanHolds, DiscoveryTypeOK
  <2> QED
    BY <1>3, <2>1 DEF ScanHolds
<1> QED
  BY <1>3, <1>6, <1>7, <1>8

\* A process ends: what is below it is on its own.
LEMMA DeathKeeps ==
    ASSUME DiscoveryInv, NEW p \in Procs, ProcessDies(p)
    PROVE  DiscoveryInv'
<1> USE DEF DiscoveryInv
<1> DEFINE Lost == Family(parent, p)
<1>1. /\ p \in Alive /\ UNCHANGED <<agents, stage, root, tree, offered, lists>>
      /\ parent' = [q \in Procs |-> IF q = p THEN "none" ELSE IF parent[q] = p THEN "init" ELSE parent[q]]
      /\ home' = [q \in Procs |-> IF q \in Alive /\ q \in Lost THEN "none" ELSE home[q]]
      /\ parent \in [Procs -> Procs \cup {"init", "none"}] /\ home \in [Procs -> Own \cup {"none", "unborn"}]
      /\ {"init", "none", "unborn"} \cap (Procs \cup Own) = {}
  BY DiscoveryAssumption DEF ProcessDies, owned, DiscoveryTypeOK
<1>2. p \in Lost /\ \A q \in Procs : parent[q] = p \/ parent[q] \in Lost => q \in Lost
  BY <1>1, Families
<1> HIDE DEF Lost
<1>3. DiscoveryTypeOK'
  BY <1>1 DEF DiscoveryTypeOK
<1>4. Alive' = Alive \ {p}
  BY <1>1 DEF Alive
<1>5. ASSUME NEW q \in Procs, home'[q] \in Own
      PROVE  q \notin Lost /\ q # p /\ home'[q] = home[q] /\ parent'[q] = parent[q] /\ q \in Alive
  BY <1>1, <1>2, <1>5 DEF Housed
<1>6. Forest'
  <2>1. \A q \in Procs : home'[q] = "unborn" => parent'[q] = "none"
    BY <1>1 DEF Forest
  <2>2. \A q \in Procs : parent'[q] \in Procs => parent'[q] = parent[q] /\ parent[q] # p
    BY <1>1
  <2>3. \A q \in Procs : parent'[q] \in Procs => parent'[q] \in Alive'
    BY <1>4, <2>2 DEF Forest
  <2>4. ASSUME NEW S \in SUBSET Procs, S # {} PROVE \E q \in S : parent'[q] \notin S
    <3>1. PICK q \in S : parent[q] \notin S
      BY <2>4 DEF Forest
    <3> QED
      BY <2>2, <3>1
  <2> QED
    BY <2>1, <2>3, <2>4 DEF Forest
<1>7. Housed'
  <2> SUFFICES ASSUME NEW q \in Procs, home'[q] \in Own
               PROVE  /\ q \in Alive' /\ stage'[home'[q]] \notin {"none", "registered"}
                      /\ q # root'[home'[q]] => parent'[q] \in Procs /\ home'[parent'[q]] = home'[q]
    BY DEF Housed
  <2>1. q \notin Lost /\ q # p /\ home'[q] = home[q] /\ parent'[q] = parent[q] /\ q \in Alive
    BY <1>5
  <2>2. stage[home[q]] \notin {"none", "registered"} /\ (q # root[home[q]] => parent[q] \in Procs /\ home[parent[q]] = home[q])
    BY <2>1 DEF Housed
  <2>3. parent[q] \in Procs => home'[parent[q]] = home[parent[q]]
    BY <1>1, <1>2, <2>1
  <2> QED
    BY <1>1, <1>4, <2>1, <2>2, <2>3
<1>8. ScanHolds'
  <2> SUFFICES ASSUME NEW q \in DOMAIN tree
               PROVE  /\ home'[q] # "unborn"
                      /\ home'[q] \in Own => tree[q] = parent'[q] /\ (tree[q] \in Procs => tree[q] \in DOMAIN tree)
    BY <1>1 DEF ScanHolds
  <2>1. q \in Procs /\ home[q] # "unborn"
    BY DEF ScanHolds, DiscoveryTypeOK
  <2> QED
    BY <1>1, <1>5, <2>1 DEF ScanHolds
<1> QED
  BY <1>3, <1>6, <1>7, <1>8

LEMMA DiscoveryStep == DiscoveryInv /\ [DiscoveryNext]_discoveryVars => DiscoveryInv'
<1> SUFFICES ASSUME DiscoveryInv, [DiscoveryNext]_discoveryVars PROVE DiscoveryInv'
  OBVIOUS
<1> USE DiscoveryAssumption DEF DiscoveryInv
<1>1. ASSUME NEW p \in Procs, StartProgram(p) PROVE DiscoveryInv'
  <2>1. UNCHANGED <<stage, root, tree, offered, lists>> /\ UNCHANGED agents
    BY <1>1 DEF StartProgram, owned, Begins
  <2>2. PICK by, session : /\ Begins(p, by, session)
                           /\ \/ by = "init" /\ session = "none"
                              \/ by \in Alive /\ session = home[by]
    BY <1>1 DEF StartProgram
  <2>3. /\ Forest' /\ Housed' /\ ScanHolds'
        /\ parent' \in [Procs -> Procs \cup {"init", "none"}] /\ home' \in [Procs -> Own \cup {"none", "unborn"}]
    BY <2>1, <2>2, BirthKeeps
  <2> QED
    BY <2>1, <2>3 DEF DiscoveryTypeOK
<1>2. ASSUME NEW s \in Own, NEW p \in Procs, Fork(s, p) PROVE DiscoveryInv'
  <2>1. /\ stage[s] = "registered" /\ stage' = [stage EXCEPT ![s] = "forked"]
        /\ root' = [root EXCEPT ![s] = p] /\ Begins(p, "init", s)
        /\ UNCHANGED <<tree, offered, lists>> /\ UNCHANGED agents
        /\ root \in [Own -> Procs \cup {"none"}]
        /\ stage \in [Own -> {"none", "registered", "forked", "running", "gone"}]
    BY <1>2 DEF Fork, SessionGoes, Begins, DiscoveryTypeOK
  <2>2. /\ Forest' /\ Housed' /\ ScanHolds'
        /\ parent' \in [Procs -> Procs \cup {"init", "none"}] /\ home' \in [Procs -> Own \cup {"none", "unborn"}]
    BY <2>1, BirthKeeps
  <2> QED
    BY <2>1, <2>2 DEF DiscoveryTypeOK
<1>3. ASSUME NEW s \in Own, AddSession(s) \/ SetCmd(s) \/ DropSession(s) PROVE DiscoveryInv'
  <2>1. /\ UNCHANGED <<parent, agents, home, root, tree, offered, lists>>
        /\ stage' \in [Own -> {"none", "registered", "forked", "running", "gone"}]
        /\ \A x \in Own : stage[x] \notin {"none", "registered"} => stage'[x] \notin {"none", "registered"}
    BY <1>3 DEF AddSession, SetCmd, DropSession, SessionGoes, procs, DiscoveryTypeOK
  <2>2. DiscoveryTypeOK'
    BY <2>1 DEF DiscoveryTypeOK
  <2>3. Forest' /\ ScanHolds'
    BY <2>1 DEF Forest, ScanHolds, Alive
  <2>4. Housed'
    BY <2>1 DEF Housed, Alive
  <2> QED
    BY <2>2, <2>3, <2>4
<1>4. CASE ScanProcs
  <2>1. /\ UNCHANGED <<parent, agents, home, stage, root, offered>>
        /\ tree' = [p \in Alive |-> parent[p]] /\ lists' = lists + 1 /\ lists < MaxLists
    BY <1>4 DEF ScanProcs, procs, owned
  <2>2. DOMAIN tree' = Alive /\ Alive \subseteq Procs
    BY <2>1 DEF Alive
  <2>3. DiscoveryTypeOK'
    BY <2>1, <2>2 DEF DiscoveryTypeOK
  <2>4. Forest' /\ Housed'
    BY <2>1 DEF Forest, Housed, Alive
  <2>5. ScanHolds'
    BY <2>1, <2>2 DEF ScanHolds, Forest, Alive
  <2> QED
    BY <2>3, <2>4, <2>5
<1>5. CASE Discover
  <2>1. /\ UNCHANGED <<parent, agents, home, stage, root, lists>> /\ tree' = <<>> /\ offered' \subseteq DOMAIN tree
    BY <1>5 DEF Discover, procs, owned
  <2>2. DOMAIN tree' = {}
    BY <2>1
  <2>3. DiscoveryTypeOK'
    BY <2>1, <2>2 DEF DiscoveryTypeOK
  <2>4. Forest' /\ Housed' /\ ScanHolds'
    BY <2>1, <2>2 DEF Forest, Housed, ScanHolds, Alive
  <2> QED
    BY <2>3, <2>4
<1>6. CASE UNCHANGED discoveryVars
  BY <1>6 DEF discoveryVars, procs, owned, DiscoveryTypeOK, Forest, Housed, ScanHolds, Alive
<1> QED
  BY <1>1, <1>2, <1>3, <1>4, <1>5, <1>6, DeathKeeps DEF DiscoveryNext

\* Types, the shape of the process table, and what the scan still says of it.
THEOREM DiscoveryCorrect == DiscoverySpec => []DiscoveryInv
BY DiscoveryAtFirst, DiscoveryStep, PTL DEF DiscoverySpec

\* No list offers an agent that is under the process of a running session, however
\* deep (unmanagedSessions, procTree.descendants).
THEOREM OwnAgentsNotOffered == DiscoverySpec => OwnedNeverOffered
<1> DEFINE Left == Discover => \A p \in offered', s \in Own : home[p] = s => stage[s] # "running"
<1>1. DiscoveryInv /\ [DiscoveryNext]_discoveryVars => [Left]_discoveryVars
  <2> SUFFICES ASSUME DiscoveryInv, Discover, NEW p \in offered', NEW s \in Own,
                      home[p] = s, stage[s] = "running"
               PROVE  FALSE
    OBVIOUS
  <2>1. p \in DOMAIN tree /\ p \notin Family(tree, root[s])
    BY DEF Discover
  <2> QED
    BY <2>1, SessionIsFamily
<1> QED
  BY <1>1, DiscoveryCorrect, PTL DEF DiscoverySpec, OwnedNeverOffered

--------------------------------------------------------------------------------
(* The run checks both at once: each moves alone.                               *)

LEMMA OneAtATime == [DaemonNext]_daemonSideVars => [Next]_vars /\ [DiscoveryNext]_discoveryVars
<1> SUFFICES ASSUME [DaemonNext]_daemonSideVars
             PROVE  [Next]_vars /\ [DiscoveryNext]_discoveryVars
  OBVIOUS
<1>1. CASE UNCHANGED daemonSideVars
  BY <1>1 DEF daemonSideVars
<1>2. ASSUME NEW c \in Conns,
             \/ SessionsDo(Request(c)) \/ SessionsDo(HandlerStep(c)) \/ SessionsDo(StreamStep(c))
             \/ SessionsDo(HangUp(c)) \/ SessionsDo(Stall(c))
      PROVE  SessionsDo(Next)
  BY <1>2 DEF SessionsDo, Next
<1>3. ASSUME NEW s \in Sessions, SessionsDo(LoopStep(s)) \/ SessionsDo(ProcessExits(s))
      PROVE  SessionsDo(Next)
  BY <1>3 DEF SessionsDo, Next
<1>4. ASSUME SessionsDo(Signal) \/ SessionsDo(ShutdownStep)
      PROVE  SessionsDo(Next)
  BY <1>4 DEF SessionsDo, Next
<1>5. ASSUME NEW p \in Procs, DiscoveryDoes(StartProgram(p)) \/ DiscoveryDoes(ProcessDies(p))
      PROVE  DiscoveryDoes(DiscoveryNext)
  BY <1>5 DEF DiscoveryDoes, DiscoveryNext
<1>6. ASSUME NEW s \in Own,
             \/ DiscoveryDoes(AddSession(s)) \/ DiscoveryDoes(SetCmd(s)) \/ DiscoveryDoes(DropSession(s))
             \/ \E p \in Procs : DiscoveryDoes(Fork(s, p))
      PROVE  DiscoveryDoes(DiscoveryNext)
  BY <1>6 DEF DiscoveryDoes, DiscoveryNext
<1>7. ASSUME DiscoveryDoes(ScanProcs) \/ DiscoveryDoes(Discover)
      PROVE  DiscoveryDoes(DiscoveryNext)
  BY <1>7 DEF DiscoveryDoes, DiscoveryNext
<1>8. CASE SessionsDo(Next)
  BY <1>8 DEF SessionsDo
<1>9. CASE DiscoveryDoes(DiscoveryNext)
  BY <1>9 DEF DiscoveryDoes
<1>10. CASE SessionsDo(Over /\ UNCHANGED vars)
  BY <1>10 DEF SessionsDo
<1> QED
  BY <1>1, <1>2, <1>3, <1>4, <1>5, <1>6, <1>7, <1>8, <1>9, <1>10 DEF DaemonNext

\* The specification that the run checks is each of the two, but for the fairness of
\* the first (the topic only says which of them moves): what is proved of one is
\* proved of the run.
THEOREM DaemonIsEach == DaemonSpec => Init /\ [][Next]_vars /\ DiscoverySpec
<1>1. DaemonInit => Init /\ DiscoveryInit
  BY DEF DaemonInit
<1> QED
  BY <1>1, OneAtATime, PTL DEF DaemonSpec, DiscoverySpec

\* The values of both are what their code can give them.
THEOREM DaemonTypes == DaemonSpec => []DaemonTypeOK
<1>1. LifecycleInv /\ DiscoveryInv => DaemonTypeOK
  BY DEF DaemonTypeOK, DiscoveryInv, LifecycleInv
<1> QED
  BY <1>1, DaemonIsEach, LifecycleSafe, DiscoveryCorrect, PTL
================================================================================
