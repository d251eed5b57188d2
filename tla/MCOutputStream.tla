---------------------------- MODULE MCOutputStream ----------------------------
(* Three parts of the way of the output, checked in one run: the daemon's, up to *)
(* the clients' sockets, the terminal client's, from its attach channel to the    *)
(* screen, and the replay an attaching client starts from. They share no state;   *)
(* topic says which of them moves.                                                *)
EXTENDS OutputStream, TuiTerminal, AttachReplay

VARIABLE topic

outputVars == <<topic, vars, termVars, replayVars>>

OutputInit == topic \in {"stream", "terminal", "replay"} /\ Init /\ TermInit /\ ReplayInit

StreamDoes(A) == topic = "stream" /\ A /\ UNCHANGED <<topic, termVars, replayVars>>
TermDoes(A)   == topic = "terminal" /\ A /\ UNCHANGED <<topic, vars, replayVars>>
ReplayDoes(A) == topic = "replay" /\ A /\ UNCHANGED <<topic, vars, termVars>>

\* The next-state relation of each model, action by action. A terminal rests once
\* nothing more comes for it.
OutputNext ==
    \/ StreamDoes(Emit) \/ StreamDoes(ProcessExits) \/ StreamDoes(Killed)
    \/ StreamDoes(HandleOutput) \/ StreamDoes(HandleExit) \/ StreamDoes(ToldAll)
    \/ \E c \in Conns :
         \/ StreamDoes(NextWriter(c)) \/ StreamDoes(TellEnd(c))
         \/ StreamDoes(Subscribe(c)) \/ StreamDoes(SubscribeLate(c))
         \/ \E i \in Chunks : StreamDoes(TakeChunk(c, i))
         \/ StreamDoes(WriteFrame(c)) \/ StreamDoes(WriteFails(c)) \/ StreamDoes(StreamEnds(c))
         \/ \E i \in Items : StreamDoes(ReadOutput(c, i))
         \/ StreamDoes(ReadNotice(c)) \/ StreamDoes(Stall(c)) \/ StreamDoes(HangUp(c))
    \/ StreamDoes(Over /\ UNCHANGED vars)
    \/ TermDoes(OutputArrives) \/ TermDoes(ConnectionLost)
    \/ TermDoes(ReaderTop) \/ TermDoes(ReadChunk) \/ TermDoes(EndOfOutput)
    \/ TermDoes(LockToFeed) \/ TermDoes(ChunkFed)
    \/ TermDoes(ReadAnswer) \/ TermDoes(ForwardAnswer)
    \/ TermDoes(TakeJob) \/ TermDoes(SendMouseWheel) \/ TermDoes(WheelSent)
    \/ TermDoes(FirstDamage) \/ TermDoes(MoreDamage) \/ TermDoes(Settled) \/ TermDoes(WaiterStopped)
    \/ TermDoes(WheelChoice) \/ TermDoes(Enqueue) \/ TermDoes(Resize) \/ TermDoes(RenderTick)
    \/ TermDoes(Paint) \/ TermDoes(Closed)
    \/ TermDoes(PressKey) \/ TermDoes(TurnWheel) \/ TermDoes(WindowSize)
    \/ TermDoes(FlagArrives) \/ TermDoes(Close)
    \/ ReplayDoes(EmulatorWrites)
    \/ topic # "stream" /\ UNCHANGED outputVars

\* The fairness of each model while it moves.
OutputSpec ==
    /\ OutputInit /\ [][OutputNext]_outputVars
    /\ WF_outputVars(StreamDoes(LoopStep))
    /\ \A c \in Conns :
         WF_outputVars(StreamDoes(StreamStep(c))) /\ WF_outputVars(StreamDoes(ClientReads(c)))
    /\ WF_outputVars(TermDoes(ReadLoop)) /\ WF_outputVars(TermDoes(ResponseLoop))
    /\ WF_outputVars(TermDoes(InputWriter)) /\ WF_outputVars(TermDoes(Waiters))
    /\ WF_outputVars(TermDoes(Program))

OutputTypeOK == TypeOK /\ TermTypeOK /\ ReplayTypeOK
===============================================================================
