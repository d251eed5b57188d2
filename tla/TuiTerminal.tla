------------------------------ MODULE TuiTerminal ------------------------------
(* The terminal emulator inside the session view (vtEmu) and the goroutines     *)
(* around it: readLoop feeds it the daemon's output under the mutex mu, and     *)
(* responseLoop drains what it answers to the queries in that output. Answers   *)
(* and forwarded wheel events go through a synchronous pipe, so whoever makes   *)
(* the emulator write one keeps mu until it is read. The program itself handles *)
(* one message at a time and paints after each. TypedInput has what becomes of  *)
(* the keys; daemon and socket take every request here.                         *)
EXTENDS Naturals, Sequences

CONSTANTS MaxOutput,    \* bound: chunks of output
          MaxQueries,   \* bound: queries in a chunk
          InputRoom,    \* how many jobs inputCh holds
          MaxGestures   \* bound: keys, wheel notches, window sizes and Active flags

ASSUME TerminalAssumption ==
    {MaxOutput, MaxQueries, MaxGestures} \subseteq Nat /\ InputRoom \in Nat \ {0}

VARIABLES
    \* the attach channel
    outCh,        \* how many chunks it holds
    received,     \* how many were ever put into it
    gone,         \* the connection is closed
    \* the emulator
    mu,           \* who holds its mutex
    owed,         \* answers and events that the holder has still to write to the pipe
    damaged,      \* changed since the last GetScreen
    notifyC,      \* a token is in it
    stopChan,     \* it is closed
    fed,          \* history: chunks written to the emulator
    \* the goroutines
    reader,       \* readLoop
    response,     \* responseLoop
    writer,       \* the goroutine of startInputWriter, or the job it is about
    inputCh,      \* the jobs queued for it
    armed,        \* how many waitForDamage wait for damage
    settling,     \* how many saw some and wait for a quiet moment
    ticks,        \* renderTickMsg under way
    \* the program
    ui,           \* what it does: "idle", a part of Update or View, "closing" or "closed"
    job,          \* the job it enqueues
    viewParked,
    scrolled,     \* scrollTop > 0: the view is paged into its history
    painted,      \* history: chunks in the live frame last shown
    gestures

channel  == <<outCh, received, gone>>
emulator == <<mu, owed, damaged, notifyC, fed>>
waiters  == <<armed, settling, ticks>>
program  == <<ui, job, viewParked, scrolled, painted, gestures>>
termVars == <<channel, emulator, stopChan, reader, response, writer, inputCh,
              waiters, program>>

Queued == {"key", "wheel"}

TermTypeOK ==
    /\ outCh \in 0 .. MaxOutput
    /\ received \in 0 .. MaxOutput /\ fed \in 0 .. received /\ painted \in 0 .. fed
    /\ mu \in {"free", "reader", "writer"}
    /\ owed \in 0 .. MaxQueries + 1 /\ (mu = "free" => owed = 0)
    /\ {gone, damaged, notifyC, stopChan, viewParked, scrolled} \subseteq BOOLEAN
    /\ reader \in {"top", "reading", "holding", "feeding", "done"}
    /\ response \in {"reading", "writing", "done"}
    /\ writer \in {"idle", "wheel", "forwarding", "done"}
    /\ inputCh \in Seq(Queued) /\ Len(inputCh) <= InputRoom
    /\ armed \in Nat /\ settling \in Nat /\ ticks \in Nat
    /\ ui \in {"idle", "wheel", "enqueue", "resize", "paint", "freeze", "closing", "closed"}
    /\ job \in Queued
    /\ gestures \in 0 .. MaxGestures

\* newSessionModel and Init, once the attach was accepted.
TermInit ==
    /\ outCh = 0 /\ received = 0 /\ gone = FALSE
    /\ mu = "free" /\ owed = 0 /\ damaged = TRUE /\ notifyC = FALSE /\ fed = 0
    /\ stopChan = FALSE
    /\ reader = "top"
    /\ response = "reading"
    /\ writer = "idle" /\ inputCh = <<>>
    /\ armed = 1 /\ settling = 0 /\ ticks = 0
    /\ ui = "paint" /\ job = "key" /\ viewParked = FALSE /\ scrolled = FALSE /\ painted = 0
    /\ gestures = 0

--------------------------------------------------------------------------------
(* The attach channel.                                                          *)

OutputArrives ==
    /\ ~gone /\ ui # "closed" /\ received < MaxOutput
    /\ outCh' = outCh + 1
    /\ received' = received + 1
    /\ UNCHANGED <<gone, emulator, stopChan, reader, response, writer, inputCh,
                   waiters, program>>

\* The daemon goes away or ends the session: what is in the channel stays.
ConnectionLost ==
    /\ ~gone
    /\ gone' = TRUE
    /\ UNCHANGED <<outCh, received, emulator, stopChan, reader, response, writer,
                   inputCh, waiters, program>>

--------------------------------------------------------------------------------
(* readLoop.                                                                    *)

ReaderOnly == UNCHANGED <<received, gone, stopChan, response, writer, inputCh, waiters,
                          program>>

ReaderTop ==
    /\ reader = "top"
    /\ reader' = IF stopChan THEN "done" ELSE "reading"
    /\ ReaderOnly /\ UNCHANGED <<outCh, emulator>>

ReadChunk ==
    /\ reader = "reading" /\ outCh > 0
    /\ outCh' = outCh - 1
    /\ reader' = "holding"
    /\ ReaderOnly /\ UNCHANGED emulator

EndOfOutput ==
    /\ reader = "reading" /\ outCh = 0 /\ gone
    /\ reader' = "done"
    /\ ReaderOnly /\ UNCHANGED <<outCh, emulator>>

LockToFeed ==
    /\ reader = "holding" /\ mu = "free"
    /\ mu' = "reader" /\ owed' \in 0 .. MaxQueries
    /\ reader' = "feeding"
    /\ ReaderOnly /\ UNCHANGED <<outCh, damaged, notifyC, fed>>

\* The rest of markDamagedLocked finds the token there.
MarkDamaged == damaged' = TRUE /\ notifyC' = TRUE

ChunkFed ==
    /\ reader = "feeding" /\ owed = 0
    /\ MarkDamaged
    /\ fed' = fed + 1
    /\ mu' = "free"
    /\ reader' = "top"
    /\ ReaderOnly /\ UNCHANGED <<outCh, owed>>

ReadLoop == ReaderTop \/ ReadChunk \/ EndOfOutput \/ LockToFeed \/ ChunkFed

--------------------------------------------------------------------------------
(* responseLoop.                                                                *)

ResponseOnly == UNCHANGED <<channel, mu, damaged, notifyC, fed, stopChan, reader, writer,
                            inputCh, waiters, program>>

\* The pipe is synchronous: this ends the write of the holder of mu.
ReadAnswer ==
    /\ response = "reading" /\ owed > 0
    /\ owed' = owed - 1
    /\ response' = "writing"
    /\ ResponseOnly

\* Mutated: a write error ends the drain.
ForwardAnswerOrEnd ==
    /\ response = "writing"
    /\ response' = IF gone \/ stopChan THEN "done" ELSE "reading"
    /\ ResponseOnly /\ UNCHANGED owed

\* After a write error the answers are read all the same. Then the top of the loop.
ForwardAnswer ==
    /\ response = "writing"
    /\ response' = IF stopChan THEN "done" ELSE "reading"
    /\ ResponseOnly /\ UNCHANGED owed

ResponseLoop == ReadAnswer \/ ForwardAnswer

--------------------------------------------------------------------------------
(* The goroutine that runs the queued jobs.                                     *)

WriterOnly == UNCHANGED <<channel, damaged, notifyC, fed, stopChan, reader, response,
                          waiters, program>>

\* A key is sent at once. inputCh is closed before stopChan, by the same step of Close.
TakeJob ==
    /\ writer = "idle"
    /\ IF inputCh # <<>>
         THEN /\ inputCh' = Tail(inputCh)
              /\ writer' = IF Head(inputCh) = "wheel" THEN "wheel" ELSE "idle"
         ELSE stopChan /\ writer' = "done" /\ UNCHANGED inputCh
    /\ WriterOnly /\ UNCHANGED <<mu, owed>>

\* SendMouseWheel, while the agent still has mouse reporting on.
SendMouseWheel ==
    /\ writer = "wheel" /\ mu = "free"
    /\ mu' = "writer" /\ owed' = 1
    /\ writer' = "forwarding"
    /\ WriterOnly /\ UNCHANGED inputCh

WheelSent ==
    /\ writer = "forwarding" /\ owed = 0
    /\ mu' = "free"
    /\ writer' = "idle"
    /\ WriterOnly /\ UNCHANGED <<owed, inputCh>>

InputWriter == TakeJob \/ SendMouseWheel \/ WheelSent

--------------------------------------------------------------------------------
(* waitForDamage: each becomes one renderTickMsg, unless the view is closed.    *)

WaiterOnly == UNCHANGED <<channel, mu, owed, damaged, fed, stopChan, reader, response,
                          writer, inputCh, program>>

FirstDamage ==
    /\ armed > 0 /\ notifyC
    /\ notifyC' = FALSE
    /\ armed' = armed - 1 /\ settling' = settling + 1
    /\ WaiterOnly /\ UNCHANGED ticks

\* The quiet time starts again; coalesceMax bounds how often.
MoreDamage ==
    /\ settling > 0 /\ notifyC
    /\ notifyC' = FALSE
    /\ WaiterOnly /\ UNCHANGED waiters

Settled ==
    /\ settling > 0
    /\ settling' = settling - 1 /\ ticks' = ticks + 1
    /\ WaiterOnly /\ UNCHANGED <<armed, notifyC>>

WaiterStopped ==
    /\ stopChan
    /\ \/ armed > 0 /\ armed' = armed - 1 /\ UNCHANGED settling
       \/ settling > 0 /\ settling' = settling - 1 /\ UNCHANGED armed
    /\ WaiterOnly /\ UNCHANGED <<notifyC, ticks>>

Waiters == FirstDamage \/ Settled \/ WaiterStopped

--------------------------------------------------------------------------------
(* The program: Update, then View.                                              *)

ProgramOnly == UNCHANGED <<channel, reader, response, writer>>

Gesture == gestures < MaxGestures /\ gestures' = gestures + 1

\* handleKey: any key returns to the live screen.
PressKey ==
    /\ ui = "idle" /\ Gesture
    /\ ui' = "enqueue" /\ job' = "key"
    /\ viewParked' = FALSE /\ scrolled' = FALSE
    /\ ProgramOnly /\ UNCHANGED <<emulator, stopChan, inputCh, waiters, painted>>

\* handleWheel asks the emulator whether the agent wants the event.
TurnWheel ==
    /\ ui = "idle" /\ ~viewParked /\ Gesture
    /\ ui' = "wheel"
    /\ ProgramOnly /\ UNCHANGED <<emulator, stopChan, inputCh, waiters, job, viewParked, scrolled, painted>>

\* MouseTrackingOn, IsAltScreen: a mouse event, arrow keys, or a page of history, which
\* clampScrollTop may find to be none, or the last one back to the live screen.
WheelChoice ==
    /\ ui = "wheel" /\ mu = "free"
    /\ \/ ui' = "enqueue" /\ job' \in Queued /\ UNCHANGED scrolled
       \/ ui' = "paint" /\ scrolled' \in BOOLEAN /\ UNCHANGED job
    /\ ProgramOnly /\ UNCHANGED <<emulator, stopChan, inputCh, waiters, viewParked, painted, gestures>>

\* A full inputCh holds up the program.
Enqueue ==
    /\ ui = "enqueue" /\ Len(inputCh) < InputRoom
    /\ inputCh' = Append(inputCh, job)
    /\ ui' = "paint" /\ job' = "key"
    /\ ProgramOnly /\ UNCHANGED <<emulator, stopChan, waiters, viewParked, scrolled, painted, gestures>>

WindowSize ==
    /\ ui = "idle" /\ Gesture
    /\ ui' = "resize"
    /\ ProgramOnly /\ UNCHANGED <<emulator, stopChan, inputCh, waiters, job, viewParked, scrolled, painted>>

\* Resize arms one more waitForDamage.
Resize ==
    /\ ui = "resize" /\ mu = "free"
    /\ MarkDamaged
    /\ armed' = armed + 1
    /\ ui' = "paint"
    /\ ProgramOnly
    /\ UNCHANGED <<mu, owed, fed, stopChan, inputCh, settling, ticks, job, viewParked, scrolled, painted, gestures>>

\* An Active flag. A parked view shows the frame rendered now.
FlagArrives ==
    /\ ui = "idle" /\ Gesture
    /\ \/ ui' = "freeze" /\ viewParked' = TRUE
       \/ ui' = "paint" /\ viewParked' = FALSE
    /\ ProgramOnly /\ UNCHANGED <<emulator, stopChan, inputCh, waiters, job, scrolled, painted>>

Rearmed == armed + 1

RenderTick ==
    /\ ui = "idle" /\ ticks > 0
    /\ ticks' = ticks - 1
    /\ armed' = Rearmed
    /\ ui' = "paint"
    /\ ProgramOnly /\ UNCHANGED <<emulator, stopChan, inputCh, settling, job, viewParked, scrolled, painted, gestures>>

GetScreen ==
    /\ painted' = (IF damaged THEN fed ELSE painted)
    /\ damaged' = FALSE
    /\ UNCHANGED scrolled

\* Does not look at damaged, and shows the live screen only if the history was cleared
\* meanwhile, for then scrollTop is clamped to 0.
ScrolledView ==
    /\ scrolled' \in BOOLEAN
    /\ painted' = (IF scrolled' THEN painted ELSE fed)
    /\ UNCHANGED damaged

\* View, or the frame of a view that is about to be parked: renderTerminal under mu. A
\* parked view does not look at the emulator.
Paint ==
    /\ ui' = "idle"
    /\ \/ ui = "paint" /\ viewParked /\ UNCHANGED <<painted, damaged, scrolled>>
       \/ /\ ui = "freeze" \/ (ui = "paint" /\ ~viewParked)
          /\ mu = "free"
          /\ IF scrolled THEN ScrolledView ELSE GetScreen
    /\ ProgramOnly
    /\ UNCHANGED <<mu, owed, notifyC, fed, stopChan, inputCh, waiters, job, viewParked, gestures>>

\* ctrl+t, the end of the stream or the program's end: Close, up to its mu.Lock.
Close ==
    /\ ui = "idle"
    /\ ui' = "closing"
    /\ stopChan' = TRUE
    /\ ProgramOnly /\ UNCHANGED <<emulator, inputCh, waiters, job, viewParked, scrolled, painted, gestures>>

\* The rest: the history is dropped, the channel drained, the connection closed.
Closed ==
    /\ ui = "closing" /\ mu = "free"
    /\ ui' = "closed"
    /\ outCh' = 0 /\ gone' = TRUE
    /\ UNCHANGED <<received, emulator, stopChan, reader, response, writer, inputCh,
                   waiters, job, viewParked, scrolled, painted, gestures>>

Program == WheelChoice \/ Enqueue \/ Resize \/ RenderTick \/ Paint \/ Closed

--------------------------------------------------------------------------------

TermNext ==
    \/ OutputArrives \/ ConnectionLost
    \/ ReadLoop \/ ResponseLoop \/ InputWriter \/ Waiters \/ MoreDamage
    \/ Program
    \/ PressKey \/ TurnWheel \/ WindowSize \/ FlagArrives \/ Close

\* The goroutines run, and the program handles the messages it has.
TermFairness ==
    /\ WF_termVars(ReadLoop) /\ WF_termVars(ResponseLoop) /\ WF_termVars(InputWriter)
    /\ WF_termVars(Waiters) /\ WF_termVars(Program)

TermSpec == TermInit /\ [][TermNext]_termVars /\ TermFairness

--------------------------------------------------------------------------------

\* Output that reached the view is painted, however many queries it holds, whatever
\* keys and wheel events compete for the emulator and whatever comes of the answers,
\* unless the view is parked, paged into its history or closed meanwhile: no wake-up is
\* lost between notifyC, waitForDamage and renderTickMsg, and responseLoop never lets the
\* emulator block (vtemu.go "NOT draining them blocks the read loop under mu"). A view
\* that is unparked or leaves the history owes it anew. blinkTickMsg, which paints
\* whether or not there was damage, is left out.
OutputIsPainted ==
    (painted < received) ~>
        (painted = received \/ viewParked \/ scrolled \/ ui \in {"closing", "closed"})

\* "Close releases the emulator goroutines and the session connection": it returns.
CloseReturns == (ui = "closing") ~> (ui = "closed")
================================================================================
