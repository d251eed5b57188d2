------------------------------- MODULE AttachReplay -------------------------------
(* What a session's terminal shows, and what a client sees that attaches to it:   *)
(* serializeReplay writes the history, the screen and the way to the cursor as    *)
(* output, and the client feeds that to a terminal of its own. Both terminals     *)
(* take the same commands; styles, wide characters and changes of size are left   *)
(* out, and so is PrivateModes's question which modes the lead turns on.          *)
EXTENDS Integers, Sequences, SequencesExt

CONSTANTS
    Columns, Rows,     \* the session's size
    ClientRows,        \* heights of the clients that attach
    MaxCommands        \* bound

ASSUME ReplayAssumption ==
    /\ {Columns, Rows} \subseteq Nat \ {0} /\ MaxCommands \in Nat
    /\ ClientRows \subseteq {r \in Nat : r >= Rows}

VARIABLES
    emu,        \* Session.emu
    commands

replayVars == <<emu, commands>>

Blank == " "
Cells == {"a", Blank}
BlankRow == [i \in 1 .. Columns |-> Blank]
BlankScreen(height) == [i \in 1 .. height |-> BlankRow]

\* Column and line of the cursor count from 0; phantom: the last column was written,
\* and the next character goes to the next line.
NewTerminal(height) ==
    [screen |-> BlankScreen(height), x |-> 0, y |-> 0, phantom |-> FALSE,
     scrollback |-> <<>>, altScreen |-> FALSE, main |-> <<>>]

--------------------------------------------------------------------------------
(* The commands a terminal takes.                                               *)

CarriageReturn(t) == [t EXCEPT !.x = 0, !.phantom = FALSE]

LineFeed(t) ==
    IF t.y + 1 < Len(t.screen) THEN [t EXCEPT !.y = @ + 1]
    ELSE [t EXCEPT !.screen = Append(Tail(@), BlankRow),
                   !.scrollback = IF t.altScreen THEN @ ELSE Append(@, t.screen[1])]

NewLine(t) == LineFeed(CarriageReturn(t))

PutCell(t, cell) ==
    LET u == IF t.phantom THEN NewLine(t) ELSE t
    IN  [u EXCEPT !.screen[u.y + 1][u.x + 1] = cell,
                  !.phantom = u.x + 1 = Columns,
                  !.x = IF u.x + 1 = Columns THEN @ ELSE @ + 1]

CursorUp(t, n) == [t EXCEPT !.y = IF n > @ THEN 0 ELSE @ - n, !.phantom = FALSE]

CursorForward(t, n) ==
    [t EXCEPT !.x = IF @ + n >= Columns THEN Columns - 1 ELSE @ + n, !.phantom = FALSE]

EnterAltScreen(t) ==
    IF t.altScreen THEN t
    ELSE [NewTerminal(Len(t.screen)) EXCEPT !.altScreen = TRUE, !.scrollback = t.scrollback,
              !.main = <<[screen |-> t.screen, x |-> t.x, y |-> t.y]>>]

LeaveAltScreen(t) ==
    IF ~t.altScreen THEN t
    ELSE [t EXCEPT !.altScreen = FALSE, !.screen = t.main[1].screen, !.x = t.main[1].x,
                   !.y = t.main[1].y, !.phantom = FALSE, !.main = <<>>]

\* A command of the replay, as data.
Command(op, arg) == [op |-> op, arg |-> arg]

Obey(t, command) ==
    CASE command.op = "print"   -> PutCell(t, command.arg)
      [] command.op = "newline" -> NewLine(t)
      [] command.op = "return"  -> CarriageReturn(t)
      [] command.op = "up"      -> CursorUp(t, command.arg)
      [] command.op = "forward" -> CursorForward(t, command.arg)
      [] command.op = "alt"     -> EnterAltScreen(t)

ObeyAll(t, script) ==
    LET after[j \in 0 .. Len(script)] == IF j = 0 THEN t ELSE Obey(after[j - 1], script[j])
    IN  after[Len(script)]

--------------------------------------------------------------------------------
(* serializeReplay                                                              *)

writeCells(row) == [i \in DOMAIN row |-> Command("print", row[i])]

\* A row up to its last cell that is not blank.
TrimmedRow(row) == SubSeq(row, 1, Max({0} \cup {i \in DOMAIN row : row[i] # Blank}))

When(condition, script) == IF condition THEN script ELSE <<>>

\* The mode lead turns the alternate screen on.
ModeLead(t) == When(t.altScreen, <<Command("alt", 0)>>)

HistoryScript(t) ==
    FlattenSeq([i \in DOMAIN t.scrollback |-> Append(writeCells(t.scrollback[i]), Command("newline", 0))])

ScreenScript(t) ==
    FlattenSeq([i \in DOMAIN t.screen |->
        When(i > 1, <<Command("newline", 0)>>) \o writeCells(TrimmedRow(t.screen[i]))])

CursorScript(t) ==
    LET up == Len(t.screen) - 1 - t.y
    IN  <<Command("return", 0)>> \o When(up > 0, <<Command("up", up)>>) \o When(t.x > 0, <<Command("forward", t.x)>>)

\* Mutated: the history is replayed whatever screen is shown.
serializeReplayAlways(t) == ModeLead(t) \o HistoryScript(t) \o ScreenScript(t) \o CursorScript(t)

serializeReplay(t) ==
    ModeLead(t) \o When(~t.altScreen, HistoryScript(t)) \o ScreenScript(t) \o CursorScript(t)

--------------------------------------------------------------------------------

ReplayInit == emu = NewTerminal(Rows) /\ commands = 0

\* The program's output, a command at a time.
EmulatorWrites ==
    /\ commands < MaxCommands
    /\ commands' = commands + 1
    /\ emu' \in {PutCell(emu, cell) : cell \in Cells}
                    \cup {NewLine(emu), CarriageReturn(emu), CursorUp(emu, 1), CursorForward(emu, 1),
                          EnterAltScreen(emu), LeaveAltScreen(emu)}

ReplayNext == EmulatorWrites

ReplaySpec == ReplayInit /\ [][ReplayNext]_replayVars

--------------------------------------------------------------------------------

ReplayTypeOK ==
    /\ emu.screen \in [1 .. Rows -> [1 .. Columns -> Cells]]
    /\ emu.x \in 0 .. Columns - 1 /\ emu.y \in 0 .. Rows - 1
    /\ emu.phantom => emu.x = Columns - 1
    /\ emu.scrollback \in Seq([1 .. Columns -> Cells])
    /\ emu.altScreen <=> emu.main # <<>>
    /\ commands \in 0 .. MaxCommands

\* What can be read on a terminal, page by page, and where in it the cursor stands.
HistoryDepth(t) == IF t.altScreen THEN 0 ELSE Len(t.scrollback)
PageOf(t) == (IF t.altScreen THEN <<>> ELSE t.scrollback) \o t.screen
Caret(t) == <<t.x, HistoryDepth(t) + t.y>>

\* "the attaching client starts with the whole conversation", "correct even when the
\* client's terminal is taller": a terminal fed with the replay shows the history,
\* the screen and the cursor of the session's, whatever the program wrote before,
\* with blank lines below them where there is room. That the last column was just
\* written (phantom) is not among it.
ReplayIsFaithful ==
    \A height \in ClientRows :
        LET client == ObeyAll(NewTerminal(height), serializeReplay(emu))
            shownLines == PageOf(client)
            lines == PageOf(emu)
        IN  /\ client.altScreen = emu.altScreen
            /\ SubSeq(shownLines, 1, Len(lines)) = lines
            /\ \A i \in Len(lines) + 1 .. Len(shownLines) : shownLines[i] = BlankRow
            /\ Caret(client) = Caret(emu)
================================================================================
