---------------------------------- MODULE Pager ----------------------------------
(* The scrollback pager of the desktop view. The view keeps its place as a number *)
(* of rows above the live bottom (scrollTop) and the history depth it last saw    *)
(* (lastSbLen), while the program goes on printing on another goroutine; every    *)
(* look at the terminal takes its lock anew, so the steps of a wheel notch and of *)
(* a frame are separate. Lines are numbered from the first one printed: the       *)
(* history holds the sbLen lines below total, the screen starts at line total.    *)
EXTENDS Integers

CONSTANTS
    HistoryLimit,  \* ScrollbackLines
    RowsPerNotch,
    MaxLines       \* bound: lines printed

ASSUME PagerAssumption ==
    HistoryLimit \in Nat /\ RowsPerNotch \in Nat \ {0} /\ MaxLines \in Nat

VARIABLES
    total,      \* lines that left the top of the screen
    sbLen,      \* lines of them the terminal still has
    mouse,      \* the program tracks the mouse
    alt,        \* the program uses the alternate screen
    stale,      \* output came and its renderTickMsg is still to come
    at,         \* where the program's goroutine is: "rest" or a step below
    delta,      \* rows asked for by the notch being handled
    scrollTop, lastSbLen,
    parkedView,
    shown,      \* the line at the top of the last frame
    anchor,     \* history: the line the reader chose, or Live
    dropped        \* history: lines were dropped since

pagerVars == <<total, sbLen, mouse, alt, stale, at, delta, scrollTop, lastSbLen,
               parkedView, shown, anchor, dropped>>

ttySide == <<total, sbLen, mouse, alt>>
Live == -1

Within(low, n, high) == IF n < low THEN low ELSE IF n > high THEN high ELSE n

clampScrollTop(cur, d, max) == Within(0, cur + d, max)

pinScroll(sb) ==
    IF scrollTop > 0 /\ sb > lastSbLen
      THEN Within(0, scrollTop + (sb - lastSbLen), sb)
      ELSE scrollTop

PagerInit ==
    /\ total = 0 /\ sbLen = 0 /\ mouse = FALSE /\ alt = FALSE
    /\ stale = FALSE /\ at = "rest" /\ delta = 0
    /\ scrollTop = 0 /\ lastSbLen = 0 /\ parkedView = FALSE
    /\ shown = 0 /\ anchor = Live /\ dropped = FALSE

--------------------------------------------------------------------------------
(* The program's output, as the terminal takes it.                              *)

\* A piece of output scrolls lines off the main screen; at its limit the history
\* drops its oldest.
PrintLines ==
    /\ ~alt
    /\ \E n \in 1 .. MaxLines - total :
         /\ total' = total + n
         /\ sbLen' = Within(0, sbLen + n, HistoryLimit)
         /\ dropped' = (dropped \/ (anchor # Live /\ sbLen + n > HistoryLimit))
    /\ stale' = TRUE
    /\ UNCHANGED <<mouse, alt, at, delta, scrollTop, lastSbLen, parkedView, shown, anchor>>

ClearHistory ==
    /\ sbLen > 0
    /\ sbLen' = 0 /\ stale' = TRUE
    /\ dropped' = (dropped \/ anchor # Live)
    /\ UNCHANGED <<total, mouse, alt, at, delta, scrollTop, lastSbLen, parkedView, shown, anchor>>

SwitchModes ==
    /\ \/ mouse' = ~mouse /\ alt' = alt
       \/ alt' = ~alt /\ mouse' = mouse
    /\ stale' = TRUE
    /\ UNCHANGED <<total, sbLen, at, delta, scrollTop, lastSbLen, parkedView, shown, anchor, dropped>>

--------------------------------------------------------------------------------
(* sessionModel.Update, one message at a time, and the View that follows it.    *)

\* A wheel event reaches handleWheel; a frozen frame has nothing to scroll.
TurnWheelNotch ==
    /\ at = "rest" /\ ~parkedView
    /\ \E d \in {RowsPerNotch, -RowsPerNotch} : delta' = d
    /\ at' = "whose"
    /\ UNCHANGED <<ttySide, stale, scrollTop, lastSbLen, parkedView, shown, anchor, dropped>>

\* MouseTrackingOn: the notch is queued for the program.
WheelIsAgents ==
    /\ at \in {"whose", "screen"}
    /\ IF at = "whose" THEN mouse ELSE alt
    /\ at' = "view"
    /\ UNCHANGED <<ttySide, stale, delta, scrollTop, lastSbLen, parkedView, shown, anchor, dropped>>

\* Not the mouse's, then IsAltScreen; not the alternate screen's, then the pager's.
WheelIsNotAgents ==
    /\ \/ at = "whose" /\ ~mouse /\ at' = "screen"
       \/ at = "screen" /\ ~alt /\ at' = "page"
    /\ UNCHANGED <<ttySide, stale, delta, scrollTop, lastSbLen, parkedView, shown, anchor, dropped>>

\* The line the reader asks for: so many rows from where they were.
Chosen ==
    LET from == IF anchor = Live THEN total ELSE anchor
        line == Within(total - sbLen, from - delta, total)
    IN  IF line = total THEN Live ELSE line

\* Mutated: the wheel moves from the old depth.
PageUnpinned ==
    /\ at = "page"
    /\ scrollTop' = clampScrollTop(scrollTop, delta, sbLen)
    /\ lastSbLen' = sbLen
    /\ anchor' = Chosen /\ dropped' = (dropped /\ Chosen # Live)
    /\ at' = "view"
    /\ UNCHANGED <<ttySide, stale, delta, parkedView, shown>>

Page ==
    /\ at = "page"
    /\ scrollTop' = clampScrollTop(pinScroll(sbLen), delta, sbLen)
    /\ lastSbLen' = sbLen
    /\ anchor' = Chosen /\ dropped' = (dropped /\ Chosen # Live)
    /\ at' = "view"
    /\ UNCHANGED <<ttySide, stale, delta, parkedView, shown>>

\* handleKey: any key returns to the live prompt and takes over a parked view.
KeyToLive ==
    /\ at = "rest"
    /\ scrollTop' = 0 /\ anchor' = Live /\ dropped' = FALSE
    /\ parkedView' = FALSE
    /\ at' = "view"
    /\ UNCHANGED <<ttySide, stale, delta, lastSbLen, shown>>

\* activeMsg: a dropped size freezes the frame renderTerminal makes now.
ActiveMsg ==
    /\ at = "rest"
    /\ \E owner \in BOOLEAN : parkedView' = ~owner
    /\ at' = "view"
    /\ UNCHANGED <<ttySide, stale, delta, scrollTop, lastSbLen, shown, anchor, dropped>>

\* renderTickMsg: the output up to now is due in the View that follows, unless a
\* frozen frame stands in for it.
RenderTickMsg ==
    /\ at = "rest" /\ stale
    /\ stale' = FALSE
    /\ at' = IF parkedView THEN "rest" ELSE "view"
    /\ UNCHANGED <<ttySide, delta, scrollTop, lastSbLen, parkedView, shown, anchor, dropped>>

\* renderTerminal: the live screen, or renderScrolled up to its pinScroll.
LookAtDepth ==
    /\ at = "view"
    /\ scrollTop' = pinScroll(sbLen)
    /\ IF scrollTop = 0
         THEN shown' = total /\ at' = "rest" /\ UNCHANGED lastSbLen
         ELSE lastSbLen' = sbLen /\ at' = "rows" /\ UNCHANGED shown
    /\ UNCHANGED <<ttySide, stale, delta, parkedView, anchor, dropped>>

\* ScrolledView: the rows, and scrollTop clamped to the history of this moment.
ScrolledView ==
    /\ at = "rows"
    /\ scrollTop' = Within(0, scrollTop, sbLen)
    /\ shown' = total - scrollTop'
    /\ at' = "rest"
    /\ UNCHANGED <<ttySide, stale, delta, lastSbLen, parkedView, anchor, dropped>>

PagerNext ==
    \/ PrintLines \/ ClearHistory \/ SwitchModes
    \/ TurnWheelNotch \/ WheelIsAgents \/ WheelIsNotAgents \/ Page
    \/ KeyToLive \/ ActiveMsg \/ RenderTickMsg \/ LookAtDepth \/ ScrolledView

PagerSpec == PagerInit /\ [][PagerNext]_pagerVars

--------------------------------------------------------------------------------

PagerTypeOK ==
    /\ total \in 0 .. MaxLines /\ sbLen \in 0 .. HistoryLimit /\ sbLen <= total
    /\ mouse \in BOOLEAN /\ alt \in BOOLEAN /\ stale \in BOOLEAN /\ dropped \in BOOLEAN
    /\ at \in {"rest", "whose", "screen", "page", "view", "rows"}
    /\ delta \in {0, RowsPerNotch, -RowsPerNotch}
    /\ scrollTop \in 0 .. HistoryLimit /\ lastSbLen \in 0 .. HistoryLimit
    /\ parkedView \in BOOLEAN
    /\ shown \in 0 .. MaxLines /\ anchor \in {Live} \cup 0 .. MaxLines

\* "pinScroll keeps a paged view anchored to what the reader is looking at": once
\* the frame of the last output was made, its top is the line the reader chose,
\* whatever was printed before, during and after the notch, and through any spell
\* parked; as long as no line was dropped since (the limit pinScroll's comment
\* names). A frame made while output comes in may be off until the next one.
ReaderKeepsPlace ==
    at = "rest" /\ ~stale /\ ~parkedView /\ ~dropped =>
        shown = IF anchor = Live THEN total ELSE anchor
================================================================================
