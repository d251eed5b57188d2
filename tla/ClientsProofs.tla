------------------------------ MODULE ClientsProofs ------------------------------
(* For any depth of history, any amount of output and any wheel step the reader    *)
(* keeps the place chosen; for any replay and any limit of a frame no frame on the *)
(* daemon's connection is torn; for any output and any reads of it a client that   *)
(* attaches late has the modes of one that was there from the start.               *)
EXTENDS MCClients, TuiNavigationProofs, Integers, SequenceTheorems, FiniteSetTheorems,
        FunctionTheorems, NaturalsInduction, WellFoundedInduction, TLAPS

--------------------------------------------------------------------------------
(* The pager.                                                                      *)

\* The type invariant in two parts, which different provers see to.
Flags ==
    /\ mouse \in BOOLEAN /\ alt \in BOOLEAN /\ stale \in BOOLEAN /\ dropped \in BOOLEAN
    /\ parkedView \in BOOLEAN

Numbers ==
    /\ total \in 0 .. MaxLines /\ sbLen \in 0 .. HistoryLimit /\ sbLen <= total
    /\ at \in {"rest", "whose", "screen", "page", "view", "rows"}
    /\ delta \in {0, RowsPerNotch, -RowsPerNotch}
    /\ scrollTop \in 0 .. HistoryLimit /\ lastSbLen \in 0 .. HistoryLimit
    /\ shown \in 0 .. MaxLines /\ anchor \in {Live} \cup 0 .. MaxLines

\* How far above the bottom the line chosen is.
Distance == total - anchor

\* Where the next look will find the view: never further up than the line chosen,
\* and exactly there unless lines were dropped.
PlaceKept ==
    /\ anchor = Live => scrollTop = 0 /\ ~dropped
    /\ anchor # Live =>
         /\ scrollTop <= Distance /\ pinScroll(sbLen) <= Distance
         /\ ~dropped =>
              /\ scrollTop > 0 /\ lastSbLen <= sbLen
              /\ scrollTop + (sbLen - lastSbLen) = Distance
              /\ Distance <= sbLen

\* Between the two halves of a paged frame: nothing came in, or one more frame is due.
FrameInHand == at = "rows" => scrollTop > 0 /\ anchor # Live /\ (stale \/ sbLen = lastSbLen \/ dropped)

PagerInv == PagerTypeOK /\ PlaceKept /\ FrameInHand /\ ReaderKeepsPlace

--------------------------------------------------------------------------------

LEMMA WithinBounds ==
    ASSUME NEW low \in Int, NEW n \in Int, NEW high \in Int, low <= high
    PROVE  /\ Within(low, n, high) \in low .. high
           /\ n \in low .. high => Within(low, n, high) = n
           /\ n < low => Within(low, n, high) = low
           /\ n > high => Within(low, n, high) = high
  BY DEF Within

\* The place is kept by every step.
LEMMA InitPager == PagerInit => PagerInv
<1> SUFFICES ASSUME PagerInit PROVE PagerInv
  OBVIOUS
<1> USE PagerAssumption DEF PagerInit
<1>1. PagerTypeOK
  <2>1. Flags
    BY DEF Flags
  <2>2. Numbers
    BY DEF Numbers
  <2> QED
    BY <2>1, <2>2 DEF PagerTypeOK, Flags, Numbers
<1>2. PlaceKept
  BY DEF PlaceKept
<1>3. FrameInHand
  BY DEF FrameInHand
<1>4. ReaderKeepsPlace
  BY DEF ReaderKeepsPlace
<1> QED
  BY <1>1, <1>2, <1>3, <1>4 DEF PagerInv

\* A look finds the view inside the history, and at the bottom if it was there.
LEMMA PinFacts ==
    ASSUME Numbers
    PROVE  /\ pinScroll(sbLen) \in 0 .. HistoryLimit
           /\ scrollTop = 0 => pinScroll(sbLen) = 0
           /\ scrollTop > 0 /\ sbLen > lastSbLen =>
                pinScroll(sbLen) = Within(0, scrollTop + (sbLen - lastSbLen), sbLen)
           /\ sbLen <= lastSbLen => pinScroll(sbLen) = scrollTop
  BY PagerAssumption DEF Numbers, pinScroll, Within

\* Every step keeps the types.
LEMMA TypesStep == PagerTypeOK /\ [PagerNext]_pagerVars => PagerTypeOK'
<1> SUFFICES ASSUME Flags, Numbers, [PagerNext]_pagerVars PROVE Flags' /\ Numbers'
  BY DEF PagerTypeOK, Flags, Numbers
<1>0. pinScroll(sbLen) \in 0 .. HistoryLimit
  BY PinFacts
<1> USE PagerAssumption DEF Flags, Numbers, ttySide
<1>1. CASE PrintLines
  BY <1>1 DEF PrintLines, Within, Live
<1>2. CASE ClearHistory
  BY <1>2 DEF ClearHistory
<1>3. CASE SwitchModes
  BY <1>3 DEF SwitchModes
<1>4. CASE TurnWheelNotch
  BY <1>4 DEF TurnWheelNotch
<1>5. CASE WheelIsAgents
  BY <1>5 DEF WheelIsAgents
<1>6. CASE WheelIsNotAgents
  BY <1>6 DEF WheelIsNotAgents
<1>7. CASE Page
  BY <1>0, <1>7 DEF Page, clampScrollTop, Chosen, Within, Live
<1>8. CASE KeyToLive
  <2>1. Flags'
    BY <1>8 DEF KeyToLive
  <2>2. Numbers'
    BY <1>8 DEF KeyToLive
  <2> QED
    BY <2>1, <2>2
<1>9. CASE ActiveMsg
  BY <1>9 DEF ActiveMsg
<1>10. CASE RenderTickMsg
  BY <1>10 DEF RenderTickMsg
<1>11. CASE LookAtDepth
  BY <1>0, <1>11 DEF LookAtDepth
<1>12. CASE ScrolledView
  BY <1>12 DEF ScrolledView, Within
<1>13. CASE UNCHANGED pagerVars
  BY <1>13 DEF pagerVars
<1> QED
  BY <1>1, <1>2, <1>3, <1>4, <1>5, <1>6, <1>7, <1>8, <1>9, <1>10, <1>11, <1>12, <1>13 DEF PagerNext

\* Output moves the place with the bottom, a dropped line excuses the view.
LEMMA PlaceStep == PagerInv /\ [PagerNext]_pagerVars => PlaceKept'
<1> SUFFICES ASSUME PagerInv, [PagerNext]_pagerVars PROVE PlaceKept'
  OBVIOUS
<1>0. /\ Flags /\ Numbers /\ Numbers' /\ PlaceKept /\ FrameInHand
  BY TypesStep DEF PagerInv, PagerTypeOK, Flags, Numbers
<1> USE PagerAssumption, <1>0 DEF Numbers, PlaceKept, Distance, ttySide
<1>1. CASE PrintLines
  <2>1. PICK n \in 1 .. MaxLines - total :
             /\ total' = total + n
             /\ sbLen' = Within(0, sbLen + n, HistoryLimit)
             /\ dropped' = (dropped \/ (anchor # Live /\ sbLen + n > HistoryLimit))
    BY <1>1 DEF PrintLines
  <2>2. UNCHANGED <<scrollTop, lastSbLen, anchor>>
    BY <1>1 DEF PrintLines
  <2>3. dropped' <=> dropped \/ (anchor # Live /\ sbLen + n > HistoryLimit)
    BY <2>1
  <2>4. sbLen' <= sbLen + n /\ sbLen <= sbLen'
    BY <2>1 DEF Within
  <2>5. anchor # Live => scrollTop' <= Distance' /\ pinScroll(sbLen)' <= Distance'
    BY <2>1, <2>2, <2>4 DEF pinScroll, Within, Live
  <2>6. anchor # Live /\ ~dropped' => sbLen' = sbLen + n
    BY <2>1, <2>3 DEF Within
  <2>7. anchor # Live /\ ~dropped' =>
             /\ scrollTop' > 0 /\ lastSbLen' <= sbLen'
             /\ scrollTop' + (sbLen' - lastSbLen') = Distance'
             /\ Distance' <= sbLen'
    BY <2>1, <2>2, <2>3, <2>6 DEF Live
  <2> QED
    BY <2>2, <2>3, <2>5, <2>7
<1>2. CASE ClearHistory
  <2>1. /\ sbLen' = 0 /\ UNCHANGED <<total, scrollTop, lastSbLen, anchor>>
        /\ dropped' <=> dropped \/ anchor # Live
    BY <1>2 DEF ClearHistory
  <2>2. pinScroll(sbLen)' = scrollTop
    BY <2>1 DEF pinScroll
  <2> QED
    BY <2>1, <2>2
<1>7. CASE Page
  <2>1. /\ scrollTop' = clampScrollTop(pinScroll(sbLen), delta, sbLen)
        /\ lastSbLen' = sbLen /\ anchor' = Chosen /\ dropped' = (dropped /\ Chosen # Live)
        /\ UNCHANGED <<total, sbLen>>
    BY <1>7 DEF Page
  <2>2. pinScroll(sbLen)' = scrollTop'
    BY <2>1 DEF pinScroll
  <2>3. scrollTop' = Within(0, pinScroll(sbLen) + delta, sbLen)
    BY <2>1 DEF clampScrollTop
  <2> DEFINE from == IF anchor = Live THEN total ELSE anchor
             line == Within(total - sbLen, from - delta, total)
  <2>4. anchor' = IF line = total THEN Live ELSE line
    BY <2>1 DEF Chosen
  <2>5. /\ pinScroll(sbLen) \in Nat /\ pinScroll(sbLen) <= total - from
        /\ ~dropped => pinScroll(sbLen) = total - from
    BY PinFacts DEF Live, pinScroll, Within
  <2>6. /\ scrollTop' <= total - line
        /\ ~dropped => scrollTop' = total - line
    BY <2>3, <2>5 DEF Within, Live
  <2>7. line \in total - sbLen .. total
    BY <2>5 DEF Within, Live
  <2>8. dropped' <=> dropped /\ line # total
    <3>1. dropped' <=> dropped /\ anchor' # Live
      BY <1>7, <2>1 DEF Page
    <3>2. anchor' = Live <=> line = total
      BY <2>4, <2>7 DEF Live
    <3> QED
      BY <3>1, <3>2
  <2>9. scrollTop' \in Nat
    BY <2>3, <2>5 DEF Within
  <2> HIDE DEF line, from
  <2>10. CASE line = total
    <3>1. anchor' = Live /\ scrollTop' = 0 /\ ~dropped'
      BY <2>4, <2>6, <2>7, <2>8, <2>9, <2>10
    <3> QED
      BY <3>1
  <2>11. CASE line # total
    <3>1. anchor' = line /\ anchor' # Live /\ Distance' = total - line
      BY <2>1, <2>4, <2>7, <2>11 DEF Live
    <3>2. dropped' <=> dropped
      BY <2>8, <2>11
    <3> QED
      BY <2>1, <2>2, <2>6, <2>7, <2>9, <2>11, <3>1, <3>2
  <2> QED
    BY <2>10, <2>11
<1>8. CASE KeyToLive
  BY <1>8 DEF KeyToLive, pinScroll
<1>11. CASE LookAtDepth
  <2>1. /\ scrollTop' = pinScroll(sbLen)
        /\ lastSbLen' = IF scrollTop = 0 THEN lastSbLen ELSE sbLen
        /\ UNCHANGED <<total, sbLen, anchor, dropped>>
    BY <1>11 DEF LookAtDepth
  <2>2. pinScroll(sbLen)' = pinScroll(sbLen)
    BY <2>1, PinFacts DEF pinScroll
  <2>3. scrollTop = 0 => scrollTop' = 0
    BY <2>1, PinFacts
  <2>4. ~dropped /\ anchor # Live => scrollTop' > 0 /\ scrollTop' = Distance
    BY <2>1 DEF pinScroll, Within
  <2> QED
    BY <2>1, <2>2, <2>3, <2>4
<1>12. CASE ScrolledView
  <2>1. /\ scrollTop' = Within(0, scrollTop, sbLen)
        /\ UNCHANGED <<total, sbLen, lastSbLen, anchor, dropped>>
    BY <1>12 DEF ScrolledView
  <2>2. scrollTop' <= scrollTop /\ pinScroll(sbLen)' <= pinScroll(sbLen)
    BY <2>1 DEF pinScroll, Within
  <2>3. ~dropped /\ anchor # Live => scrollTop' = scrollTop
    BY <2>1 DEF Within
  <2>4. scrollTop = 0 => scrollTop' = 0
    BY <2>1 DEF Within
  <2>5. (scrollTop' <= Distance /\ pinScroll(sbLen)' <= Distance) \/ anchor = Live
    <3>1. pinScroll(sbLen) \in Int /\ pinScroll(sbLen)' \in Int /\ Distance' = Distance
      BY <2>1, PinFacts DEF pinScroll, Within
    <3> QED
      BY <2>2, <3>1
  <2> QED
    BY <2>1, <2>3, <2>4, <2>5
<1>13. CASE \/ SwitchModes \/ TurnWheelNotch \/ WheelIsAgents \/ WheelIsNotAgents
            \/ ActiveMsg \/ RenderTickMsg \/ UNCHANGED pagerVars
  <2>1. UNCHANGED <<total, sbLen, scrollTop, lastSbLen, anchor, dropped>>
    BY <1>13 DEF SwitchModes, TurnWheelNotch, WheelIsAgents, WheelIsNotAgents, ActiveMsg,
         RenderTickMsg, pagerVars
  <2> QED
    BY <2>1 DEF pinScroll
<1> QED
  BY <1>1, <1>2, <1>7, <1>8, <1>11, <1>12, <1>13 DEF PagerNext

\* Between LookAtDepth and ScrolledView only the terminal moves, and says so.
LEMMA FrameStep == PagerInv /\ [PagerNext]_pagerVars => FrameInHand'
<1> SUFFICES ASSUME PagerInv, [PagerNext]_pagerVars, at' = "rows"
             PROVE  scrollTop' > 0 /\ anchor' # Live /\ (stale' \/ sbLen' = lastSbLen' \/ dropped')
  BY DEF FrameInHand
<1>0. /\ Flags /\ Numbers /\ Numbers' /\ PlaceKept /\ FrameInHand
  BY TypesStep DEF PagerInv, PagerTypeOK, Flags, Numbers
<1> USE <1>0 DEF ttySide
<1>1. CASE at = "rows"
  <2>1. scrollTop > 0 /\ anchor # Live /\ (stale \/ sbLen = lastSbLen \/ dropped)
    BY <1>1 DEF FrameInHand
  <2>2. CASE PrintLines \/ ClearHistory \/ SwitchModes
    BY <2>1, <2>2 DEF PrintLines, ClearHistory, SwitchModes
  <2>3. CASE UNCHANGED pagerVars
    BY <2>1, <2>3 DEF pagerVars
  <2> QED
    BY <1>1, <2>2, <2>3 DEF PagerNext, TurnWheelNotch, WheelIsAgents, WheelIsNotAgents, Page, KeyToLive,
         ActiveMsg, RenderTickMsg, LookAtDepth, ScrolledView
<1>2. CASE at # "rows"
  <2>1. LookAtDepth
    BY <1>2 DEF PagerNext, PrintLines, ClearHistory, SwitchModes, TurnWheelNotch, WheelIsAgents,
         WheelIsNotAgents, Page, KeyToLive, ActiveMsg, RenderTickMsg, ScrolledView, pagerVars
  <2>2. scrollTop # 0 /\ lastSbLen' = sbLen' /\ scrollTop' = pinScroll(sbLen) /\ anchor' = anchor
    BY <2>1 DEF LookAtDepth
  <2>3. anchor # Live
    BY <2>2 DEF PlaceKept
  <2>4. pinScroll(sbLen) > 0
    BY <2>2 DEF pinScroll, Within, Numbers
  <2> QED
    BY <2>2, <2>3, <2>4
<1> QED
  BY <1>1, <1>2

\* Whenever a frame is made for the last time, its top is the line chosen.
LEMMA PlaceShownStep == PagerInv /\ [PagerNext]_pagerVars => ReaderKeepsPlace'
<1> SUFFICES ASSUME PagerInv, [PagerNext]_pagerVars, at' = "rest", ~stale', ~parkedView', ~dropped'
             PROVE  shown' = IF anchor' = Live THEN total' ELSE anchor'
  BY DEF ReaderKeepsPlace
<1>0. /\ Flags /\ Numbers /\ Numbers' /\ PlaceKept /\ FrameInHand /\ ReaderKeepsPlace
  BY TypesStep DEF PagerInv, PagerTypeOK, Flags, Numbers
<1> USE <1>0 DEF ttySide
<1>1. CASE LookAtDepth
  <2>1. scrollTop = 0 /\ shown' = total
    BY <1>1 DEF LookAtDepth
  <2>2. UNCHANGED <<total, anchor, dropped>>
    BY <1>1 DEF LookAtDepth
  <2>3. anchor = Live
    BY <2>1, <2>2 DEF PlaceKept, Numbers
  <2> QED
    BY <2>1, <2>2, <2>3
<1>2. CASE ScrolledView
  <2>1. /\ at = "rows" /\ shown' = total - scrollTop' /\ scrollTop' = Within(0, scrollTop, sbLen)
        /\ UNCHANGED <<total, anchor, dropped, stale, sbLen>>
    BY <1>2 DEF ScrolledView
  <2>2. anchor # Live /\ sbLen = lastSbLen
    BY <2>1 DEF FrameInHand
  <2>3. scrollTop = Distance /\ Distance <= sbLen
    BY <2>1, <2>2 DEF PlaceKept, Numbers
  <2>4. scrollTop' = Distance
    BY <2>1, <2>3 DEF Within, Numbers
  <2> QED
    BY <2>1, <2>2, <2>4 DEF Distance, Numbers, Live
<1>3. CASE RenderTickMsg
  BY <1>3 DEF RenderTickMsg
<1>4. CASE UNCHANGED pagerVars
  BY <1>4 DEF pagerVars, ReaderKeepsPlace
<1> QED
  BY <1>1, <1>2, <1>3, <1>4 DEF PagerNext, PrintLines, ClearHistory, SwitchModes, TurnWheelNotch,
       WheelIsAgents, WheelIsNotAgents, Page, KeyToLive, ActiveMsg, ReaderKeepsPlace

\* The inductive invariant of the pager: where the view stands relative to the line
\* chosen at every step between two frames (pinScroll, clampScrollTop, ScrolledView).
THEOREM PagerCorrect == PagerSpec => []PagerInv
<1>1. PagerInv /\ [PagerNext]_pagerVars => PagerInv'
  BY TypesStep, PlaceStep, FrameStep, PlaceShownStep DEF PagerInv
<1> QED
  BY InitPager, <1>1, PTL DEF PagerSpec

\* "pinScroll keeps a paged view anchored to what the reader is looking at": for any
\* depth of history, wheel step and amount of output.
THEOREM ReaderNeverLosesPlace == PagerSpec => []ReaderKeepsPlace
  BY PagerCorrect, PTL DEF PagerInv

--------------------------------------------------------------------------------
(* Frames: every byte written belongs to a frame that was sent whole before the  *)
(* next one begins, and the receiver is between two of them.                     *)

Bytes == Seq(Nat)

\* What the terminal is to get, and the frames it comes in.
Whole == replay \o LiveChunk
Pieces == splitFrames(replay, maxFrameBytes) \o <<LiveChunk>>

\* ends[k]: how much of it the first k frames are.
Cuts(ends) ==
    /\ ends \in [0 .. Len(Pieces) -> Nat] /\ ends[0] = 0 /\ ends[Len(Pieces)] = Len(Whole)
    /\ \A k \in 1 .. Len(Pieces) :
         ends[k - 1] <= ends[k] /\ ends[k] <= Len(Whole) /\ Pieces[k] = SubSeq(Whole, ends[k - 1] + 1, ends[k])

Messages == {<<31, 32>>, <<33>>, <<41>>}

IsControl(f) == IF f.Type = TypeControl THEN 1 ELSE 0

\* The n frames sent so far: starts[i] bytes, parts[i] pieces of output and texts[i]
\* control messages went before the i-th.
Sent(n, frames, starts, parts, texts) ==
    /\ n \in Nat /\ frames \in [1 .. n -> [Type : {TypeControl, TypeOutput}, Payload : Bytes]]
    /\ starts \in [1 .. n + 1 -> Nat] /\ parts \in [1 .. n + 1 -> Nat] /\ texts \in [1 .. n + 1 -> Nat]
    /\ starts[1] = 0 /\ parts[1] = 0 /\ texts[1] = 0
    /\ \A i \in 1 .. n + 1 : starts[i] <= starts[n + 1] /\ parts[i] <= Len(Pieces)
    /\ \A i \in 1 .. n :
         /\ starts[i + 1] = starts[i] + 2 + Len(frames[i].Payload)
         /\ texts[i + 1] = texts[i] + IsControl(frames[i])
         /\ parts[i + 1] = parts[i] + 1 - IsControl(frames[i])
         /\ frames[i].Type = TypeControl => frames[i].Payload \in Messages
         /\ frames[i].Type = TypeOutput =>
              parts[i] + 1 <= Len(Pieces) /\ frames[i].Payload = Pieces[parts[i] + 1]

\* written is their bytes.
Wrote(n, frames, starts, written) ==
    /\ written \in Bytes /\ Len(written) = starts[n + 1]
    /\ \A i \in 1 .. n :
         /\ written[starts[i] + 1] = frames[i].Type
         /\ written[starts[i] + 2] = Len(frames[i].Payload)
         /\ \A j \in 1 .. Len(frames[i].Payload) : written[starts[i] + 2 + j] = frames[i].Payload[j]

\* The receiver has read those before the next one.
Heard(n, starts, parts, texts, written, next, ends) ==
    /\ next \in 1 .. n + 1
    /\ starts[next] + Len(socket) <= Len(written)
    /\ \A j \in 1 .. Len(socket) : socket[j] = written[starts[next] + j]
    /\ Len(controls) = texts[next]
    /\ output = SubSeq(Whole, 1, ends[parts[next]])

\* While the connection stands, nothing else is on it and nothing was left out.
Complete(n, starts, parts, texts, written, next) ==
    up =>
      /\ starts[next] + Len(socket) + Len(rest) = Len(written)
      /\ \A j \in 1 .. Len(rest) : rest[j] = written[Len(written) - Len(rest) + j]
      /\ queue["stream"] = SubSeq(Pieces, parts[n + 1] + 1, Len(Pieces))
      /\ texts[n + 1] + Len(queue["reply"]) + Len(queue["broadcast"]) = 3

Framing ==
    \E ends, n, frames, starts, parts, texts, written, next :
        /\ Cuts(ends)
        /\ Sent(n, frames, starts, parts, texts)
        /\ Wrote(n, frames, starts, written)
        /\ Heard(n, starts, parts, texts, written, next, ends)
        /\ Complete(n, starts, parts, texts, written, next)

\* What waits to be sent is of its kind.
Waiting ==
    /\ \A w \in {"reply", "broadcast"} : \A i \in DOMAIN queue[w] : queue[w][i] \in Messages
    /\ holder = "none" => rest = <<>>
    /\ ~strays /\ \A i \in DOMAIN controls : controls[i] \in Messages

WireInv == WireTypeOK /\ Waiting /\ Framing

\* Of some numbers one is the least.
LEMMA Least == ASSUME NEW T \in SUBSET Nat, T # {} PROVE \E x \in T : \A y \in T : x <= y
<1>1. IsWellFoundedOn(OpToRel(<, Nat), Nat)
  BY NatLessThanWellFounded
<1>2. PICK x \in T : \A y \in T : <<y, x>> \notin OpToRel(<, Nat)
  BY <1>1, WFMin
<1>3. \A a, b \in Nat : a < b => <<a, b>> \in OpToRel(<, Nat)
  <2> SUFFICES ASSUME NEW a \in Nat, NEW b \in Nat, a < b PROVE <<a, b>> \in OpToRel(<, Nat)
    OBVIOUS
  <2>1. <<a, b>> \in Nat \X Nat /\ <<a, b>>[1] < <<a, b>>[2]
    OBVIOUS
  <2> QED
    BY <2>1 DEF OpToRel
<1>4. ASSUME NEW y \in T PROVE x <= y
  <2>1. x \in Nat /\ y \in Nat
    OBVIOUS
  <2>2. <<y, x>> \notin OpToRel(<, Nat)
    BY <1>2
  <2>3. ~(y < x)
    BY <1>3, <2>1, <2>2
  <2> QED
    BY <2>1, <2>3
<1> QED
  BY <1>4

\* Multiples grow.
LEMMA Product ==
    ASSUME NEW a \in Nat, NEW b \in Nat, NEW m \in Nat, a <= b
    PROVE  a * m \in Nat /\ b * m \in Nat /\ a * m <= b * m /\ (m > 0 => a <= a * m)
OBVIOUS

\* splitFrames cuts a replay into consecutive pieces.
LEMMA SplitFits ==
    ASSUME NEW b \in Bytes, NEW max \in Nat
    PROVE  \E m \in Nat : \E e \in [0 .. m -> Nat] :
             /\ splitFrames(b, max) \in [1 .. m -> Bytes]
             /\ e[0] = 0 /\ e[m] = Len(b)
             /\ \A k \in 1 .. m :
                  e[k - 1] <= e[k] /\ e[k] <= Len(b) /\ splitFrames(b, max)[k] = SubSeq(b, e[k - 1] + 1, e[k])
<1>1. Len(b) \in Nat /\ (b = <<>> <=> Len(b) = 0)
  BY DEF Bytes
<1>2. CASE max = 0 /\ b # <<>>
  <2> DEFINE e == [k \in 0 .. 1 |-> IF k = 0 THEN 0 ELSE Len(b)]
  <2>1. splitFrames(b, max) = <<b>>
    BY <1>2 DEF splitFrames
  <2>2. <<b>> \in [1 .. 1 -> Bytes] /\ <<b>>[1] = b
    OBVIOUS
  <2>3. b = SubSeq(b, 1, Len(b))
    BY SubSeqFull DEF Bytes
  <2>4. e \in [0 .. 1 -> Nat] /\ e[0] = 0 /\ e[1] = Len(b)
    BY <1>1
  <2> HIDE DEF e
  <2>5. \A k \in 1 .. 1 : e[k - 1] <= e[k] /\ e[k] <= Len(b) /\ splitFrames(b, max)[k] = SubSeq(b, e[k - 1] + 1, e[k])
    BY <1>1, <2>1, <2>2, <2>3, <2>4
  <2> QED
    BY <2>1, <2>2, <2>4, <2>5
<1>3. CASE max # 0 \/ b = <<>>
  <2> DEFINE D == {k \in 1 .. Len(b) : (k - 1) * max < Len(b)}
             end(k) == IF k * max < Len(b) THEN k * max ELSE Len(b)
             T == {k \in Nat : k >= 1 /\ k \notin D}
  <2>1. splitFrames(b, max) = [k \in D |-> SubSeq(b, (k - 1) * max + 1, end(k))]
    BY <1>3 DEF splitFrames
  <2>2. T \in SUBSET Nat /\ Len(b) + 1 \in T
    BY <1>1
  <2>3. PICK x \in T : \A y \in T : x <= y
    BY <2>2, Least
  <2>4. x \in Nat /\ x >= 1 /\ x \notin D /\ \A k \in 1 .. x - 1 : k \in D
    <3>1. x \in Nat /\ x >= 1 /\ x \notin D
      OBVIOUS
    <3>2. ASSUME NEW k \in 1 .. x - 1, k \notin D PROVE FALSE
      <4>1. k \in T
        BY <3>2, <3>1
      <4> QED
        BY <2>3, <3>1, <4>1
    <3> QED
      BY <3>1, <3>2
  <2>5. ASSUME NEW k \in D PROVE k \in 1 .. x - 1
    <3>1. SUFFICES ASSUME k >= x PROVE FALSE
      BY <2>4, <1>1
    <3>2. k \in Nat /\ k >= 1 /\ k <= Len(b) /\ (k - 1) * max < Len(b)
      BY <1>1
    <3>3. (x - 1) * max <= (k - 1) * max /\ (x - 1) * max \in Nat /\ (k - 1) * max \in Nat
      <4>1. x - 1 \in Nat /\ k - 1 \in Nat /\ x - 1 <= k - 1
        BY <2>4, <3>1, <3>2
      <4> QED
        BY <4>1, Product
    <3>4. x \in 1 .. Len(b) /\ (x - 1) * max < Len(b)
      BY <1>1, <2>4, <3>1, <3>2, <3>3
    <3> QED
      BY <2>4, <3>4
  <2>6. D = 1 .. x - 1
    BY <2>4, <2>5
  <2> DEFINE m == x - 1
             e == [k \in 0 .. m |-> end(k)]
  <2>7. m \in Nat /\ \A k \in 0 .. m : end(k) \in Nat /\ end(k) <= Len(b)
    <3>1. m \in Nat
      BY <2>4
    <3>2. \A k \in Nat : k * max \in Nat
      BY Product
    <3> QED
      BY <1>1, <3>1, <3>2
  <2>8. end(0) = 0
    BY <1>1, Product
  <2>9. end(m) = Len(b)
    <3>1. m \in Nat /\ m * max \in Nat /\ (max > 0 => m <= m * max)
      BY <2>7, Product
    <3>2. m >= Len(b) \/ m * max >= Len(b)
      BY <1>1, <2>4, <3>1
    <3>3. max > 0 \/ Len(b) = 0
      BY <1>1, <1>3
    <3> QED
      BY <1>1, <3>1, <3>2, <3>3
  <2>10. ASSUME NEW k \in 1 .. m
         PROVE  /\ end(k - 1) <= end(k) /\ end(k) <= Len(b) /\ end(k) \in Nat
                /\ end(k - 1) = (k - 1) * max /\ (k - 1) * max \in Nat
    <3>1. (k - 1) * max < Len(b)
      BY <2>6
    <3>2. (k - 1) * max \in Nat /\ k * max \in Nat /\ (k - 1) * max <= k * max
      <4>1. k - 1 \in Nat /\ k \in Nat /\ k - 1 <= k
        BY <2>7
      <4> QED
        BY <4>1, Product
    <3> QED
      BY <1>1, <3>1, <3>2
  <2>11. ASSUME NEW k \in 1 .. m PROVE SubSeq(b, (k - 1) * max + 1, end(k)) \in Bytes
    BY <1>1, <2>10 DEF Bytes
  <2>12. e \in [0 .. m -> Nat] /\ e[0] = end(0) /\ e[m] = end(m) /\ \A k \in 1 .. m : e[k - 1] = end(k - 1) /\ e[k] = end(k)
    BY <2>7
  <2>13. splitFrames(b, max) = [k \in 1 .. m |-> SubSeq(b, (k - 1) * max + 1, end(k))]
    BY <2>1, <2>6
  <2> HIDE DEF e, end, D, T, m
  <2>14. /\ splitFrames(b, max) \in [1 .. m -> Bytes]
         /\ \A k \in 1 .. m : splitFrames(b, max)[k] = SubSeq(b, end(k - 1) + 1, end(k))
    BY <2>10, <2>11, <2>13
  <2>15. \A k \in 1 .. m :
            e[k - 1] <= e[k] /\ e[k] <= Len(b) /\ splitFrames(b, max)[k] = SubSeq(b, e[k - 1] + 1, e[k])
    BY <2>10, <2>12, <2>14
  <2> QED
    BY <2>7, <2>8, <2>9, <2>12, <2>14, <2>15
<1> QED
  BY <1>2, <1>3

\* Joined, both keep their elements.
LEMMA Joined ==
    ASSUME NEW S, NEW a \in Seq(S), NEW b \in Seq(S)
    PROVE  /\ a \o b \in Seq(S) /\ Len(a \o b) = Len(a) + Len(b) /\ Len(a) \in Nat /\ Len(b) \in Nat
           /\ \A i \in 1 .. Len(a) : (a \o b)[i] = a[i]
           /\ \A j \in 1 .. Len(b) : (a \o b)[Len(a) + j] = b[j]
<1>1. a \o b \in Seq(S) /\ Len(a \o b) = Len(a) + Len(b) /\ Len(a) \in Nat /\ Len(b) \in Nat
  BY ConcatProperties
<1>2. \A i \in 1 .. Len(a) + Len(b) : (a \o b)[i] = IF i <= Len(a) THEN a[i] ELSE b[i - Len(a)]
  BY ConcatProperties
<1>3. ASSUME NEW j \in 1 .. Len(b) PROVE (a \o b)[Len(a) + j] = b[j]
  <2>1. Len(a) + j \in 1 .. Len(a) + Len(b) /\ ~(Len(a) + j <= Len(a)) /\ Len(a) + j - Len(a) = j
    BY <1>1
  <2> QED
    BY <1>2, <2>1
<1>4. ASSUME NEW i \in 1 .. Len(a) PROVE (a \o b)[i] = a[i]
  <2>1. i \in 1 .. Len(a) + Len(b) /\ i <= Len(a)
    BY <1>1
  <2> QED
    BY <1>2, <2>1
<1> QED
  BY <1>1, <1>3, <1>4

\* The frames of the stream cut up the replay and the live output after it.
LEMMA PiecesFit ==
    ASSUME replay \in Bytes
    PROVE  Pieces \in Seq(Bytes) /\ Whole \in Bytes /\ \E ends : Cuts(ends)
<1> DEFINE s == splitFrames(replay, maxFrameBytes)
           live == <<LiveChunk>>
<1>1. PICK m \in Nat : \E e \in [0 .. m -> Nat] :
             /\ s \in [1 .. m -> Bytes]
             /\ e[0] = 0 /\ e[m] = Len(replay)
             /\ \A k \in 1 .. m : e[k - 1] <= e[k] /\ e[k] <= Len(replay) /\ s[k] = SubSeq(replay, e[k - 1] + 1, e[k])
  BY SplitFits, WireAssumption
<1>2. PICK e \in [0 .. m -> Nat] :
             /\ s \in [1 .. m -> Bytes]
             /\ e[0] = 0 /\ e[m] = Len(replay)
             /\ \A k \in 1 .. m : e[k - 1] <= e[k] /\ e[k] <= Len(replay) /\ s[k] = SubSeq(replay, e[k - 1] + 1, e[k])
  BY <1>1
<1> HIDE DEF s
<1>3. s \in Seq(Bytes) /\ Len(s) = m
  BY <1>2
<1>4. LiveChunk \in Bytes /\ Len(LiveChunk) = 1 /\ live \in Seq(Bytes) /\ Len(live) = 1 /\ live[1] = LiveChunk
  BY DEF LiveChunk, Bytes
<1> HIDE DEF live
<1>5. /\ s \o live \in Seq(Bytes) /\ Len(s \o live) = m + 1
      /\ \A k \in 1 .. m : (s \o live)[k] = s[k]
      /\ (s \o live)[m + 1] = LiveChunk
  <2>1. /\ s \o live \in Seq(Bytes) /\ Len(s \o live) = Len(s) + Len(live)
        /\ \A k \in 1 .. Len(s) : (s \o live)[k] = s[k]
        /\ \A j \in 1 .. Len(live) : (s \o live)[Len(s) + j] = live[j]
    <3>1. s \in Seq(Bytes) /\ live \in Seq(Bytes)
      BY <1>3, <1>4
    <3> QED
      BY <3>1, Joined
  <2>2. 1 \in 1 .. Len(live)
    BY <1>4
  <2> QED
    BY <1>3, <1>4, <2>1, <2>2
<1>6. /\ Whole \in Bytes /\ Len(Whole) = Len(replay) + 1 /\ Len(replay) \in Nat
      /\ \A i \in 1 .. Len(replay) : Whole[i] = replay[i]
      /\ SubSeq(Whole, Len(replay) + 1, Len(replay) + 1) = LiveChunk
  <2>1. Whole \in Bytes /\ Len(Whole) = Len(replay) + 1 /\ Len(replay) \in Nat
    BY <1>4, ConcatProperties DEF Whole, Bytes
  <2>2. \A i \in 1 .. Len(replay) : Whole[i] = replay[i]
    BY <1>4 DEF Whole, Bytes
  <2>3. Whole[Len(replay) + 1] = 20
    BY DEF Whole, Bytes, LiveChunk
  <2>4. SubSeq(Whole, Len(replay) + 1, Len(replay) + 1) = <<20>>
    BY <2>1, <2>3 DEF Bytes
  <2> QED
    BY <2>1, <2>2, <2>4 DEF LiveChunk
<1> DEFINE ends == [k \in 0 .. m + 1 |-> IF k <= m THEN e[k] ELSE Len(replay) + 1]
<1>7. /\ ends \in [0 .. m + 1 -> Nat] /\ ends[0] = 0 /\ ends[m + 1] = Len(replay) + 1
      /\ \A k \in 1 .. m : ends[k] = e[k] /\ ends[k - 1] = e[k - 1]
      /\ ends[m] = Len(replay)
  BY <1>2, <1>6
<1> HIDE DEF ends
<1>8. ASSUME NEW k \in 1 .. m
      PROVE  ends[k - 1] <= ends[k] /\ ends[k] <= Len(Whole) /\ s[k] = SubSeq(Whole, ends[k - 1] + 1, ends[k])
  <2>1. /\ e[k - 1] \in Nat /\ e[k] \in Nat /\ e[k - 1] <= e[k] /\ e[k] <= Len(replay)
        /\ s[k] = SubSeq(replay, e[k - 1] + 1, e[k])
    BY <1>2
  <2>2. SubSeq(replay, e[k - 1] + 1, e[k]) = SubSeq(Whole, e[k - 1] + 1, e[k])
    <3>1. CASE e[k] = e[k - 1]
      BY <2>1, <3>1, SubSeqEmpty
    <3>2. CASE e[k] # e[k - 1]
      <4>1. e[k - 1] + 1 \in 1 .. Len(replay) /\ e[k] \in 1 .. Len(replay)
        BY <1>6, <2>1, <3>2
      <4> QED
        BY <1>4, <4>1, SubSeqOfConcat1 DEF Whole, Bytes
    <3> QED
      BY <3>1, <3>2
  <2>3. ends[k - 1] = e[k - 1] /\ ends[k] = e[k]
    BY <1>7
  <2> QED
    BY <1>6, <2>1, <2>2, <2>3
<1>9. ASSUME NEW k \in 1 .. m + 1
      PROVE  ends[k - 1] <= ends[k] /\ ends[k] <= Len(Whole) /\ (s \o live)[k] = SubSeq(Whole, ends[k - 1] + 1, ends[k])
  <2>1. CASE k \in 1 .. m
    BY <1>5, <1>8, <2>1
  <2>2. CASE k = m + 1
    <3>1. ends[k - 1] = Len(replay) /\ ends[k] = Len(replay) + 1
      BY <1>7, <2>2
    <3> QED
      BY <1>5, <1>6, <2>2, <3>1
  <2>3. k \in 1 .. m \/ k = m + 1
    OBVIOUS
  <2> QED
    BY <2>1, <2>2, <2>3
<1>10. Pieces = s \o live
  BY DEF Pieces, s, live
<1>11. Cuts(ends)
  BY <1>5, <1>6, <1>7, <1>9, <1>10 DEF Cuts
<1> QED
  BY <1>5, <1>6, <1>10, <1>11

\* The initial frames, of which none was sent.
LEMMA WireAtFirst == WireInit => WireInv
<1> SUFFICES ASSUME WireInit PROVE WireInv
  OBVIOUS
<1>1. PICK k \in ReplayBytes :
        /\ replay = Replay(k)
        /\ queue = [w \in Writers |->
                IF w = "reply" THEN Replies
                ELSE IF w = "broadcast" THEN Broadcasts
                ELSE splitFrames(Replay(k), maxFrameBytes) \o <<LiveChunk>>]
  BY DEF WireInit
<1>2. replay \in Bytes
  BY <1>1, WireAssumption DEF Replay, Bytes
<1>3. Pieces \in Seq(Bytes) /\ Whole \in Bytes /\ \E ends : Cuts(ends)
  BY <1>2, PiecesFit
<1>4. queue = [w \in Writers |->
                IF w = "reply" THEN Replies ELSE IF w = "broadcast" THEN Broadcasts ELSE Pieces]
  BY <1>1 DEF Pieces
<1>5. /\ Replies \in Seq(Bytes) /\ Broadcasts \in Seq(Bytes) /\ Len(Replies) = 2 /\ Len(Broadcasts) = 1
      /\ \A i \in DOMAIN Replies : Replies[i] \in Messages
      /\ \A i \in DOMAIN Broadcasts : Broadcasts[i] \in Messages
  BY DEF Replies, Broadcasts, Bytes, Messages
<1>6. /\ holder = "none" /\ rest = <<>> /\ socket = <<>> /\ up = TRUE
      /\ output = <<>> /\ controls = <<>> /\ strays = FALSE
  BY DEF WireInit
<1>7. <<>> \in Seq(Nat) /\ <<>> \in Seq(Seq(Nat)) /\ Len(<<>>) = 0 /\ DOMAIN <<>> = {}
  OBVIOUS
<1>8. WireTypeOK
  <2>1. queue \in [Writers -> Seq(Bytes)]
    BY <1>3, <1>4, <1>5
  <2> QED
    BY <1>2, <1>6, <1>7, <2>1 DEF WireTypeOK, Bytes
<1>9. Waiting
  BY <1>4, <1>5, <1>6, <1>7 DEF Waiting, Writers
<1>10. Framing
  <2>1. PICK ends : Cuts(ends)
    BY <1>3
  <2> DEFINE zero == [i \in 1 .. 0 + 1 |-> 0]
             frames == [i \in 1 .. 0 |-> [Type |-> TypeControl, Payload |-> <<>>]]
  <2>2. zero \in [1 .. 0 + 1 -> Nat] /\ zero[1] = 0 /\ \A i \in 1 .. 0 + 1 : i = 1
    OBVIOUS
  <2>3. frames \in [1 .. 0 -> [Type : {TypeControl, TypeOutput}, Payload : Bytes]] /\ 1 .. 0 = {}
    OBVIOUS
  <2> HIDE DEF zero, frames
  <2>4. Len(Pieces) \in Nat
    BY <1>3
  <2>5. Sent(0, frames, zero, zero, zero)
    BY <2>2, <2>3, <2>4 DEF Sent
  <2>6. Wrote(0, frames, zero, <<>>)
    BY <1>7, <2>2, <2>3 DEF Wrote, Bytes
  <2>7. Heard(0, zero, zero, zero, <<>>, 1, ends)
    <3>1. SubSeq(Whole, 1, ends[zero[1]]) = <<>>
      BY <2>1, <2>2, SubSeqEmpty DEF Cuts
    <3>2. 1 .. Len(socket) = {} /\ 1 \in 1 .. 0 + 1
      BY <1>6, <1>7
    <3>3. zero[1] + Len(socket) <= Len(<<>>) /\ Len(controls) = zero[1] /\ output = <<>>
      BY <1>6, <1>7, <2>2
    <3>4. \A j \in 1 .. Len(socket) : socket[j] = <<>>[zero[1] + j]
      BY <3>2
    <3> QED
      BY <3>1, <3>2, <3>3, <3>4 DEF Heard
  <2>8. Complete(0, zero, zero, zero, <<>>, 1)
    <3>1. 1 .. Len(rest) = {} /\ Len(rest) = 0 /\ Len(socket) = 0
      BY <1>6, <1>7
    <3>2. queue["stream"] = SubSeq(Pieces, zero[1] + 1, Len(Pieces))
      <4>1. queue["stream"] = Pieces
        BY <1>4 DEF Writers
      <4>2. Pieces = SubSeq(Pieces, 1, Len(Pieces))
        BY <1>3, SubSeqFull
      <4> QED
        BY <2>2, <4>1, <4>2
    <3>3. zero[1] + Len(queue["reply"]) + Len(queue["broadcast"]) = 3
      <4>1. queue["reply"] = Replies /\ queue["broadcast"] = Broadcasts
        BY <1>4 DEF Writers
      <4>2. Len(queue["reply"]) = 2 /\ Len(queue["broadcast"]) = 1
        BY <1>5, <4>1
      <4> QED
        BY <2>2, <4>2
    <3>4. zero[1] + Len(socket) + Len(rest) = Len(<<>>) /\ zero[0 + 1] = zero[1]
      BY <1>7, <2>2, <3>1
    <3>5. \A j \in 1 .. Len(rest) : rest[j] = <<>>[Len(<<>>) - Len(rest) + j]
      BY <3>1
    <3> QED
      BY <3>2, <3>3, <3>4, <3>5 DEF Complete
  <2> QED
    BY <2>1, <2>5, <2>6, <2>7, <2>8 DEF Framing
<1> QED
  BY <1>8, <1>9, <1>10 DEF WireInv

\* Where the bytes of a frame are.
LEMMA Inside ==
    ASSUME NEW a \in Nat, NEW l \in Nat, NEW w \in Nat, a + 2 + l <= w
    PROVE  \A j \in 1 .. 2 + l : a + j \in 1 .. w
OBVIOUS

\* A frame is taken to be written: it is the next one sent.
LEMMA FrameSent ==
    ASSUME NEW n, NEW frames, NEW starts, NEW parts, NEW texts, NEW written,
           Pieces \in Seq(Bytes),
           Sent(n, frames, starts, parts, texts), Wrote(n, frames, starts, written),
           NEW f \in [Type : {TypeControl, TypeOutput}, Payload : Bytes],
           f.Type = TypeControl => f.Payload \in Messages,
           f.Type = TypeOutput => parts[n + 1] + 1 <= Len(Pieces) /\ f.Payload = Pieces[parts[n + 1] + 1]
    PROVE  \E frames2, starts2, parts2, texts2 :
             /\ Sent(n + 1, frames2, starts2, parts2, texts2)
             /\ Wrote(n + 1, frames2, starts2, written \o Encoded(f))
             /\ \A i \in 1 .. n + 1 : starts2[i] = starts[i] /\ parts2[i] = parts[i] /\ texts2[i] = texts[i]
             /\ texts2[n + 1 + 1] = texts[n + 1] + IsControl(f)
             /\ parts2[n + 1 + 1] = parts[n + 1] + 1 - IsControl(f)
             /\ Len(written \o Encoded(f)) = Len(written) + Len(Encoded(f))
             /\ \A j \in 1 .. Len(written) : (written \o Encoded(f))[j] = written[j]
             /\ \A j \in 1 .. Len(Encoded(f)) : (written \o Encoded(f))[Len(written) + j] = Encoded(f)[j]
             /\ Encoded(f) \in Bytes /\ Len(Encoded(f)) \in Nat
<1> USE DEF TypeControl, TypeOutput
<1> DEFINE frames2 == [i \in 1 .. n + 1 |-> IF i = n + 1 THEN f ELSE frames[i]]
           starts2 == [i \in 1 .. n + 1 + 1 |-> IF i = n + 1 + 1 THEN starts[n + 1] + 2 + Len(f.Payload) ELSE starts[i]]
           parts2 == [i \in 1 .. n + 1 + 1 |-> IF i = n + 1 + 1 THEN parts[n + 1] + 1 - IsControl(f) ELSE parts[i]]
           texts2 == [i \in 1 .. n + 1 + 1 |-> IF i = n + 1 + 1 THEN texts[n + 1] + IsControl(f) ELSE texts[i]]
           e == Encoded(f)
           more == written \o e
<1> HIDE DEF frames2, starts2, parts2, texts2, e, more
<1>1. /\ n \in Nat /\ frames \in [1 .. n -> [Type : {1, 2}, Payload : Bytes]]
      /\ starts \in [1 .. n + 1 -> Nat] /\ parts \in [1 .. n + 1 -> Nat] /\ texts \in [1 .. n + 1 -> Nat]
      /\ f.Payload \in Bytes /\ Len(f.Payload) \in Nat /\ f.Type \in {1, 2}
      /\ written \in Bytes /\ Len(written) = starts[n + 1] /\ Len(written) \in Nat
      /\ Len(Pieces) \in Nat
  <2>1. f.Payload \in Bytes /\ f.Type \in {1, 2}
    OBVIOUS
  <2>2. Len(f.Payload) \in Nat /\ Len(Pieces) \in Nat
    BY <2>1 DEF Bytes
  <2>3. n \in Nat /\ frames \in [1 .. n -> [Type : {1, 2}, Payload : Bytes]]
    BY DEF Sent
  <2>4. starts \in [1 .. n + 1 -> Nat] /\ parts \in [1 .. n + 1 -> Nat] /\ texts \in [1 .. n + 1 -> Nat]
    BY DEF Sent
  <2>5. written \in Bytes /\ Len(written) = starts[n + 1]
    BY DEF Wrote
  <2>6. Len(written) \in Nat
    BY <2>5 DEF Bytes
  <2> QED
    BY <2>1, <2>2, <2>3, <2>4, <2>5, <2>6
<1>2. /\ frames2 \in [1 .. n + 1 -> [Type : {1, 2}, Payload : Bytes]]
      /\ frames2[n + 1] = f /\ \A i \in 1 .. n : frames2[i] = frames[i]
  BY <1>1 DEF frames2
<1>3. /\ starts2 \in [1 .. n + 1 + 1 -> Nat] /\ starts2[n + 1 + 1] = starts[n + 1] + 2 + Len(f.Payload)
      /\ \A i \in 1 .. n + 1 : starts2[i] = starts[i]
  <2>1. n + 1 + 1 \in 1 .. n + 1 + 1 /\ \A i \in 1 .. n + 1 : i \in 1 .. n + 1 + 1 /\ i # n + 1 + 1
    BY <1>1
  <2> QED
    BY <1>1, <2>1 DEF starts2
<1>4. IsControl(f) \in {0, 1} /\ (f.Type = 1 <=> IsControl(f) = 1)
  BY <1>1 DEF IsControl
<1>5. /\ parts2 \in [1 .. n + 1 + 1 -> Nat] /\ parts2[n + 1 + 1] = parts[n + 1] + 1 - IsControl(f)
      /\ \A i \in 1 .. n + 1 : parts2[i] = parts[i]
  <2>1. n + 1 + 1 \in 1 .. n + 1 + 1 /\ \A i \in 1 .. n + 1 : i \in 1 .. n + 1 + 1 /\ i # n + 1 + 1
    BY <1>1
  <2> QED
    BY <1>1, <1>4, <2>1 DEF parts2
<1>6. /\ texts2 \in [1 .. n + 1 + 1 -> Nat] /\ texts2[n + 1 + 1] = texts[n + 1] + IsControl(f)
      /\ \A i \in 1 .. n + 1 : texts2[i] = texts[i]
  <2>1. n + 1 + 1 \in 1 .. n + 1 + 1 /\ \A i \in 1 .. n + 1 : i \in 1 .. n + 1 + 1 /\ i # n + 1 + 1
    BY <1>1
  <2> QED
    BY <1>1, <1>4, <2>1 DEF texts2
<1>7. /\ e \in Bytes /\ Len(e) = 2 + Len(f.Payload) /\ e[1] = f.Type /\ e[2] = Len(f.Payload)
      /\ \A j \in 1 .. Len(f.Payload) : e[2 + j] = f.Payload[j]
  <2>1. <<f.Type, Len(f.Payload)>> \in Seq(Nat) /\ Len(<<f.Type, Len(f.Payload)>>) = 2
    BY <1>1
  <2>2. <<f.Type, Len(f.Payload)>>[1] = f.Type /\ <<f.Type, Len(f.Payload)>>[2] = Len(f.Payload)
    OBVIOUS
  <2> DEFINE h == <<f.Type, Len(f.Payload)>>
  <2> HIDE DEF h
  <2>3. h \in Seq(Nat) /\ Len(h) = 2 /\ h[1] = f.Type /\ h[2] = Len(f.Payload) /\ f.Payload \in Seq(Nat)
    BY <1>1, <2>1, <2>2 DEF h, Bytes
  <2> DEFINE p == f.Payload
  <2> HIDE DEF p
  <2>4. /\ h \o p \in Seq(Nat) /\ Len(h \o p) = Len(h) + Len(p)
        /\ \A i \in 1 .. Len(h) : (h \o p)[i] = h[i]
        /\ \A j \in 1 .. Len(p) : (h \o p)[Len(h) + j] = p[j]
    <3>1. p \in Seq(Nat) /\ h \in Seq(Nat)
      BY <2>3 DEF p
    <3> QED
      BY <3>1, Joined
  <2>5. (h \o p)[1] = h[1] /\ (h \o p)[2] = h[2]
    BY <2>3, <2>4
  <2>6. e = h \o p
    BY DEF h, p, e, Encoded
  <2> QED
    BY <1>1, <2>3, <2>4, <2>5, <2>6 DEF Bytes, p
<1>8. /\ more \in Bytes /\ Len(more) = Len(written) + Len(e)
      /\ \A j \in 1 .. Len(written) : more[j] = written[j]
      /\ \A j \in 1 .. Len(e) : more[Len(written) + j] = e[j]
  <2>1. written \in Seq(Nat) /\ e \in Seq(Nat)
    BY <1>1, <1>7 DEF Bytes
  <2> QED
    BY <2>1, Joined DEF Bytes, more
<1>9. Sent(n + 1, frames2, starts2, parts2, texts2)
  <2>1. n + 1 \in Nat /\ starts2[1] = 0 /\ parts2[1] = 0 /\ texts2[1] = 0
    BY <1>1, <1>3, <1>5, <1>6 DEF Sent
  <2>2. ASSUME NEW i \in 1 .. n + 1 + 1
        PROVE  starts2[i] <= starts2[n + 1 + 1] /\ parts2[i] <= Len(Pieces)
    <3>1. n + 1 + 1 = n + 1 + 1 /\ (i \in 1 .. n + 1 \/ i = n + 1 + 1)
      BY <1>1
    <3>2. CASE i \in 1 .. n + 1
      BY <1>1, <1>3, <1>5, <3>1, <3>2 DEF Sent
    <3>3. CASE i = n + 1 + 1
      <4>1. parts[n + 1] <= Len(Pieces) /\ parts[n + 1] \in Nat
        BY <1>1 DEF Sent
      <4>2. parts[n + 1] + 1 - IsControl(f) <= Len(Pieces)
        BY <1>1, <1>4, <4>1
      <4> QED
        BY <1>3, <1>5, <3>1, <3>3, <4>2
    <3> QED
      BY <3>1, <3>2, <3>3
  <2>3. ASSUME NEW i \in 1 .. n + 1
        PROVE  /\ starts2[i + 1] = starts2[i] + 2 + Len(frames2[i].Payload)
               /\ texts2[i + 1] = texts2[i] + IsControl(frames2[i])
               /\ parts2[i + 1] = parts2[i] + 1 - IsControl(frames2[i])
               /\ frames2[i].Type = 1 => frames2[i].Payload \in Messages
               /\ frames2[i].Type = 2 =>
                    parts2[i] + 1 <= Len(Pieces) /\ frames2[i].Payload = Pieces[parts2[i] + 1]
    <3>1. i \in 1 .. n \/ i = n + 1
      BY <1>1
    <3>2. CASE i \in 1 .. n
      <4>1. i + 1 \in 1 .. n + 1 /\ i \in 1 .. n + 1
        BY <1>1, <3>2
      <4> QED
        BY <1>2, <1>3, <1>5, <1>6, <3>2, <4>1 DEF Sent
    <3>3. CASE i = n + 1
      <4>1. i + 1 = n + 1 + 1 /\ n + 1 \in 1 .. n + 1
        BY <1>1, <3>3
      <4> QED
        BY <1>2, <1>3, <1>5, <1>6, <3>3, <4>1
    <3> QED
      BY <3>1, <3>2, <3>3
  <2> QED
    BY <1>2, <1>3, <1>5, <1>6, <2>1, <2>2, <2>3 DEF Sent
<1>10. Wrote(n + 1, frames2, starts2, more)
  <2>1. Len(more) = starts2[n + 1 + 1]
    BY <1>1, <1>3, <1>7, <1>8
  <2>2. ASSUME NEW i \in 1 .. n + 1
        PROVE  /\ more[starts2[i] + 1] = frames2[i].Type
               /\ more[starts2[i] + 2] = Len(frames2[i].Payload)
               /\ \A j \in 1 .. Len(frames2[i].Payload) : more[starts2[i] + 2 + j] = frames2[i].Payload[j]
    <3>1. i \in 1 .. n \/ i = n + 1
      BY <1>1
    <3>2. CASE i \in 1 .. n
      <4>1. i \in 1 .. n + 1 /\ i + 1 \in 1 .. n + 1 /\ starts2[i] = starts[i] /\ frames2[i] = frames[i]
        <5>1. i \in 1 .. n + 1 /\ i + 1 \in 1 .. n + 1
          BY <1>1, <3>2
        <5> QED
          BY <1>2, <1>3, <3>2, <5>1
      <4>2. /\ starts[i] \in Nat /\ starts[i + 1] = starts[i] + 2 + Len(frames[i].Payload)
            /\ starts[i + 1] <= Len(written) /\ Len(frames[i].Payload) \in Nat
        <5>1. starts[i] \in Nat /\ Len(frames[i].Payload) \in Nat
          BY <1>1, <3>2, <4>1 DEF Bytes
        <5>2. starts[i + 1] = starts[i] + 2 + Len(frames[i].Payload)
          BY <3>2 DEF Sent
        <5>3. starts[i + 1] <= starts[n + 1]
          BY <4>1 DEF Sent
        <5> QED
          BY <1>1, <5>1, <5>2, <5>3
      <4>3. \A j \in 1 .. 2 + Len(frames[i].Payload) : more[starts[i] + j] = written[starts[i] + j]
        <5>1. \A j \in 1 .. 2 + Len(frames[i].Payload) : starts[i] + j \in 1 .. Len(written)
          <6> DEFINE l == Len(frames[i].Payload)
          <6> HIDE DEF l
          <6>1. l \in Nat /\ starts[i] \in Nat /\ starts[i] + 2 + l <= Len(written)
            BY <4>2 DEF l
          <6>2. Len(written) \in Nat
            BY <1>1
          <6>3. \A j \in 1 .. 2 + l : starts[i] + j \in 1 .. Len(written)
            BY <6>1, <6>2, Inside
          <6> QED
            BY <6>3 DEF l
        <5> QED
          BY <1>8, <5>1
      <4>4. more[starts[i] + 1] = written[starts[i] + 1] /\ more[starts[i] + 2] = written[starts[i] + 2]
        <5>1. 1 \in 1 .. 2 + Len(frames[i].Payload) /\ 2 \in 1 .. 2 + Len(frames[i].Payload)
          BY <4>2
        <5> QED
          BY <4>3, <5>1
      <4>5. ASSUME NEW j \in 1 .. Len(frames[i].Payload)
            PROVE  more[starts[i] + 2 + j] = written[starts[i] + 2 + j]
        <5>1. 2 + j \in 1 .. 2 + Len(frames[i].Payload) /\ starts[i] + (2 + j) = starts[i] + 2 + j
          <6> DEFINE l == Len(frames[i].Payload)
          <6> HIDE DEF l
          <6>1. l \in Nat /\ starts[i] \in Nat /\ j \in 1 .. l
            BY <4>2 DEF l
          <6>2. 2 + j \in 1 .. 2 + l /\ starts[i] + (2 + j) = starts[i] + 2 + j
            BY <6>1
          <6> QED
            BY <6>2 DEF l
        <5> QED
          BY <4>3, <5>1
      <4> QED
        BY <3>2, <4>1, <4>4, <4>5 DEF Wrote
    <3>3. CASE i = n + 1
      <4>1. starts2[i] = Len(written) /\ frames2[i] = f
        BY <1>1, <1>2, <1>3, <3>3
      <4>2. more[Len(written) + 1] = e[1] /\ more[Len(written) + 2] = e[2]
        <5>1. 1 \in 1 .. Len(e) /\ 2 \in 1 .. Len(e)
          BY <1>1, <1>7
        <5> QED
          BY <1>8, <5>1
      <4>3. ASSUME NEW j \in 1 .. Len(f.Payload)
            PROVE  more[Len(written) + 2 + j] = f.Payload[j]
        <5>1. 2 + j \in 1 .. Len(e) /\ Len(written) + (2 + j) = Len(written) + 2 + j
          <6>1. PICK l, z : l = Len(f.Payload) /\ z = Len(written)
            OBVIOUS
          <6>2. l \in Nat /\ z \in Nat /\ j \in 1 .. l /\ Len(e) = 2 + l
            BY <1>1, <1>7, <6>1
          <6>3. 2 + j \in 1 .. 2 + l /\ z + (2 + j) = z + 2 + j
            BY <6>2
          <6> QED
            BY <6>1, <6>2, <6>3
        <5> QED
          BY <1>7, <1>8, <5>1
      <4> QED
        BY <1>7, <4>1, <4>2, <4>3
    <3> QED
      BY <3>1, <3>2, <3>3
  <2> QED
    BY <1>8, <2>1, <2>2 DEF Wrote
<1>11. \A i \in 1 .. n + 1 : starts2[i] = starts[i] /\ parts2[i] = parts[i] /\ texts2[i] = texts[i]
  BY <1>3, <1>5, <1>6
<1>12. more = written \o Encoded(f) /\ e = Encoded(f) /\ Len(e) \in Nat
  BY <1>1, <1>7 DEF e, more
<1> QED
  BY <1>5, <1>6, <1>7, <1>8, <1>9, <1>10, <1>11, <1>12

\* A cut out of a sequence.
LEMMA CutOut ==
    ASSUME NEW S, NEW s \in Seq(S), NEW a \in Nat, NEW b \in Nat, a <= b, b <= Len(s)
    PROVE  /\ SubSeq(s, a + 1, b) \in Seq(S) /\ Len(SubSeq(s, a + 1, b)) = b - a
           /\ \A j \in 1 .. b - a : SubSeq(s, a + 1, b)[j] = s[a + j]
<1>1. Len(s) \in Nat /\ \A i \in a + 1 .. b : s[i] \in S
  OBVIOUS
<1>2. /\ SubSeq(s, a + 1, b) \in Seq(S)
      /\ Len(SubSeq(s, a + 1, b)) = IF a + 1 <= b THEN b - (a + 1) + 1 ELSE 0
      /\ \A i \in 1 .. b - (a + 1) + 1 : SubSeq(s, a + 1, b)[i] = s[a + 1 + i - 1]
  <2>1. a + 1 \in Int /\ b \in Int
    OBVIOUS
  <2> QED
    BY <1>1, <2>1, SubSeqProperties
<1>3. ASSUME NEW j \in 1 .. b - a PROVE SubSeq(s, a + 1, b)[j] = s[a + j]
  <2>1. j \in 1 .. b - (a + 1) + 1 /\ a + 1 + j - 1 = a + j
    OBVIOUS
  <2> QED
    BY <1>2, <2>1
<1>4. (IF a + 1 <= b THEN b - (a + 1) + 1 ELSE 0) = b - a
  OBVIOUS
<1> QED
  BY <1>2, <1>3, <1>4

\* What a queue gives up and keeps.
LEMMA Queued ==
    ASSUME NEW S, NEW q \in Seq(S), q # <<>>
    PROVE  /\ Head(q) \in S /\ Head(q) = q[1] /\ Tail(q) \in Seq(S) /\ Len(Tail(q)) = Len(q) - 1
           /\ Len(q) \in Nat /\ Len(q) >= 1
           /\ \A T : (\A i \in DOMAIN q : q[i] \in T) => Head(q) \in T /\ \A i \in DOMAIN Tail(q) : Tail(q)[i] \in T
<1>1. /\ Head(q) \in S /\ Tail(q) \in Seq(S) /\ Len(Tail(q)) = Len(q) - 1
      /\ \A i \in 1 .. Len(Tail(q)) : Tail(q)[i] = q[i + 1]
  BY HeadTailProperties
<1>2. Len(q) \in Nat /\ Len(q) >= 1 /\ DOMAIN q = 1 .. Len(q) /\ DOMAIN Tail(q) = 1 .. Len(Tail(q)) /\ Head(q) = q[1]
  BY <1>1
<1>3. \A i \in DOMAIN Tail(q) : i + 1 \in DOMAIN q /\ Tail(q)[i] = q[i + 1]
  BY <1>1, <1>2
<1> QED
  BY <1>1, <1>2, <1>3

\* Every step keeps the types.
LEMMA WireTyped == WireTypeOK /\ [WireNext]_wireVars => WireTypeOK'
<1> SUFFICES ASSUME WireTypeOK, [WireNext]_wireVars PROVE WireTypeOK'
  OBVIOUS
<1> USE DEF WireTypeOK
<1>1. ASSUME NEW w \in Writers, LockToWrite(w) PROVE WireTypeOK'
  <2>1. queue[w] \in Seq(Seq(Nat)) /\ queue[w] # <<>>
    BY <1>1 DEF LockToWrite
  <2>2. Head(queue[w]) \in Seq(Nat) /\ Tail(queue[w]) \in Seq(Seq(Nat))
    BY <2>1, Queued
  <2>3. rest' \in Seq(Nat)
    <3>1. Len(Head(queue[w])) \in Nat /\ TypeOf(w) \in Nat
      BY <2>2 DEF TypeOf, TypeControl, TypeOutput
    <3>2. <<TypeOf(w), Len(Head(queue[w]))>> \in Seq(Nat)
      BY <3>1
    <3>3. Encoded(Frame(TypeOf(w), Head(queue[w]))) = <<TypeOf(w), Len(Head(queue[w]))>> \o Head(queue[w])
      BY DEF Encoded, Frame
    <3> QED
      BY <1>1, <2>2, <3>2, <3>3, ConcatProperties DEF LockToWrite
  <2>4. queue' \in [Writers -> Seq(Seq(Nat))]
    BY <1>1, <2>2 DEF LockToWrite
  <2> QED
    BY <1>1, <2>3, <2>4 DEF LockToWrite, received
<1>2. CASE WriteBytes
  <2>1. CASE up
    <3>1. PICK n \in 1 .. Len(rest) :
            socket' = socket \o SubSeq(rest, 1, n) /\ rest' = SubSeq(rest, n + 1, Len(rest))
      BY <1>2, <2>1 DEF WriteBytes
    <3>2. Len(rest) \in Nat /\ n \in Nat /\ n <= Len(rest) /\ 0 + 1 = 1
      OBVIOUS
    <3>3. SubSeq(rest, 0 + 1, n) \in Seq(Nat) /\ SubSeq(rest, n + 1, Len(rest)) \in Seq(Nat)
      BY <3>2, CutOut
    <3>4. socket' \in Seq(Nat) /\ rest' \in Seq(Nat)
      BY <3>1, <3>2, <3>3, ConcatProperties
    <3> QED
      BY <1>2, <2>1, <3>4 DEF WriteBytes, received
  <2>2. CASE ~up
    <3>1. rest' = <<>> /\ queue' = IF holder = "stream" THEN [queue EXCEPT !["stream"] = <<>>] ELSE queue
      BY <1>2, <2>2 DEF WriteBytes
    <3>2. <<>> \in Seq(Nat) /\ <<>> \in Seq(Seq(Nat))
      OBVIOUS
    <3>3. [queue EXCEPT !["stream"] = <<>>] \in [Writers -> Seq(Seq(Nat))]
      BY <3>2
    <3>4. rest' \in Seq(Nat) /\ queue' \in [Writers -> Seq(Seq(Nat))]
      BY <3>1, <3>2, <3>3
    <3> QED
      BY <1>2, <2>2, <3>4 DEF WriteBytes, received
  <2> QED
    BY <2>1, <2>2
<1>3. CASE UnlockWriter
  BY <1>3 DEF UnlockWriter, received
<1>4. CASE ReadFrame
  <2> DEFINE end == headerLen + socket[2]
             payload == SubSeq(socket, headerLen + 1, end)
  <2>1. end \in Nat /\ Len(socket) \in Nat /\ end <= Len(socket) /\ 2 <= end
    <3>1. Len(socket) \in Nat /\ Len(socket) >= 2 /\ 2 + socket[2] <= Len(socket)
      BY <1>4 DEF ReadFrame, FrameReady, headerLen
    <3>2. 2 \in 1 .. Len(socket)
      BY <3>1
    <3>3. socket[2] \in Nat
      BY <3>2
    <3> QED
      BY <3>1, <3>3 DEF headerLen
  <2>2. payload \in Seq(Nat) /\ SubSeq(socket, end + 1, Len(socket)) \in Seq(Nat)
    <3>1. payload = SubSeq(socket, 2 + 1, end) /\ 2 \in Nat
      BY DEF headerLen
    <3> HIDE DEF payload, end
    <3>2. SubSeq(socket, 2 + 1, end) \in Seq(Nat)
      BY <2>1, <3>1, CutOut
    <3>3. SubSeq(socket, end + 1, Len(socket)) \in Seq(Nat)
      BY <2>1, CutOut
    <3> QED
      BY <3>1, <3>2, <3>3
  <2>3. /\ output' = IF socket[1] = TypeOutput THEN output \o payload ELSE output
        /\ controls' = IF socket[1] = TypeControl THEN Append(controls, payload) ELSE controls
        /\ strays' = (strays \/ socket[1] \notin {TypeControl, TypeOutput})
        /\ socket' = SubSeq(socket, end + 1, Len(socket))
    BY <1>4 DEF ReadFrame
  <2> HIDE DEF end, payload
  <2>4. output' \in Seq(Nat) /\ controls' \in Seq(Seq(Nat)) /\ strays' \in BOOLEAN /\ socket' \in Seq(Nat)
    BY <2>2, <2>3, ConcatProperties, AppendProperties
  <2> QED
    BY <1>4, <2>4 DEF ReadFrame
<1>5. CASE ConnectionCut
  BY <1>5 DEF ConnectionCut, received
<1>6. CASE UNCHANGED wireVars
  BY <1>6 DEF wireVars, received
<1> QED
  BY <1>1, <1>2, <1>3, <1>4, <1>5, <1>6 DEF WireNext

\* What was sent depends on the replay alone.
LEMMA SameFrames ==
    ASSUME replay' = replay,
           NEW ends, NEW n, NEW frames, NEW starts, NEW parts, NEW texts, NEW written,
           Cuts(ends), Sent(n, frames, starts, parts, texts), Wrote(n, frames, starts, written)
    PROVE  Cuts(ends)' /\ Sent(n, frames, starts, parts, texts)' /\ Wrote(n, frames, starts, written)'
<1>1. Pieces' = Pieces /\ Whole' = Whole
  BY DEF Pieces, Whole
<1>2. Cuts(ends)'
  BY <1>1 DEF Cuts
<1>3. Sent(n, frames, starts, parts, texts)'
  BY <1>1 DEF Sent
<1>4. Wrote(n, frames, starts, written)'
  BY DEF Wrote
<1> QED
  BY <1>2, <1>3, <1>4

\* The same frames serve after the step.
LEMMA FramingSame ==
    ASSUME NEW ends, NEW n, NEW frames, NEW starts, NEW parts, NEW texts, NEW written, NEW next,
           Cuts(ends), Sent(n, frames, starts, parts, texts), Wrote(n, frames, starts, written),
           replay' = replay,
           Heard(n, starts, parts, texts, written, next, ends)',
           Complete(n, starts, parts, texts, written, next)'
    PROVE  Framing'
<1>1. Cuts(ends)' /\ Sent(n, frames, starts, parts, texts)' /\ Wrote(n, frames, starts, written)'
  BY SameFrames
<1> QED
  BY <1>1 DEF Framing

\* One more frame is sent.
LEMMA LockFrames ==
    ASSUME WireInv, NEW w \in Writers, LockToWrite(w) PROVE Framing' /\ Waiting'
<1> USE DEF WireInv
<1>1. PICK ends, n, frames, starts, parts, texts, written, next :
        /\ Cuts(ends)
        /\ Sent(n, frames, starts, parts, texts)
        /\ Wrote(n, frames, starts, written)
        /\ Heard(n, starts, parts, texts, written, next, ends)
        /\ Complete(n, starts, parts, texts, written, next)
  BY DEF Framing
<1>2. /\ queue \in [Writers -> Seq(Bytes)] /\ replay \in Bytes /\ rest \in Bytes /\ socket \in Bytes
      /\ queue[w] \in Seq(Bytes)
  BY DEF WireTypeOK, Bytes
<1>3. /\ queue[w] # <<>> /\ holder = "none" /\ holder' = w /\ w # "none"
      /\ rest' = Encoded(Frame(TypeOf(w), Head(queue[w])))
      /\ queue' = [queue EXCEPT ![w] = Tail(@)]
      /\ replay' = replay /\ socket' = socket /\ up' = up
      /\ output' = output /\ controls' = controls /\ strays' = strays
  BY DEF LockToWrite, received, Writers
<1> DEFINE q == queue[w]
           f == Frame(TypeOf(w), Head(q))
<1>4. /\ Head(q) \in Bytes /\ Head(q) = q[1] /\ Tail(q) \in Seq(Bytes) /\ Len(Tail(q)) = Len(q) - 1
      /\ Len(q) \in Nat /\ Len(q) >= 1
      /\ \A T : (\A i \in DOMAIN q : q[i] \in T) => Head(q) \in T /\ \A i \in DOMAIN Tail(q) : Tail(q)[i] \in T
  BY <1>2, <1>3, Queued
<1>5. queue'[w] = Tail(q) /\ \A v \in Writers : v # w => queue'[v] = queue[v]
  BY <1>2, <1>3
<1>6. f.Type = TypeOf(w) /\ f.Payload = Head(q) /\ f \in [Type : {TypeControl, TypeOutput}, Payload : Bytes]
  BY <1>4 DEF Frame, TypeOf
<1>7. w \in {"reply", "broadcast"} => Head(q) \in Messages /\ \A i \in DOMAIN Tail(q) : Tail(q)[i] \in Messages
  BY <1>4 DEF Waiting
<1>8. Waiting'
  <2>1. ASSUME NEW v \in {"reply", "broadcast"} PROVE \A i \in DOMAIN queue'[v] : queue'[v][i] \in Messages
    <3>1. CASE v = w
      BY <1>5, <1>7, <3>1
    <3>2. CASE v # w
      BY <1>5, <3>2 DEF Waiting, Writers
    <3> QED
      BY <3>1, <3>2
  <2> QED
    BY <1>3, <2>1 DEF Waiting
<1> HIDE DEF f, q
<1>9. Framing'
  <2>1. CASE ~up
    <3>1. Heard(n, starts, parts, texts, written, next, ends)'
      BY <1>1, <1>3 DEF Heard, Whole
    <3>2. Complete(n, starts, parts, texts, written, next)'
      BY <1>3, <2>1 DEF Complete
    <3> QED
      BY <1>1, <1>3, <3>1, <3>2, FramingSame
  <2>2. CASE up
    <3>1. Pieces \in Seq(Bytes) /\ Len(Pieces) \in Nat
      BY <1>2, PiecesFit
    <3>2. /\ n \in Nat /\ next \in 1 .. n + 1 /\ n + 1 \in 1 .. n + 1 /\ starts[next] \in Nat /\ starts[n + 1] \in Nat
          /\ parts[n + 1] \in Nat /\ texts[n + 1] \in Nat /\ Len(written) \in Nat /\ Len(socket) \in Nat
      BY <1>1, <1>2 DEF Sent, Heard, Wrote, Bytes
    <3>3. rest = <<>> /\ Len(rest) = 0
      BY <1>3 DEF Waiting
    <3>4. f.Type = TypeControl => f.Payload \in Messages
      BY <1>6, <1>7 DEF TypeOf, Writers, TypeControl, TypeOutput
    <3>5. w = "stream" =>
            /\ parts[n + 1] + 1 <= Len(Pieces) /\ Head(q) = Pieces[parts[n + 1] + 1]
            /\ Tail(q) = SubSeq(Pieces, parts[n + 1] + 1 + 1, Len(Pieces))
      <4> SUFFICES ASSUME w = "stream"
                   PROVE  /\ parts[n + 1] + 1 <= Len(Pieces) /\ Head(q) = Pieces[parts[n + 1] + 1]
                          /\ Tail(q) = SubSeq(Pieces, parts[n + 1] + 1 + 1, Len(Pieces))
        OBVIOUS
      <4>1. q = SubSeq(Pieces, parts[n + 1] + 1, Len(Pieces))
        BY <1>1, <2>2 DEF Complete, q
      <4>2. parts[n + 1] + 1 <= Len(Pieces)
        <5>1. SUFFICES ASSUME Len(Pieces) < parts[n + 1] + 1 PROVE FALSE
          BY <3>1, <3>2
        <5>2. q = <<>>
          BY <3>1, <3>2, <4>1, <5>1, SubSeqEmpty
        <5> QED
          BY <1>3, <5>2 DEF q
      <4>3. parts[n + 1] + 1 \in 1 .. Len(Pieces) /\ Len(Pieces) \in parts[n + 1] + 1 .. Len(Pieces)
        BY <3>1, <3>2, <4>2
      <4> QED
        BY <3>1, <4>1, <4>2, <4>3, HeadTailOfSubSeq
    <3>6. f.Type = TypeOutput => w = "stream"
      BY <1>6 DEF TypeOf, TypeControl, TypeOutput
    <3>7. f.Type = TypeOutput => parts[n + 1] + 1 <= Len(Pieces) /\ f.Payload = Pieces[parts[n + 1] + 1]
      BY <1>6, <3>5, <3>6
    <3>8. PICK frames2, starts2, parts2, texts2 :
             /\ Sent(n + 1, frames2, starts2, parts2, texts2)
             /\ Wrote(n + 1, frames2, starts2, written \o Encoded(f))
             /\ \A i \in 1 .. n + 1 : starts2[i] = starts[i] /\ parts2[i] = parts[i] /\ texts2[i] = texts[i]
             /\ texts2[n + 1 + 1] = texts[n + 1] + IsControl(f)
             /\ parts2[n + 1 + 1] = parts[n + 1] + 1 - IsControl(f)
             /\ Len(written \o Encoded(f)) = Len(written) + Len(Encoded(f))
             /\ \A j \in 1 .. Len(written) : (written \o Encoded(f))[j] = written[j]
             /\ \A j \in 1 .. Len(Encoded(f)) : (written \o Encoded(f))[Len(written) + j] = Encoded(f)[j]
             /\ Encoded(f) \in Bytes /\ Len(Encoded(f)) \in Nat
      BY <1>1, <1>6, <3>1, <3>4, <3>7, FrameSent
    <3>0. PICK more : more = written \o Encoded(f)
      OBVIOUS
    <3>9. rest' = Encoded(f)
      BY <1>3 DEF f, q
    <3>10. /\ Len(more) = Len(written) + Len(rest') /\ Len(rest') \in Nat
           /\ \A j \in 1 .. Len(written) : more[j] = written[j]
           /\ \A j \in 1 .. Len(rest') : more[Len(written) + j] = rest'[j]
      BY <3>0, <3>8, <3>9
    <3>11. starts2[next] = starts[next] /\ parts2[next] = parts[next] /\ texts2[next] = texts[next]
      BY <3>2, <3>8
    <3>12. starts[next] + Len(socket) = Len(written)
      BY <1>1, <2>2, <3>2, <3>3 DEF Complete
    <3>13. Heard(n + 1, starts2, parts2, texts2, more, next, ends)'
      <4>1. next \in 1 .. n + 1 + 1
        BY <3>2
      <4>2. starts2[next] + Len(socket) <= Len(more)
        BY <3>2, <3>10, <3>11, <3>12
      <4>3. \A j \in 1 .. Len(socket) : socket[j] = more[starts2[next] + j]
        <5> SUFFICES ASSUME NEW j \in 1 .. Len(socket) PROVE socket[j] = more[starts2[next] + j]
          OBVIOUS
        <5>1. starts[next] + j \in 1 .. Len(written)
          BY <3>2, <3>12
        <5>2. socket[j] = written[starts[next] + j]
          BY <1>1 DEF Heard
        <5> QED
          BY <3>10, <3>11, <5>1, <5>2
      <4>4. Len(controls) = texts2[next] /\ output = SubSeq(Whole, 1, ends[parts2[next]])
        BY <1>1, <3>11 DEF Heard
      <4> QED
        BY <1>3, <4>1, <4>2, <4>3, <4>4 DEF Heard, Whole
    <3>14. Complete(n + 1, starts2, parts2, texts2, more, next)'
      <4>1. starts2[next] + Len(socket) + Len(rest') = Len(more)
        BY <3>10, <3>11, <3>12
      <4>2. ASSUME NEW j \in 1 .. Len(rest') PROVE rest'[j] = more[Len(more) - Len(rest') + j]
        <5>1. Len(more) - Len(rest') = Len(written)
          BY <3>2, <3>10
        <5> QED
          BY <3>10, <5>1
      <4>3. queue'["stream"] = SubSeq(Pieces, parts2[n + 1 + 1] + 1, Len(Pieces))
        <5>1. CASE w = "stream"
          <6>1. IsControl(f) = 0
            BY <1>6, <5>1 DEF IsControl, TypeOf, TypeControl, TypeOutput
          <6>2. parts2[n + 1 + 1] = parts[n + 1] + 1
            BY <3>2, <3>8, <6>1
          <6> QED
            BY <1>5, <3>5, <5>1, <6>2
        <5>2. CASE w # "stream"
          <6>1. IsControl(f) = 1
            BY <1>6, <5>2 DEF IsControl, TypeOf, TypeControl, TypeOutput
          <6>2. parts2[n + 1 + 1] = parts[n + 1]
            BY <3>2, <3>8, <6>1
          <6>3. queue'["stream"] = queue["stream"]
            BY <1>5, <5>2 DEF Writers
          <6> QED
            BY <1>1, <2>2, <6>2, <6>3 DEF Complete
        <5> QED
          BY <5>1, <5>2
      <4>4. texts2[n + 1 + 1] + Len(queue'["reply"]) + Len(queue'["broadcast"]) = 3
        <5>1. /\ texts[n + 1] + Len(queue["reply"]) + Len(queue["broadcast"]) = 3
              /\ Len(queue["reply"]) \in Nat /\ Len(queue["broadcast"]) \in Nat
          BY <1>1, <1>2, <2>2 DEF Complete, Writers
        <5>2. CASE w = "stream"
          <6>1. IsControl(f) = 0
            BY <1>6, <5>2 DEF IsControl, TypeOf, TypeControl, TypeOutput
          <6>2. queue'["reply"] = queue["reply"] /\ queue'["broadcast"] = queue["broadcast"]
            BY <1>5, <5>2 DEF Writers
          <6>3. texts2[n + 1 + 1] = texts[n + 1]
            BY <3>2, <3>8, <6>1
          <6> QED
            BY <5>1, <6>2, <6>3
        <5>3. CASE w # "stream"
          <6>1. IsControl(f) = 1
            BY <1>6, <5>3 DEF IsControl, TypeOf, TypeControl, TypeOutput
          <6>2. texts2[n + 1 + 1] = texts[n + 1] + 1
            BY <3>8, <6>1
          <6>3. w = "reply" \/ w = "broadcast"
            BY <5>3 DEF Writers
          <6>4. CASE w = "reply"
            <7>1. queue'["broadcast"] = queue["broadcast"] /\ Len(queue'["reply"]) = Len(queue["reply"]) - 1
              BY <1>4, <1>5, <6>4 DEF Writers, q
            <7>2. Len(queue'["reply"]) + Len(queue'["broadcast"]) = Len(queue["reply"]) + Len(queue["broadcast"]) - 1
              BY <5>1, <7>1
            <7>3. Len(queue'["reply"]) \in Int /\ Len(queue'["broadcast"]) \in Int
              BY <5>1, <7>1
            <7>4. (texts[n + 1] + 1) + Len(queue'["reply"]) + Len(queue'["broadcast"]) = 3
              <8>1. PICK t, a, b, c, d :
                      /\ t = texts[n + 1] /\ a = Len(queue["reply"]) /\ b = Len(queue["broadcast"])
                      /\ c = Len(queue'["reply"]) /\ d = Len(queue'["broadcast"])
                OBVIOUS
              <8>2. t \in Nat /\ a \in Nat /\ b \in Nat /\ t + a + b = 3
                BY <3>2, <5>1, <8>1
              <8>3. c \in Int /\ d \in Int /\ c + d = a + b - 1
                BY <7>2, <7>3, <8>1
              <8>4. (t + 1) + c + d = 3
                BY <8>2, <8>3
              <8> QED
                BY <8>1, <8>4
            <7> QED
              BY <6>2, <7>4
          <6>5. CASE w = "broadcast"
            <7>1. queue'["reply"] = queue["reply"] /\ Len(queue'["broadcast"]) = Len(queue["broadcast"]) - 1
              BY <1>4, <1>5, <6>5 DEF Writers, q
            <7>2. Len(queue'["reply"]) + Len(queue'["broadcast"]) = Len(queue["reply"]) + Len(queue["broadcast"]) - 1
              BY <5>1, <7>1
            <7>3. Len(queue'["reply"]) \in Int /\ Len(queue'["broadcast"]) \in Int
              BY <5>1, <7>1
            <7>4. (texts[n + 1] + 1) + Len(queue'["reply"]) + Len(queue'["broadcast"]) = 3
              <8>1. PICK t, a, b, c, d :
                      /\ t = texts[n + 1] /\ a = Len(queue["reply"]) /\ b = Len(queue["broadcast"])
                      /\ c = Len(queue'["reply"]) /\ d = Len(queue'["broadcast"])
                OBVIOUS
              <8>2. t \in Nat /\ a \in Nat /\ b \in Nat /\ t + a + b = 3
                BY <3>2, <5>1, <8>1
              <8>3. c \in Int /\ d \in Int /\ c + d = a + b - 1
                BY <7>2, <7>3, <8>1
              <8>4. (t + 1) + c + d = 3
                BY <8>2, <8>3
              <8> QED
                BY <8>1, <8>4
            <7> QED
              BY <6>2, <7>4
          <6> QED
            BY <6>3, <6>4, <6>5
        <5> QED
          BY <5>2, <5>3
      <4> QED
        BY <1>3, <4>1, <4>2, <4>3, <4>4 DEF Complete, Pieces
    <3>15. Wrote(n + 1, frames2, starts2, more)
      BY <3>0, <3>8
    <3> QED
      BY <1>1, <1>3, <3>8, <3>13, <3>14, <3>15, FramingSame
  <2> QED
    BY <2>1, <2>2
<1> QED
  BY <1>8, <1>9

\* Bytes move from the writer to the socket.
LEMMA WriteFrames == ASSUME WireInv, WriteBytes PROVE Framing' /\ Waiting'
<1> USE DEF WireInv
<1>1. PICK ends, n, frames, starts, parts, texts, written, next :
        /\ Cuts(ends)
        /\ Sent(n, frames, starts, parts, texts)
        /\ Wrote(n, frames, starts, written)
        /\ Heard(n, starts, parts, texts, written, next, ends)
        /\ Complete(n, starts, parts, texts, written, next)
  BY DEF Framing
<1>2. /\ queue \in [Writers -> Seq(Bytes)] /\ rest \in Bytes /\ socket \in Bytes
  BY DEF WireTypeOK, Bytes
<1>3. /\ holder # "none" /\ holder' = holder /\ rest # <<>>
      /\ replay' = replay /\ up' = up /\ output' = output /\ controls' = controls /\ strays' = strays
  BY DEF WriteBytes, received
<1>4. \A v \in {"reply", "broadcast"} : queue'[v] = queue[v]
  <2>1. queue' = queue \/ queue' = [queue EXCEPT !["stream"] = <<>>]
    BY DEF WriteBytes
  <2> QED
    BY <1>2, <2>1 DEF Writers
<1>5. Waiting'
  BY <1>3, <1>4 DEF Waiting
<1>6. Framing'
  <2>1. CASE ~up
    <3>1. socket' = socket
      BY <2>1 DEF WriteBytes
    <3>2. Heard(n, starts, parts, texts, written, next, ends)'
      BY <1>1, <1>3, <3>1 DEF Heard, Whole
    <3>3. Complete(n, starts, parts, texts, written, next)'
      BY <1>3, <2>1 DEF Complete
    <3> QED
      BY <1>1, <1>3, <3>2, <3>3, FramingSame
  <2>2. CASE up
    <3>1. PICK k \in 1 .. Len(rest) :
            socket' = socket \o SubSeq(rest, 1, k) /\ rest' = SubSeq(rest, k + 1, Len(rest))
      BY <2>2 DEF WriteBytes
    <3>2. queue' = queue
      BY <2>2 DEF WriteBytes
    <3>3. /\ rest \in Seq(Nat) /\ socket \in Seq(Nat) /\ Len(rest) \in Nat /\ Len(socket) \in Nat
          /\ k \in Nat /\ 1 <= k /\ k <= Len(rest)
      BY <1>2 DEF Bytes
    <3>4. /\ n \in Nat /\ next \in 1 .. n + 1 /\ starts[next] \in Nat /\ Len(written) \in Nat
      BY <1>1 DEF Sent, Heard, Wrote, Bytes
    <3> DEFINE part == SubSeq(rest, 1, k)
    <3>5. part \in Seq(Nat) /\ Len(part) = k /\ \A j \in 1 .. k : part[j] = rest[j]
      <4>1. /\ SubSeq(rest, 0 + 1, k) \in Seq(Nat) /\ Len(SubSeq(rest, 0 + 1, k)) = k - 0
            /\ \A j \in 1 .. k - 0 : SubSeq(rest, 0 + 1, k)[j] = rest[0 + j]
        BY <3>3, CutOut
      <4>2. 0 + 1 = 1 /\ k - 0 = k /\ \A j \in 1 .. k : 0 + j = j
        BY <3>3
      <4> QED
        BY <4>1, <4>2
    <3> HIDE DEF part
    <3>6. /\ rest' \in Seq(Nat) /\ Len(rest') = Len(rest) - k
          /\ \A j \in 1 .. Len(rest) - k : rest'[j] = rest[k + j]
      BY <3>1, <3>3, CutOut
    <3>7. /\ Len(socket') = Len(socket) + k
          /\ \A i \in 1 .. Len(socket) : socket'[i] = socket[i]
          /\ \A j \in 1 .. k : socket'[Len(socket) + j] = part[j]
      <4>1. socket' = socket \o part
        BY <3>1 DEF part
      <4>2. /\ Len(socket \o part) = Len(socket) + Len(part)
            /\ \A i \in 1 .. Len(socket) : (socket \o part)[i] = socket[i]
            /\ \A j \in 1 .. Len(part) : (socket \o part)[Len(socket) + j] = part[j]
        <5>1. socket \in Seq(Nat) /\ part \in Seq(Nat)
          BY <3>3, <3>5
        <5> QED
          BY <5>1, Joined
      <4> QED
        BY <3>5, <4>1, <4>2
    <3>8. /\ starts[next] + Len(socket) + Len(rest) = Len(written)
          /\ \A j \in 1 .. Len(rest) : rest[j] = written[Len(written) - Len(rest) + j]
      BY <1>1, <2>2 DEF Complete
    <3>9. Heard(n, starts, parts, texts, written, next, ends)'
      <4>1. starts[next] + Len(socket') <= Len(written)
        BY <3>3, <3>4, <3>7, <3>8
      <4>2. ASSUME NEW j \in 1 .. Len(socket') PROVE socket'[j] = written[starts[next] + j]
        <5>1. CASE j \in 1 .. Len(socket)
          BY <1>1, <3>7, <5>1 DEF Heard
        <5>2. CASE ~(j \in 1 .. Len(socket))
          <6>1. PICK i \in 1 .. k : j = Len(socket) + i
            <7>1. j - Len(socket) \in 1 .. k /\ j = Len(socket) + (j - Len(socket))
              BY <3>3, <3>7, <5>2
            <7> QED
              BY <7>1
          <6>2. socket'[j] = rest[i]
            BY <3>5, <3>7, <6>1
          <6>3. i \in 1 .. Len(rest) /\ Len(written) - Len(rest) + i = starts[next] + j
            <7>1. PICK s, l, r, z : s = starts[next] /\ l = Len(socket) /\ r = Len(rest) /\ z = Len(written)
              OBVIOUS
            <7>2. s \in Nat /\ l \in Nat /\ r \in Nat /\ z \in Nat /\ s + l + r = z /\ k <= r /\ j = l + i
              BY <3>3, <3>4, <3>8, <6>1, <7>1
            <7>3. i \in 1 .. r /\ z - r + i = s + j
              BY <3>3, <7>2
            <7> QED
              BY <7>1, <7>3
          <6> QED
            BY <3>8, <6>2, <6>3
        <5> QED
          BY <5>1, <5>2
      <4> QED
        BY <1>1, <1>3, <4>1, <4>2 DEF Heard, Whole
    <3>10. Complete(n, starts, parts, texts, written, next)'
      <4>1. starts[next] + Len(socket') + Len(rest') = Len(written)
        <5>1. PICK s, l, r, z : s = starts[next] /\ l = Len(socket) /\ r = Len(rest) /\ z = Len(written)
          OBVIOUS
        <5>2. s \in Nat /\ l \in Nat /\ r \in Nat /\ z \in Nat /\ s + l + r = z
          BY <3>3, <3>4, <3>8, <5>1
        <5>3. s + (l + k) + (r - k) = z
          BY <3>3, <5>2
        <5> QED
          BY <3>6, <3>7, <5>1, <5>3
      <4>2. ASSUME NEW j \in 1 .. Len(rest') PROVE rest'[j] = written[Len(written) - Len(rest') + j]
        <5>1. /\ j \in 1 .. Len(rest) - k /\ k + j \in 1 .. Len(rest)
              /\ Len(written) - Len(rest) + (k + j) = Len(written) - Len(rest') + j
          BY <3>3, <3>4, <3>6
        <5> QED
          BY <3>6, <3>8, <5>1
      <4>3. /\ queue'["stream"] = SubSeq(Pieces, parts[n + 1] + 1, Len(Pieces))
            /\ texts[n + 1] + Len(queue'["reply"]) + Len(queue'["broadcast"]) = 3
        BY <1>1, <2>2, <3>2 DEF Complete
      <4> QED
        BY <1>3, <4>1, <4>2, <4>3 DEF Complete, Pieces
    <3> QED
      BY <1>1, <1>3, <3>9, <3>10, FramingSame
  <2> QED
    BY <2>1, <2>2
<1> QED
  BY <1>5, <1>6

\* Steps that move no byte.
LEMMA QuietFrames ==
    ASSUME WireInv, UnlockWriter \/ ConnectionCut \/ UNCHANGED wireVars PROVE Framing' /\ Waiting'
<1> USE DEF WireInv
<1>1. PICK ends, n, frames, starts, parts, texts, written, next :
        /\ Cuts(ends)
        /\ Sent(n, frames, starts, parts, texts)
        /\ Wrote(n, frames, starts, written)
        /\ Heard(n, starts, parts, texts, written, next, ends)
        /\ Complete(n, starts, parts, texts, written, next)
  BY DEF Framing
<1>2. /\ replay' = replay /\ queue' = queue /\ rest' = rest /\ socket' = socket
      /\ output' = output /\ controls' = controls /\ strays' = strays
      /\ up' = up \/ up' = FALSE
      /\ holder' = "none" => rest = <<>>
  BY DEF UnlockWriter, ConnectionCut, wireVars, received, Waiting
<1>3. Waiting'
  BY <1>2 DEF Waiting
<1>4. Heard(n, starts, parts, texts, written, next, ends)'
  BY <1>1, <1>2 DEF Heard, Whole
<1>5. Complete(n, starts, parts, texts, written, next)'
  BY <1>1, <1>2 DEF Complete, Pieces
<1> QED
  BY <1>1, <1>2, <1>3, <1>4, <1>5, FramingSame

\* A frame that can be read is the next one, whole.
LEMMA NextFrame ==
    ASSUME WireTypeOK, FrameReady,
           NEW ends, NEW n, NEW frames, NEW starts, NEW parts, NEW texts, NEW written, NEW next,
           Sent(n, frames, starts, parts, texts), Wrote(n, frames, starts, written),
           Heard(n, starts, parts, texts, written, next, ends)
    PROVE  /\ next \in 1 .. n /\ next + 1 \in 1 .. n + 1
           /\ socket[1] = frames[next].Type
           /\ 2 + socket[2] \in Nat /\ 2 + socket[2] <= Len(socket)
           /\ SubSeq(socket, 2 + 1, 2 + socket[2]) = frames[next].Payload
           /\ starts[next + 1] = starts[next] + (2 + socket[2])
<1> DEFINE a == starts[next]
           l == Len(socket)
           m == Len(frames[next].Payload)
<1>1. /\ l \in Nat /\ l >= 2 /\ 2 + socket[2] <= l /\ socket \in Bytes
  BY DEF WireTypeOK, FrameReady, headerLen, Bytes
<1>2. /\ n \in Nat /\ next \in 1 .. n + 1 /\ n + 1 \in 1 .. n + 1 /\ a \in Nat /\ starts[n + 1] \in Nat
      /\ a + l <= Len(written) /\ Len(written) = starts[n + 1]
      /\ \A j \in 1 .. l : socket[j] = written[a + j]
  BY DEF Sent, Wrote, Heard
<1>3. next \in 1 .. n /\ next + 1 \in 1 .. n + 1
  <2>1. next # n + 1
    <3>1. SUFFICES ASSUME next = n + 1 PROVE FALSE
      OBVIOUS
    <3>2. a = starts[n + 1]
      BY <3>1
    <3> HIDE DEF a, l
    <3> QED
      BY <1>1, <1>2, <3>2
  <2> QED
    BY <1>2, <2>1
<1>4. /\ frames[next].Payload \in Bytes /\ m \in Nat
      /\ starts[next + 1] = a + 2 + m
      /\ written[a + 1] = frames[next].Type /\ written[a + 2] = m
      /\ \A j \in 1 .. m : written[a + 2 + j] = frames[next].Payload[j]
  <2>1. frames[next] \in [Type : {TypeControl, TypeOutput}, Payload : Bytes]
    BY <1>3 DEF Sent
  <2>2. frames[next].Payload \in Bytes /\ m \in Nat
    BY <2>1 DEF Bytes
  <2>3. starts[next + 1] = a + 2 + m
    BY <1>3 DEF Sent
  <2>4. written[a + 1] = frames[next].Type /\ written[a + 2] = m
    BY <1>3 DEF Wrote
  <2>5. \A j \in 1 .. m : written[a + 2 + j] = frames[next].Payload[j]
    BY <1>3 DEF Wrote
  <2> QED
    BY <2>2, <2>3, <2>4, <2>5
<1>5. socket[1] = frames[next].Type /\ socket[2] = m
  <2>1. 1 \in 1 .. l /\ 2 \in 1 .. l
    BY <1>1
  <2> QED
    BY <1>2, <1>4, <2>1
<1> DEFINE payload == SubSeq(socket, 2 + 1, 2 + m)
<1> HIDE DEF a, l, m, payload
<1>6. 2 + m \in Nat /\ 2 + m <= l /\ 2 <= 2 + m
  BY <1>1, <1>4, <1>5
<1>7. payload \in Seq(Nat) /\ Len(payload) = m /\ \A j \in 1 .. m : payload[j] = socket[2 + j]
  <2> DEFINE e == 2 + m
  <2>1. e \in Nat /\ e <= Len(socket) /\ 2 <= e /\ 2 \in Nat /\ socket \in Seq(Nat)
    BY <1>1, <1>6 DEF Bytes, l
  <2> HIDE DEF e
  <2>2. /\ SubSeq(socket, 2 + 1, e) \in Seq(Nat) /\ Len(SubSeq(socket, 2 + 1, e)) = e - 2
        /\ \A j \in 1 .. e - 2 : SubSeq(socket, 2 + 1, e)[j] = socket[2 + j]
    BY <2>1, CutOut
  <2>3. payload = SubSeq(socket, 2 + 1, e)
    BY DEF payload, e
  <2>4. e - 2 = m
    BY <1>4 DEF e
  <2>5. payload \in Seq(Nat) /\ Len(payload) = e - 2 /\ \A j \in 1 .. e - 2 : payload[j] = socket[2 + j]
    BY <2>2, <2>3
  <2> QED
    BY <2>4, <2>5
<1>8. payload = frames[next].Payload
  <2>1. Len(payload) = m
    BY <1>4, <1>7
  <2>2. ASSUME NEW j \in 1 .. m PROVE payload[j] = frames[next].Payload[j]
    <3>1. 2 + j \in 1 .. l /\ a + (2 + j) = a + 2 + j
      BY <1>1, <1>2, <1>4, <1>6
    <3>2. payload[j] = written[a + (2 + j)]
      BY <1>2, <1>7, <3>1
    <3> QED
      BY <1>4, <3>1, <3>2
  <2> DEFINE sent == frames[next].Payload
  <2>3. sent \in Seq(Nat) /\ Len(sent) = m
    BY <1>4 DEF Bytes, m
  <2>4. \A j \in 1 .. Len(payload) : payload[j] = sent[j]
    BY <2>1, <2>2
  <2> HIDE DEF sent
  <2>5. payload = sent
    BY <1>7, <2>1, <2>3, <2>4, SeqEqual
  <2> QED
    BY <2>5 DEF sent
<1>9. starts[next + 1] = starts[next] + (2 + socket[2])
  <2>1. a + 2 + m = a + (2 + m)
    BY <1>2, <1>4
  <2> QED
    BY <1>4, <1>5, <2>1 DEF a
<1> QED
  BY <1>3, <1>5, <1>6, <1>8, <1>9 DEF payload, l

\* The next frame is heard.
LEMMA ReadFrames == ASSUME WireInv, ReadFrame PROVE Framing' /\ Waiting'
<1> USE DEF WireInv
<1>1. PICK ends, n, frames, starts, parts, texts, written, next :
        /\ Cuts(ends)
        /\ Sent(n, frames, starts, parts, texts)
        /\ Wrote(n, frames, starts, written)
        /\ Heard(n, starts, parts, texts, written, next, ends)
        /\ Complete(n, starts, parts, texts, written, next)
  BY DEF Framing
<1>2. FrameReady /\ replay' = replay /\ queue' = queue /\ holder' = holder /\ rest' = rest /\ up' = up
  BY DEF ReadFrame
<1>3. /\ socket \in Bytes /\ Len(socket) \in Nat /\ output \in Bytes /\ controls \in Seq(Bytes) /\ replay \in Bytes
      /\ strays \in BOOLEAN
  BY DEF WireTypeOK, Bytes
<1>4. Pieces \in Seq(Bytes) /\ Whole \in Bytes /\ Len(Whole) \in Nat /\ Len(Pieces) \in Nat
  BY <1>3, PiecesFit DEF Bytes
<1>5. /\ next \in 1 .. n /\ next + 1 \in 1 .. n + 1
      /\ socket[1] = frames[next].Type
      /\ 2 + socket[2] \in Nat /\ 2 + socket[2] <= Len(socket)
      /\ SubSeq(socket, 2 + 1, 2 + socket[2]) = frames[next].Payload
      /\ starts[next + 1] = starts[next] + (2 + socket[2])
  BY <1>1, <1>2, NextFrame
<1>6. PICK end, payload : end = 2 + socket[2] /\ payload = frames[next].Payload
  OBVIOUS
<1>7. /\ output' = IF socket[1] = TypeOutput THEN output \o payload ELSE output
      /\ controls' = IF socket[1] = TypeControl THEN Append(controls, payload) ELSE controls
      /\ strays' = (strays \/ socket[1] \notin {TypeControl, TypeOutput})
      /\ socket' = SubSeq(socket, end + 1, Len(socket))
  <2>1. end = headerLen + socket[2] /\ payload = SubSeq(socket, headerLen + 1, headerLen + socket[2])
    BY <1>5, <1>6 DEF headerLen
  <2> QED
    BY <2>1 DEF ReadFrame
<1>8. /\ socket[1] \in {TypeControl, TypeOutput} /\ payload \in Bytes
      /\ socket[1] = TypeControl => payload \in Messages
      /\ socket[1] = TypeOutput => parts[next] + 1 <= Len(Pieces) /\ payload = Pieces[parts[next] + 1]
      /\ texts[next + 1] = texts[next] + IsControl(frames[next])
      /\ parts[next + 1] = parts[next] + 1 - IsControl(frames[next])
      /\ parts[next] \in Nat /\ texts[next] \in Nat /\ parts[next] <= Len(Pieces)
  <2>1. frames[next] \in [Type : {TypeControl, TypeOutput}, Payload : Bytes] /\ next \in 1 .. n + 1
    BY <1>1, <1>5 DEF Sent
  <2>2. frames[next].Type \in {TypeControl, TypeOutput} /\ frames[next].Payload \in Bytes
    BY <2>1
  <2>3. /\ frames[next].Type = TypeControl => frames[next].Payload \in Messages
        /\ frames[next].Type = TypeOutput =>
              parts[next] + 1 <= Len(Pieces) /\ frames[next].Payload = Pieces[parts[next] + 1]
        /\ texts[next + 1] = texts[next] + IsControl(frames[next])
        /\ parts[next + 1] = parts[next] + 1 - IsControl(frames[next])
        /\ parts[next] \in Nat /\ texts[next] \in Nat /\ parts[next] <= Len(Pieces)
    BY <1>1, <1>5, <2>1 DEF Sent
  <2> QED
    BY <1>5, <1>6, <2>2, <2>3
<1>9. /\ end \in Nat /\ end <= Len(socket) /\ starts[next + 1] = starts[next] + end
      /\ starts[next] \in Nat /\ Len(written) \in Nat /\ starts[next] + Len(socket) <= Len(written)
      /\ \A j \in 1 .. Len(socket) : socket[j] = written[starts[next] + j]
  <2>1. end \in Nat /\ end <= Len(socket) /\ starts[next + 1] = starts[next] + end
    BY <1>5, <1>6
  <2>2. starts[next] \in Nat
    BY <1>1, <1>5 DEF Sent, Heard
  <2>3. Len(written) \in Nat
    BY <1>1 DEF Wrote, Bytes
  <2>4. /\ starts[next] + Len(socket) <= Len(written)
        /\ \A j \in 1 .. Len(socket) : socket[j] = written[starts[next] + j]
    BY <1>1 DEF Heard
  <2> QED
    BY <2>1, <2>2, <2>3, <2>4
<1>10. /\ socket' \in Seq(Nat) /\ Len(socket') = Len(socket) - end
       /\ \A j \in 1 .. Len(socket) - end : socket'[j] = socket[end + j]
  <2>1. PICK l : l = Len(socket)
    OBVIOUS
  <2>2. socket \in Seq(Nat) /\ l \in Nat /\ end \in Nat /\ end <= l /\ l <= Len(socket)
    BY <1>3, <1>9, <2>1 DEF Bytes
  <2>3. /\ SubSeq(socket, end + 1, l) \in Seq(Nat) /\ Len(SubSeq(socket, end + 1, l)) = l - end
        /\ \A j \in 1 .. l - end : SubSeq(socket, end + 1, l)[j] = socket[end + j]
    BY <2>2, CutOut
  <2> QED
    BY <1>7, <2>1, <2>3
<1>11. starts[next + 1] + Len(socket') = starts[next] + Len(socket)
  <2>1. PICK s, l : s = starts[next] /\ l = Len(socket)
    OBVIOUS
  <2>2. s \in Nat /\ l \in Nat /\ end \in Nat
    BY <1>3, <1>9, <2>1
  <2>3. s + end + (l - end) = s + l
    BY <2>2
  <2> QED
    BY <1>9, <1>10, <2>1, <2>3
<1>12. ASSUME NEW j \in 1 .. Len(socket') PROVE socket'[j] = written[starts[next + 1] + j]
  <2>1. PICK s, l : s = starts[next] /\ l = Len(socket)
    OBVIOUS
  <2>2. s \in Nat /\ l \in Nat /\ j \in 1 .. l - end
    BY <1>3, <1>9, <1>10, <2>1
  <2>3. end + j \in 1 .. l /\ s + (end + j) = s + end + j
    BY <1>9, <2>1, <2>2
  <2> QED
    BY <1>9, <1>10, <2>1, <2>2, <2>3
<1>13. /\ Len(controls') = texts[next + 1]
       /\ \A i \in DOMAIN controls' : controls'[i] \in Messages
  <2>1. Len(controls) = texts[next] /\ \A i \in DOMAIN controls : controls[i] \in Messages
    BY <1>1 DEF Heard, Waiting
  <2>2. CASE socket[1] = TypeControl
    <3>1. IsControl(frames[next]) = 1
      BY <1>5, <2>2 DEF IsControl
    <3>2. controls' = Append(controls, payload) /\ payload \in Messages
      BY <1>7, <1>8, <2>2
    <3>3. /\ Len(Append(controls, payload)) = Len(controls) + 1 /\ Append(controls, payload) \in Seq(Bytes)
          /\ \A i \in 1 .. Len(controls) : Append(controls, payload)[i] = controls[i]
          /\ Append(controls, payload)[Len(controls) + 1] = payload
      BY <1>3, <1>8, AppendProperties
    <3>4. DOMAIN controls = 1 .. Len(controls) /\ Len(controls) \in Nat /\ DOMAIN controls' = 1 .. Len(controls) + 1
      BY <1>3, <3>2, <3>3
    <3>5. ASSUME NEW i \in DOMAIN controls' PROVE controls'[i] \in Messages
      <4>1. i \in 1 .. Len(controls) \/ i = Len(controls) + 1
        BY <3>4
      <4> QED
        BY <2>1, <3>2, <3>3, <3>4, <4>1
    <3> QED
      BY <1>8, <2>1, <3>1, <3>2, <3>3, <3>5
  <2>3. CASE socket[1] # TypeControl
    <3>1. IsControl(frames[next]) = 0 /\ controls' = controls
      BY <1>5, <1>7, <2>3 DEF IsControl
    <3> QED
      BY <1>8, <2>1, <3>1
  <2> QED
    BY <2>2, <2>3
<1>14. output' = SubSeq(Whole, 1, ends[parts[next + 1]])
  <2>1. output = SubSeq(Whole, 1, ends[parts[next]])
    BY <1>1 DEF Heard
  <2>2. CASE socket[1] = TypeOutput
    <3>1. IsControl(frames[next]) = 0
      BY <1>5, <2>2 DEF IsControl, TypeControl, TypeOutput
    <3>2. PICK p : p = parts[next]
      OBVIOUS
    <3>3. p \in Nat /\ p + 1 <= Len(Pieces) /\ payload = Pieces[p + 1] /\ parts[next + 1] = p + 1
      BY <1>8, <2>2, <3>1, <3>2
    <3>4. p + 1 \in 1 .. Len(Pieces) /\ p + 1 - 1 = p /\ p \in 0 .. Len(Pieces) /\ p + 1 \in 0 .. Len(Pieces)
      BY <1>4, <3>3
    <3>5. /\ ends[p] \in Nat /\ ends[p + 1] \in Nat /\ ends[p] <= ends[p + 1] /\ ends[p + 1] <= Len(Whole)
          /\ Pieces[p + 1] = SubSeq(Whole, ends[p] + 1, ends[p + 1])
      <4>1. /\ ends[p + 1 - 1] <= ends[p + 1] /\ ends[p + 1] <= Len(Whole)
            /\ Pieces[p + 1] = SubSeq(Whole, ends[p + 1 - 1] + 1, ends[p + 1])
        BY <1>1, <3>4 DEF Cuts
      <4>2. ends[p] \in Nat /\ ends[p + 1] \in Nat
        BY <1>1, <3>4 DEF Cuts
      <4> QED
        BY <3>4, <4>1, <4>2
    <3>6. PICK x, y : x = ends[p] /\ y = ends[p + 1]
      OBVIOUS
    <3>7. 1 \in 1 .. Len(Whole) + 1 /\ x \in 1 - 1 .. Len(Whole) /\ y \in x .. Len(Whole)
      BY <1>4, <3>5, <3>6
    <3>8. SubSeq(Whole, 1, x) \o SubSeq(Whole, x + 1, y) = SubSeq(Whole, 1, y)
      BY <1>4, <3>7, ConcatAdjacentSubSeq DEF Bytes
    <3>9. output' = output \o payload
      BY <1>7, <2>2
    <3> QED
      BY <2>1, <3>2, <3>3, <3>5, <3>6, <3>8, <3>9
  <2>3. CASE socket[1] # TypeOutput
    <3>1. socket[1] = TypeControl
      BY <1>8, <2>3
    <3>2. IsControl(frames[next]) = 1
      BY <1>5, <3>1 DEF IsControl
    <3>3. parts[next + 1] = parts[next] /\ output' = output
      BY <1>7, <1>8, <2>3, <3>2
    <3> QED
      BY <2>1, <3>3
  <2> QED
    BY <2>2, <2>3
<1>15. Waiting'
  <2>1. ~strays'
    BY <1>3, <1>7, <1>8 DEF Waiting
  <2> QED
    BY <1>2, <1>13, <2>1 DEF Waiting
<1>16. PICK after : after = next + 1
  OBVIOUS
<1>17. Heard(n, starts, parts, texts, written, after, ends)'
  <2>1. starts[after] + Len(socket') <= Len(written)
    BY <1>9, <1>11, <1>16
  <2> QED
    BY <1>2, <1>5, <1>12, <1>13, <1>14, <1>16, <2>1 DEF Heard, Whole
<1>18. Complete(n, starts, parts, texts, written, after)'
  <2>1. CASE up
    <3>1. starts[after] + Len(socket') + Len(rest) = Len(written)
      BY <1>1, <1>11, <1>16, <2>1 DEF Complete
    <3> QED
      BY <1>1, <1>2, <2>1, <3>1 DEF Complete, Pieces
  <2>2. CASE ~up
    BY <1>2, <2>2 DEF Complete
  <2> QED
    BY <2>1, <2>2
<1> QED
  BY <1>1, <1>2, <1>15, <1>17, <1>18, FramingSame

\* Every step keeps the invariant.
LEMMA WireInductive == WireInv /\ [WireNext]_wireVars => WireInv'
<1> SUFFICES ASSUME WireInv, [WireNext]_wireVars PROVE WireInv'
  OBVIOUS
<1>1. WireTypeOK'
  BY WireTyped DEF WireInv
<1>2. Framing' /\ Waiting'
  <2>1. ASSUME NEW w \in Writers, LockToWrite(w) PROVE Framing' /\ Waiting'
    BY <2>1, LockFrames
  <2>2. CASE WriteBytes
    BY <2>2, WriteFrames
  <2>3. CASE ReadFrame
    BY <2>3, ReadFrames
  <2>4. CASE UnlockWriter \/ ConnectionCut \/ UNCHANGED wireVars
    BY <2>4, QuietFrames
  <2> QED
    BY <2>1, <2>2, <2>3, <2>4 DEF WireNext
<1> QED
  BY <1>1, <1>2 DEF WireInv

\* What is on the connection is, byte for byte, the rest of the frames that were sent.
THEOREM WireCorrect == WireSpec => []WireInv
<1>1. WireInit => WireInv
  BY WireAtFirst
<1>2. WireInv /\ [WireNext]_wireVars => WireInv'
  BY WireInductive
<1> QED
  BY <1>1, <1>2, PTL DEF WireSpec

\* It says what the receiver can rely on.
LEMMA WireSafe == WireInv => FramesIntact
<1> SUFFICES ASSUME WireInv PROVE FramesIntact
  OBVIOUS
<1> USE DEF WireInv
<1>1. PICK ends, n, frames, starts, parts, texts, written, next :
        /\ Cuts(ends)
        /\ Sent(n, frames, starts, parts, texts)
        /\ Wrote(n, frames, starts, written)
        /\ Heard(n, starts, parts, texts, written, next, ends)
        /\ Complete(n, starts, parts, texts, written, next)
  BY DEF Framing
<1>2. /\ socket \in Seq(Nat) /\ Len(socket) \in Nat /\ output \in Bytes /\ controls \in Seq(Bytes) /\ replay \in Bytes
      /\ Len(controls) \in Nat /\ DOMAIN controls = 1 .. Len(controls)
  BY DEF WireTypeOK, Bytes
<1>3. Pieces \in Seq(Bytes) /\ Whole \in Bytes /\ Len(Whole) \in Nat /\ Len(Pieces) \in Nat
  BY <1>2, PiecesFit DEF Bytes
<1>4. ~strays
  BY DEF Waiting
<1>5. ToSet(controls) \subseteq ToSet(Replies) \cup ToSet(Broadcasts)
  <2>1. Replies[1] = <<31, 32>> /\ Replies[2] = <<33>> /\ Broadcasts[1] = <<41>>
    BY DEF Replies, Broadcasts
  <2>2. 1 \in DOMAIN Replies /\ 2 \in DOMAIN Replies /\ 1 \in DOMAIN Broadcasts
    BY DEF Replies, Broadcasts
  <2>3. Messages \subseteq ToSet(Replies) \cup ToSet(Broadcasts)
    BY <2>1, <2>2 DEF Messages, ToSet
  <2> QED
    BY <2>3 DEF Waiting, ToSet
<1>6. ASSUME NEW k \in 0 .. Len(Pieces)
      PROVE  ends[k] \in Nat /\ ends[k] <= Len(Whole)
  <2>1. k = 0 \/ k \in 1 .. Len(Pieces)
    BY <1>3
  <2> QED
    BY <1>1, <1>3, <2>1 DEF Cuts
<1>7. next \in 1 .. n + 1 /\ parts[next] \in 0 .. Len(Pieces) /\ parts[n + 1] \in 0 .. Len(Pieces) /\ n + 1 \in 1 .. n + 1
  BY <1>1, <1>3 DEF Sent, Heard
<1>8. IsPrefix(output, Whole)
  <2>1. PICK x : x = ends[parts[next]]
    OBVIOUS
  <2>2. x \in Nat /\ x <= Len(Whole) /\ output = SubSeq(Whole, 1, x)
    BY <1>1, <1>6, <1>7, <2>1 DEF Heard
  <2>3. Len(SubSeq(Whole, 0 + 1, x)) = x - 0
    BY <1>3, <2>2, CutOut DEF Bytes
  <2>4. Len(output) = x
    BY <2>2, <2>3
  <2>5. SubSeq(output, 1, Len(output)) = output
    BY <1>2, SubSeqFull DEF Bytes
  <2> QED
    BY <2>2, <2>4, <2>5 DEF IsPrefix
<1>9. ASSUME up, holder = "none", \A w \in Writers : queue[w] = <<>>, ~FrameReady
      PROVE  socket = <<>> /\ output = Whole /\ Len(controls) = Len(Replies) + Len(Broadcasts)
  <2>1. rest = <<>> /\ Len(rest) = 0
    BY <1>9 DEF Waiting
  <2>2. starts[next] + Len(socket) = Len(written) /\ Len(written) = starts[n + 1] /\ starts[next] \in Nat
    <3>1. /\ starts[next] + Len(socket) + Len(rest) = Len(written) /\ Len(written) = starts[n + 1]
          /\ starts[next] \in Nat /\ Len(written) \in Nat
      BY <1>1, <1>7, <1>9 DEF Complete, Wrote, Sent, Bytes
    <3> QED
      BY <1>2, <2>1, <3>1
  <2>3. next = n + 1
    <3>1. SUFFICES ASSUME next # n + 1 PROVE FALSE
      OBVIOUS
    <3>2. next \in 1 .. n /\ next + 1 \in 1 .. n + 1
      BY <1>1, <1>7, <3>1 DEF Sent
    <3>3. PICK m : m = Len(frames[next].Payload)
      OBVIOUS
    <3>4. frames[next] \in [Type : {TypeControl, TypeOutput}, Payload : Bytes]
      BY <1>1, <3>2 DEF Sent
    <3>5. m \in Nat
      BY <3>3, <3>4 DEF Bytes
    <3>6. starts[next + 1] = starts[next] + 2 + m /\ starts[next + 1] <= starts[n + 1] /\ starts[n + 1] \in Nat
      BY <1>1, <1>7, <3>2, <3>3 DEF Sent
    <3>7. 2 + m <= Len(socket)
      <4>1. PICK s, z : s = starts[next] /\ z = starts[n + 1]
        OBVIOUS
      <4> QED
        BY <1>2, <2>2, <3>5, <3>6, <4>1
    <3>8. 2 \in 1 .. Len(socket)
      BY <1>2, <3>5, <3>7
    <3>9. socket[2] = m
      <4>1. socket[2] = written[starts[next] + 2]
        BY <1>1, <3>8 DEF Heard
      <4>2. written[starts[next] + 2] = m
        BY <1>1, <3>2, <3>3 DEF Wrote
      <4> QED
        BY <4>1, <4>2
    <3>10. FrameReady
      BY <1>2, <3>5, <3>7, <3>9 DEF FrameReady, headerLen
    <3> QED
      BY <1>9, <3>10
  <2>4. socket = <<>>
    <3>1. Len(socket) = 0
      BY <1>2, <2>2, <2>3
    <3> QED
      BY <1>2, <3>1
  <2>5. output = Whole
    <3>1. parts[n + 1] \in Nat /\ parts[n + 1] <= Len(Pieces)
      BY <1>3, <1>7
    <3>2. ~(parts[n + 1] + 1 <= Len(Pieces))
      <4>1. SUFFICES ASSUME parts[n + 1] + 1 <= Len(Pieces) PROVE FALSE
        OBVIOUS
      <4>2. queue["stream"] = <<>> /\ queue["stream"] = SubSeq(Pieces, parts[n + 1] + 1, Len(Pieces))
        BY <1>1, <1>9 DEF Complete, Writers
      <4>3. Len(SubSeq(Pieces, parts[n + 1] + 1, Len(Pieces))) = Len(Pieces) - parts[n + 1]
        BY <1>3, <3>1, CutOut
      <4>4. Len(<<>>) = 0
        OBVIOUS
      <4> QED
        BY <1>3, <3>1, <4>1, <4>2, <4>3, <4>4
    <3>3. parts[n + 1] = Len(Pieces)
      BY <1>3, <3>1, <3>2
    <3>4. output = SubSeq(Whole, 1, Len(Whole))
      BY <1>1, <2>3, <3>3 DEF Heard, Cuts
    <3> QED
      BY <1>3, <3>4, SubSeqFull DEF Bytes
  <2>6. Len(controls) = 3
    <3>1. Len(controls) = texts[n + 1] /\ texts[n + 1] + Len(queue["reply"]) + Len(queue["broadcast"]) = 3
      BY <1>1, <1>9, <2>3 DEF Heard, Complete
    <3>2. Len(queue["reply"]) = 0 /\ Len(queue["broadcast"]) = 0
      <4>1. Len(<<>>) = 0
        OBVIOUS
      <4> QED
        BY <1>9, <4>1 DEF Writers
    <3> QED
      BY <1>2, <3>1, <3>2
  <2>7. Len(Replies) + Len(Broadcasts) = 3
    BY DEF Replies, Broadcasts
  <2> QED
    BY <2>4, <2>5, <2>6, <2>7
<1> QED
  BY <1>4, <1>5, <1>8, <1>9 DEF FramesIntact, Whole

\* "their writes must not interleave": in whatever order the replies, the stream and
\* the broadcasts get the lock, however the kernel cuts up their writes and wherever
\* the connection ends, the receiver hears whole control messages and a prefix of
\* replay and live output, for every size of replay and every limit of a frame.
THEOREM FramesStayWhole == WireSpec => []FramesIntact
<1>1. WireInv => FramesIntact
  BY WireSafe
<1> QED
  BY <1>1, WireCorrect, PTL

--------------------------------------------------------------------------------
(* The private modes.                                                              *)

Modes == Seq(Digits) \ {<<>>}

Terminals == [on : SUBSET Modes, pending : Seq(Characters)]

\* What a sequence may go on with, its [ apart.
Goes == Digits \cup {";", "?"}

\* A sequence begun at i of s is still open after q.
Open(s, i, q) ==
    /\ i \in 1 .. q /\ s[i] = "esc"
    /\ \A k \in i + 1 .. q : s[k] \in Goes \/ (k = i + 1 /\ s[k] = "[")

\* The parser has after q what is open there.
Parsed(s, q, pending) ==
    /\ \A i \in 1 .. q : Open(s, i, q) => pending = SubSeq(s, i, q)
    /\ (\A i \in 1 .. q : ~Open(s, i, q)) => pending = <<>>

\* w stands in s after the first d.
PartOf(w, s, d) ==
    /\ w \in Seq(Characters) /\ s \in Seq(Characters) /\ d \in Nat /\ Len(w) + d <= Len(s)
    /\ \A k \in 1 .. Len(w) : w[k] = s[k + d]

\* A part of a sequence.
LEMMA Part ==
    ASSUME NEW S, NEW s \in Seq(S), NEW a \in Int, NEW c \in Int, 1 <= a, c <= Len(s)
    PROVE  /\ SubSeq(s, a, c) \in Seq(S)
           /\ a <= c + 1 => Len(SubSeq(s, a, c)) = c - a + 1
           /\ a > c => SubSeq(s, a, c) = <<>>
           /\ \A k \in 1 .. c - a + 1 : SubSeq(s, a, c)[k] = s[a + k - 1]
<1>1. \A k \in a .. c : s[k] \in S
  <2> SUFFICES ASSUME NEW k \in a .. c PROVE s[k] \in S
    OBVIOUS
  <2>1. Len(s) \in Nat
    BY LenProperties
  <2>2. k \in 1 .. Len(s)
    BY <2>1
  <2> QED
    BY <2>2, ElementOfSeq
<1>2. /\ SubSeq(s, a, c) \in Seq(S)
      /\ Len(SubSeq(s, a, c)) = IF a <= c THEN c - a + 1 ELSE 0
      /\ \A k \in 1 .. c - a + 1 : SubSeq(s, a, c)[k] = s[a + k - 1]
  BY <1>1, SubSeqProperties
<1>3. a > c => SubSeq(s, a, c) = <<>>
  BY SubSeqEmpty
<1> QED
  BY <1>2, <1>3

\* A sequence is one wherever its bytes stand.
LEMMA Shifted ==
    ASSUME NEW s, NEW w, NEW d \in Int, NEW i \in Int, NEW j \in Int,
           \A k \in i .. j : w[k] = s[k + d]
    PROVE  SequenceAt(w, i, j) <=> SequenceAt(s, i + d, j + d)
<1> PICK x \in Int, y \in Int : x = i + d /\ y = j + d
  OBVIOUS
<1>0. i + 3 <= j <=> x + 3 <= y
  OBVIOUS
<1> SUFFICES ASSUME i + 3 <= j PROVE SequenceAt(w, i, j) <=> SequenceAt(s, x, y)
  BY <1>0 DEF SequenceAt
<1>1. w[i] = s[x] /\ w[i + 1] = s[x + 1] /\ w[i + 2] = s[x + 2] /\ w[j] = s[y]
  <2>1. i \in i .. j /\ i + 1 \in i .. j /\ i + 2 \in i .. j /\ j \in i .. j
    OBVIOUS
  <2>2. i + d = x /\ i + 1 + d = x + 1 /\ i + 2 + d = x + 2 /\ j + d = y
    OBVIOUS
  <2>3. w[i] = s[i + d] /\ w[i + 1] = s[i + 1 + d] /\ w[i + 2] = s[i + 2 + d] /\ w[j] = s[j + d]
    BY <2>1
  <2> QED
    BY <2>2, <2>3
<1>2. ASSUME NEW k \in i + 3 .. j - 1 PROVE k + d \in x + 3 .. y - 1 /\ w[k] = s[k + d]
  <2>1. k \in i .. j
    OBVIOUS
  <2> QED
    BY <2>1
<1>3. ASSUME NEW l \in x + 3 .. y - 1 PROVE l - d \in i + 3 .. j - 1 /\ w[l - d] = s[l]
  <2>1. l - d \in i .. j /\ (l - d) + d = l
    OBVIOUS
  <2>2. w[l - d] = s[(l - d) + d]
    BY <2>1
  <2> QED
    BY <2>1, <2>2
<1>4. (\A k \in i + 3 .. j - 1 : w[k] \in Digits \cup {";"}) <=> (\A l \in x + 3 .. y - 1 : s[l] \in Digits \cup {";"})
  BY <1>2, <1>3
<1> QED
  BY <1>0, <1>1, <1>4 DEF SequenceAt

\* What stands from i to j of w reads as what stands from x to y of s.
Reads(w, i, j, s, x, y) ==
    /\ SequenceAt(w, i, j) <=> SequenceAt(s, x, y)
    /\ NamedIn(w, i, j) = NamedIn(s, x, y)

\* A sequence in a part is a sequence of the whole and names the same modes.
LEMMA SequencePart ==
    ASSUME NEW s, NEW w, NEW d, PartOf(w, s, d),
           NEW i \in Nat \ {0}, NEW j \in 1 .. Len(w), NEW x, NEW y, x = i + d, y = j + d
    PROVE  SequenceAt(w, i, j) <=> SequenceAt(s, x, y)
<1> /\ w \in Seq(Characters) /\ s \in Seq(Characters) /\ d \in Nat /\ Len(w) + d <= Len(s)
    /\ \A k \in 1 .. Len(w) : w[k] = s[k + d]
  BY DEF PartOf
<1>0. Len(w) \in Nat /\ Len(s) \in Nat
  BY LenProperties
<1>2. SequenceAt(w, i, j) <=> SequenceAt(s, x, y)
  <2>1. ASSUME NEW k \in i .. j PROVE w[k] = s[k + d]
    <3>1. k \in 1 .. Len(w)
      BY <1>0
    <3> QED
      BY <3>1
  <2>2. i \in Int /\ j \in Int /\ d \in Int
    BY <1>0
  <2> QED
    BY <2>1, <2>2, Shifted
<1> QED
  BY <1>2

LEMMA NamedPart ==
    ASSUME NEW s, NEW w, NEW d, PartOf(w, s, d),
           NEW i \in Nat \ {0}, NEW j \in 1 .. Len(w), NEW x, NEW y, x = i + d, y = j + d
    PROVE  Reads(w, i, j, s, x, y)
<1> /\ w \in Seq(Characters) /\ s \in Seq(Characters) /\ d \in Nat /\ Len(w) + d <= Len(s)
    /\ \A k \in 1 .. Len(w) : w[k] = s[k + d]
  BY DEF PartOf
<1>0. Len(w) \in Nat /\ Len(s) \in Nat
  BY LenProperties
<1>1. x \in Nat /\ y \in Nat
  BY <1>0
<1>3. SubSeq(w, i + 3, j - 1) = SubSeq(s, x + 3, y - 1)
  <2> PICK I \in Int, J \in Int : I = i + 3 /\ J = j - 1
    BY <1>0
  <2> PICK X \in Int, Y \in Int : X = I + d /\ Y = J + d
    OBVIOUS
  <2> PICK m, n : m = Len(w) /\ n = Len(s)
    OBVIOUS
  <2>1. /\ m \in Nat /\ n \in Nat /\ m + d <= n
        /\ 1 <= I /\ J <= m /\ 1 <= X /\ Y <= n /\ x + 3 = X /\ y - 1 = Y /\ i + 3 = I /\ j - 1 = J
    BY <1>0
  <2>2. /\ SubSeq(w, I, J) \in Seq(Characters)
        /\ I <= J + 1 => Len(SubSeq(w, I, J)) = J - I + 1
        /\ I > J => SubSeq(w, I, J) = <<>>
        /\ \A k \in 1 .. J - I + 1 : SubSeq(w, I, J)[k] = w[I + k - 1]
    BY <2>1, Part
  <2>3. /\ SubSeq(s, X, Y) \in Seq(Characters)
        /\ X <= Y + 1 => Len(SubSeq(s, X, Y)) = Y - X + 1
        /\ X > Y => SubSeq(s, X, Y) = <<>>
        /\ \A k \in 1 .. Y - X + 1 : SubSeq(s, X, Y)[k] = s[X + k - 1]
    BY <2>1, Part
  <2>4. Y - X = J - I
    OBVIOUS
  <2> PICK v, z : v = SubSeq(w, I, J) /\ z = SubSeq(s, X, Y)
    OBVIOUS
  <2>5. CASE I > J
    <3>1. X > Y
      BY <2>5
    <3> QED
      BY <2>1, <2>2, <2>3, <2>5, <3>1
  <2>6. CASE I <= J
    <3> PICK l \in Nat : l = J - I + 1
      BY <2>6
    <3>1. I <= J + 1 /\ X <= Y + 1 /\ Y - X + 1 = l
      BY <2>6
    <3>2. /\ v \in Seq(Characters) /\ Len(v) = l /\ \A k \in 1 .. l : v[k] = w[I + k - 1]
          /\ z \in Seq(Characters) /\ Len(z) = l /\ \A k \in 1 .. l : z[k] = s[X + k - 1]
      BY <2>2, <2>3, <3>1
    <3>3. ASSUME NEW k \in 1 .. l PROVE v[k] = z[k]
      <4>1. I + k - 1 \in 1 .. m /\ (I + k - 1) + d = X + k - 1
        <5>1. k \in Int /\ 1 <= k /\ k <= J - I + 1
          OBVIOUS
        <5>2. 1 <= I + k - 1 /\ I + k - 1 <= J
          BY <2>1, <5>1
        <5> QED
          BY <2>1, <5>1, <5>2
      <4>2. w[I + k - 1] = s[(I + k - 1) + d]
        BY <4>1
      <4> QED
        BY <3>2, <4>1, <4>2
    <3>4. v = z
      BY <3>2, <3>3, SeqEqual
    <3> QED
      BY <2>1, <3>4
  <2> QED
    BY <2>5, <2>6
<1>4. NamedIn(w, i, j) = NamedIn(s, x, y)
  BY <1>3 DEF NamedIn
<1>5. SequenceAt(w, i, j) <=> SequenceAt(s, x, y)
  BY SequencePart
<1> QED
  BY <1>4, <1>5 DEF Reads

\* What stands between the semicolons is a mode.
LEMMA FieldIsMode ==
    ASSUME NEW p, NEW from \in Int, NEW to \in Int, from <= to, \A k \in from .. to : p[k] \in Digits
    PROVE  SubSeq(p, from, to) \in Modes
<1>2. /\ SubSeq(p, from, to) \in Seq(Digits)
      /\ Len(SubSeq(p, from, to)) = IF from <= to THEN to - from + 1 ELSE 0
  BY SubSeqProperties
<1>3. to - from + 1 # 0
  OBVIOUS
<1>4. Len(<<>>) = 0
  BY EmptySeq
<1> QED
  BY <1>2, <1>3, <1>4 DEF Modes

\* What a sequence names are modes, finitely many.
LEMMA NamedModes ==
    ASSUME NEW s \in Seq(Characters), NEW i \in Int, NEW j \in Int, 1 <= i, j <= Len(s), SequenceAt(s, i, j)
    PROVE  NamedIn(s, i, j) \in SUBSET Modes /\ IsFiniteSet(NamedIn(s, i, j))
<1> PICK p : p = SubSeq(s, i + 3, j - 1)
  OBVIOUS
<1>0. Len(s) \in Nat /\ i + 3 <= j
  BY LenProperties DEF SequenceAt
<1>1. PICK n \in Nat : n = j - i - 3
  BY <1>0
<1>2. p \in Seq(Characters) /\ Len(p) = n /\ \A k \in 1 .. n : p[k] = s[i + 3 + k - 1]
  <2>1. ASSUME NEW A \in Int, NEW C \in Int, A = i + 3, C = j - 1
        PROVE  /\ SubSeq(s, A, C) \in Seq(Characters) /\ Len(SubSeq(s, A, C)) = n
               /\ \A k \in 1 .. n : SubSeq(s, A, C)[k] = s[A + k - 1]
    <3>1. 1 <= A /\ C <= Len(s) /\ A <= C + 1 /\ C - A + 1 = n
      BY <1>0, <1>1, <2>1
    <3> QED
      BY <3>1, Part
  <2> QED
    BY <2>1
<1>3. ASSUME NEW k \in 1 .. n PROVE p[k] \in Digits \cup {";"}
  <2>1. i + 3 + k - 1 \in i + 3 .. j - 1
    BY <1>1
  <2> QED
    BY <1>2, <2>1 DEF SequenceAt
<1> DEFINE D == {f \in (DOMAIN p) \X (DOMAIN p) :
            /\ f[1] <= f[2] /\ \A k \in f[1] .. f[2] : p[k] # ";"
            /\ f[1] = 1 \/ p[f[1] - 1] = ";"
            /\ f[2] = Len(p) \/ p[f[2] + 1] = ";"}
<1> DEFINE F == [f \in D |-> SubSeq(p, f[1], f[2])]
<1>4. Fields(p) = {F[f] : f \in D}
  BY DEF Fields
<1>5. DOMAIN p = 1 .. n
  BY <1>2, LenProperties
<1>6. ASSUME NEW f \in D PROVE F[f] \in Modes
  <2> PICK from, to : from = f[1] /\ to = f[2]
    OBVIOUS
  <2>1. F[f] = SubSeq(p, from, to)
    OBVIOUS
  <2>2. f \in (1 .. n) \X (1 .. n) /\ from <= to /\ \A k \in from .. to : p[k] # ";"
    BY <1>5
  <2> HIDE DEF D, F
  <2>3. from \in 1 .. n /\ to \in 1 .. n
    BY <2>2
  <2>4. ASSUME NEW k \in from .. to PROVE p[k] \in Digits
    <3>1. k \in 1 .. n
      BY <2>3
    <3> QED
      BY <1>3, <2>2, <3>1
  <2>5. SubSeq(p, from, to) \in Modes
    <3>1. from \in Int /\ to \in Int
      BY <2>3
    <3> QED
      BY <2>2, <2>4, <3>1, FieldIsMode
  <2> QED
    BY <2>1, <2>5
<1>7. IsFiniteSet(D)
  <2>1. IsFiniteSet(1 .. n)
    BY FS_Interval
  <2>2. IsFiniteSet((1 .. n) \X (1 .. n))
    BY <2>1, FS_Product
  <2>3. D \in SUBSET ((1 .. n) \X (1 .. n))
    BY <1>5
  <2> QED
    BY <2>2, <2>3, FS_Subset
<1>8. IsFiniteSet({F[f] : f \in D})
  <2> DEFINE T == {F[f] : f \in D}
  <2>1. F \in [D -> T]
    <3> HIDE DEF D
    <3> QED
      OBVIOUS
  <2>2. \A t \in T : \E f \in D : F[f] = t
    OBVIOUS
  <2> HIDE DEF D, F, T
  <2>3. F \in Surjection(D, T)
    BY <2>1, <2>2, Fun_IsSurj
  <2>4. IsFiniteSet(T)
    BY <1>7, <2>3, FS_Surjection
  <2> QED
    BY <2>4 DEF T
<1>9. NamedIn(s, i, j) = {F[f] : f \in D}
  BY <1>4 DEF NamedIn
<1> HIDE DEF D, F
<1> QED
  BY <1>6, <1>8, <1>9

\* What is open.
LEMMA OpenFacts ==
    ASSUME NEW s, NEW q \in Nat, NEW i \in 1 .. q
    PROVE  /\ \A k \in 1 .. q : Open(s, i, q) /\ Open(s, k, q) => i = k
           /\ Open(s, i, q + 1) => Open(s, i, q)
           /\ Open(s, i, q) /\ (s[q + 1] \in Goes \/ (q = i /\ s[q + 1] = "[")) => Open(s, i, q + 1)
           /\ Open(s, i, q + 1) => s[q + 1] \in Goes \/ (q = i /\ s[q + 1] = "[")
<1>1. ASSUME NEW k \in 1 .. q, Open(s, i, q), Open(s, k, q) PROVE i = k
  <2>1. ASSUME NEW a \in 1 .. q, NEW b \in 1 .. q, Open(s, a, q), Open(s, b, q) PROVE ~(a < b)
    <3>1. SUFFICES ASSUME a < b PROVE FALSE
      OBVIOUS
    <3>2. s[b] \in Goes \/ s[b] = "["
      BY <2>1, <3>1 DEF Open
    <3>3. s[b] = "esc"
      BY <2>1 DEF Open
    <3> QED
      BY <3>2, <3>3 DEF Goes, Digits
  <2>2. ~(i < k) /\ ~(k < i)
    BY <1>1, <2>1
  <2> QED
    BY <2>2
<1>2. Open(s, i, q + 1) => Open(s, i, q)
  BY DEF Open
<1>3. ASSUME Open(s, i, q), s[q + 1] \in Goes \/ (q = i /\ s[q + 1] = "[") PROVE Open(s, i, q + 1)
  <2>1. ASSUME NEW k \in i + 1 .. q + 1 PROVE s[k] \in Goes \/ (k = i + 1 /\ s[k] = "[")
    <3>1. k \in i + 1 .. q \/ k = q + 1
      OBVIOUS
    <3> QED
      BY <1>3, <3>1 DEF Open
  <2> QED
    BY <1>3, <2>1 DEF Open
<1>4. Open(s, i, q + 1) => s[q + 1] \in Goes \/ (q = i /\ s[q + 1] = "[")
  <2>1. q + 1 \in i + 1 .. q + 1 /\ (q + 1 = i + 1 => q = i)
    OBVIOUS
  <2> QED
    BY <2>1 DEF Open
<1> QED
  BY <1>1, <1>2, <1>3, <1>4

LEMMA SequenceOpen ==
    ASSUME NEW s, NEW q \in Nat, NEW i \in Nat \ {0}, SequenceAt(s, i, q + 1)
    PROVE  i \in 1 .. q /\ Open(s, i, q) /\ s[q + 1] \in {"h", "l"}
<1>1. i + 3 <= q + 1 /\ s[i] = "esc" /\ s[q + 1] \in {"h", "l"}
  BY DEF SequenceAt
<1>3. i \in 1 .. q
  BY <1>1
<1>2. ASSUME NEW k \in i + 1 .. q PROVE s[k] \in Goes \/ (k = i + 1 /\ s[k] = "[")
  <2>1. k = i + 1 \/ k = i + 2 \/ k \in i + 3 .. (q + 1) - 1
    OBVIOUS
  <2> QED
    BY <2>1 DEF SequenceAt, Goes
<1> QED
  BY <1>1, <1>2, <1>3 DEF Open


\* A sequence that ends somewhere is the only one to end there.
LEMMA NamedOnce ==
    ASSUME NEW s, NEW q \in Nat
    PROVE  /\ \A i \in 1 .. q : SequenceAt(s, i, q + 1) => NamedAt(s, q + 1) = NamedIn(s, i, q + 1)
           /\ (\A i \in 1 .. q : ~SequenceAt(s, i, q + 1)) => NamedAt(s, q + 1) = {}
           /\ s[q + 1] \notin {"h", "l"} => NamedAt(s, q + 1) = {}
<1> PICK r \in Nat : r = q + 1
  OBVIOUS
<1> DEFINE I == {k \in 1 .. r : SequenceAt(s, k, r)}
<1>1. NamedAt(s, r) = UNION {NamedIn(s, i, r) : i \in I}
  BY DEF NamedAt
<1>2. ASSUME NEW i \in I PROVE i \in 1 .. q /\ Open(s, i, q) /\ s[r] \in {"h", "l"} /\ SequenceAt(s, i, r)
  <2>1. i \in Nat \ {0} /\ SequenceAt(s, i, q + 1)
    OBVIOUS
  <2> QED
    BY <2>1, SequenceOpen
<1>3. \A i \in 1 .. q : SequenceAt(s, i, r) => i \in I
  OBVIOUS
<1> HIDE DEF I
<1>4. ASSUME NEW i \in 1 .. q, SequenceAt(s, i, r) PROVE NamedAt(s, r) = NamedIn(s, i, r)
  <2>1. i \in I
    BY <1>3, <1>4
  <2>2. ASSUME NEW k \in I PROVE k = i
    BY <1>2, <2>1, OpenFacts
  <2>3. I = {i}
    BY <2>1, <2>2
  <2> QED
    BY <1>1, <2>3
<1>5. ASSUME \A i \in 1 .. q : ~SequenceAt(s, i, r) PROVE NamedAt(s, r) = {}
  <2>1. I = {}
    BY <1>2, <1>5
  <2> QED
    BY <1>1, <2>1
<1>6. ASSUME s[r] \notin {"h", "l"} PROVE NamedAt(s, r) = {}
  <2>1. I = {}
    BY <1>2, <1>6
  <2> QED
    BY <1>1, <2>1
<1> QED
  BY <1>4, <1>5, <1>6

LEMMA TurnedNone == ASSUME NEW on, NEW final PROVE Turned(on, {}, final) = on
  BY DEF Turned

\* f is what t becomes at the byte r of s.
FedAt(t, f, s, r) ==
    f \in Terminals /\ Parsed(s, r, f.pending) /\ f.on = Turned(t.on, NamedAt(s, r), s[r])

\* One more byte: what is open is open still, and a mode is turned where a sequence ends.
LEMMA FeedStep ==
    ASSUME NEW s \in Seq(Characters), NEW q \in Nat, q + 1 <= Len(s),
           NEW t \in Terminals, Parsed(s, q, t.pending),
           NEW f, f = Feed(t, s[q + 1])
    PROVE  FedAt(t, f, s, q + 1)
<1> USE DEF FedAt
<1> PICK r \in Nat : r = q + 1
  OBVIOUS
<1> PICK byte : byte = s[q + 1]
  OBVIOUS
<1> PICK seen : seen = Append(t.pending, byte)
  OBVIOUS
<1>1. byte \in Characters /\ r \in 1 .. Len(s) /\ Len(s) \in Nat
  <2>1. Len(s) \in Nat
    BY LenProperties
  <2>2. r \in 1 .. Len(s)
    BY <2>1
  <2> QED
    BY <2>1, <2>2, ElementOfSeq
<1>2. /\ t.on \in SUBSET Modes /\ t.pending \in Seq(Characters)
      /\ seen \in Seq(Characters)
  <2>1. t.on \in SUBSET Modes /\ t.pending \in Seq(Characters)
    BY DEF Terminals
  <2> QED
    BY <1>1, <2>1, AppendProperties
<1>3. CASE byte = "esc"
  <2>1. f = [t EXCEPT !.pending = <<"esc">>]
    BY <1>3 DEF Feed
  <2>2. f.on = t.on /\ f.pending = <<"esc">> /\ f = [on |-> t.on, pending |-> <<"esc">>]
    BY <2>1 DEF Terminals
  <2>3. NamedAt(s, r) = {}
    BY <1>3, NamedOnce
  <2>4. <<"esc">> \in Seq(Characters)
    <3>1. "esc" \in Characters
      BY DEF Characters
    <3> QED
      BY <3>1
  <2>5. Open(s, r, r)
    BY <1>3 DEF Open
  <2>6. ASSUME NEW i \in 1 .. r, Open(s, i, r) PROVE i = r
    <3>1. SUFFICES ASSUME i # r PROVE FALSE
      OBVIOUS
    <3>2. i \in 1 .. q
      BY <3>1
    <3>3. s[r] \in Goes \/ s[r] = "["
      BY <2>6, <3>2, OpenFacts
    <3> QED
      BY <1>3, <3>3 DEF Goes, Digits
  <2>7. SubSeq(s, r, r) = <<"esc">>
    <3>1. /\ SubSeq(s, r, r) \in Seq(Characters) /\ Len(SubSeq(s, r, r)) = r - r + 1
          /\ \A k \in 1 .. r - r + 1 : SubSeq(s, r, r)[k] = s[r + k - 1]
      <4>1. r \in Int /\ 1 <= r /\ r <= Len(s) /\ r <= r + 1
        BY <1>1
      <4> QED
        BY <4>1, Part
    <3>2. Len(SubSeq(s, r, r)) = 1 /\ SubSeq(s, r, r)[1] = "esc"
      <4>1. r - r + 1 = 1 /\ r + 1 - 1 = r /\ 1 \in 1 .. r - r + 1
        OBVIOUS
      <4>2. SubSeq(s, r, r)[1] = s[r]
        BY <3>1, <4>1
      <4> QED
        BY <1>3, <3>1, <4>1, <4>2
    <3>3. Len(<<"esc">>) = 1 /\ <<"esc">>[1] = "esc"
      OBVIOUS
    <3>4. \A k \in 1 .. 1 : SubSeq(s, r, r)[k] = <<"esc">>[k]
      BY <3>2, <3>3
    <3> QED
      BY <2>4, <3>1, <3>2, <3>3, <3>4, SeqEqual
  <2>8. Parsed(s, r, <<"esc">>)
    <3>1. r \in 1 .. r
      BY <1>1
    <3>2. \A i \in 1 .. r : Open(s, i, r) => <<"esc">> = SubSeq(s, i, r)
      BY <2>6, <2>7
    <3> QED
      BY <2>5, <3>1, <3>2 DEF Parsed
  <2>9. f \in Terminals
    BY <1>2, <2>2, <2>4 DEF Terminals
  <2> QED
    BY <2>2, <2>3, <2>8, <2>9, TurnedNone
<1>4. CASE byte # "esc" /\ t.pending = <<>>
  <2>1. f = t
    BY <1>4 DEF Feed
  <2>2. ASSUME NEW i \in 1 .. q PROVE ~Open(s, i, q)
    <3>1. SUFFICES ASSUME Open(s, i, q) PROVE FALSE
      OBVIOUS
    <3>2. t.pending = SubSeq(s, i, q)
      BY <3>1 DEF Parsed
    <3>3. Len(SubSeq(s, i, q)) = q - i + 1
      <4>1. i \in Int /\ q \in Int /\ 1 <= i /\ q <= Len(s) /\ i <= q + 1
        BY <1>1
      <4> QED
        BY <4>1, Part
    <3>4. Len(<<>>) = 0 /\ q - i + 1 # 0
      BY EmptySeq
    <3> QED
      BY <1>4, <3>2, <3>3, <3>4
  <2>3. ASSUME NEW i \in 1 .. r PROVE ~Open(s, i, r)
    <3>1. CASE i = r
      BY <1>4, <3>1 DEF Open
    <3>2. CASE i \in 1 .. q
      BY <2>2, <3>2, OpenFacts
    <3> QED
      BY <3>1, <3>2
  <2>4. \A i \in 1 .. q : ~SequenceAt(s, i, r)
    <3> SUFFICES ASSUME NEW i \in 1 .. q, SequenceAt(s, i, r) PROVE FALSE
      OBVIOUS
    <3>1. i \in Nat \ {0} /\ SequenceAt(s, i, q + 1)
      OBVIOUS
    <3> QED
      BY <2>2, <3>1, SequenceOpen
  <2>5. NamedAt(s, r) = {}
    BY <2>4, NamedOnce
  <2>6. Parsed(s, r, t.pending)
    BY <1>4, <2>3 DEF Parsed
  <2> QED
    BY <2>1, <2>5, <2>6, TurnedNone
<1>5. CASE byte # "esc" /\ t.pending # <<>>
  <2>1. PICK i \in 1 .. q : Open(s, i, q) /\ t.pending = SubSeq(s, i, q)
    BY <1>5 DEF Parsed
  <2>2. i \in Int /\ q \in Int /\ r \in Int /\ 1 <= i /\ q <= Len(s) /\ r <= Len(s) /\ i <= q + 1 /\ i <= r + 1
    BY <1>1
  <2>3. Len(t.pending) = q - i + 1 /\ \A k \in 1 .. q - i + 1 : t.pending[k] = s[i + k - 1]
    BY <2>1, <2>2, Part
  <2>4. seen = SubSeq(s, i, r)
    <3>1. /\ SubSeq(s, i, r) \in Seq(Characters)
          /\ Len(SubSeq(s, i, r)) = r - i + 1
          /\ \A k \in 1 .. r - i + 1 : SubSeq(s, i, r)[k] = s[i + k - 1]
      BY <2>2, Part
    <3> PICK n \in Nat : n = q - i + 1
      OBVIOUS
    <3>2. Len(seen) = n + 1 /\ (\A k \in 1 .. n : seen[k] = t.pending[k]) /\ seen[n + 1] = byte
      <4>1. Len(t.pending) = n
        BY <2>3
      <4>2. /\ Len(seen) = Len(t.pending) + 1
            /\ \A k \in 1 .. Len(t.pending) : seen[k] = t.pending[k]
            /\ seen[Len(t.pending) + 1] = byte
        BY <1>1, <1>2, AppendProperties
      <4> QED
        BY <4>1, <4>2
    <3>3. r - i + 1 = n + 1 /\ i + (n + 1) - 1 = r
      OBVIOUS
    <3>4. ASSUME NEW k \in 1 .. n + 1 PROVE seen[k] = SubSeq(s, i, r)[k]
      <4>1. SubSeq(s, i, r)[k] = s[i + k - 1]
        BY <3>1, <3>3
      <4>2. CASE k = n + 1
        BY <3>2, <3>3, <4>1, <4>2
      <4>3. CASE k \in 1 .. n
        BY <2>3, <3>2, <4>1, <4>3
      <4>4. k = n + 1 \/ k \in 1 .. n
        OBVIOUS
      <4> QED
        BY <4>2, <4>3, <4>4
    <3> QED
      BY <1>2, <3>1, <3>2, <3>3, <3>4, SeqEqual
  <2>5. ASSUME NEW k \in 1 .. r, Open(s, k, r) PROVE k = i
    <3>1. k # r
      BY <1>5, <2>5 DEF Open
    <3>2. k \in 1 .. q
      BY <3>1
    <3> QED
      BY <2>1, <2>5, <3>2, OpenFacts
  <2>6. seen = <<"esc", "[">> <=> q = i /\ byte = "["
    <3>1. Len(seen) = r - i + 1 /\ \A k \in 1 .. r - i + 1 : seen[k] = s[i + k - 1]
      BY <2>2, <2>4, Part
    <3>2. Len(<<"esc", "[">>) = 2 /\ <<"esc", "[">>[1] = "esc" /\ <<"esc", "[">>[2] = "["
      OBVIOUS
    <3>3. ASSUME seen = <<"esc", "[">> PROVE q = i /\ byte = "["
      <4>1. r - i + 1 = 2
        BY <3>1, <3>2, <3>3
      <4>2. q = i /\ i + 2 - 1 = r /\ 2 \in 1 .. r - i + 1
        BY <4>1
      <4>3. seen[2] = s[r]
        BY <3>1, <4>2
      <4> QED
        BY <3>2, <3>3, <4>2, <4>3
    <3>4. ASSUME q = i, byte = "[" PROVE seen = <<"esc", "[">>
      <4>1. r - i + 1 = 2 /\ i + 2 - 1 = r /\ i + 1 - 1 = i
        BY <3>4
      <4>2. Len(seen) = 2 /\ seen[1] = s[i] /\ seen[2] = s[r]
        BY <3>1, <4>1
      <4>3. s[i] = "esc" /\ s[r] = "["
        BY <2>1, <3>4 DEF Open
      <4>4. <<"esc", "[">> \in Seq(Characters)
        <5>1. "esc" \in Characters /\ "[" \in Characters
          BY DEF Characters
        <5> QED
          BY <5>1
      <4>5. \A k \in 1 .. 2 : seen[k] = <<"esc", "[">>[k]
        BY <3>2, <4>2, <4>3
      <4> QED
        BY <1>2, <3>2, <4>2, <4>4, <4>5, SeqEqual
    <3> QED
      BY <3>3, <3>4
  <2>7. CASE byte \in Goes \/ (q = i /\ byte = "[")
    <3>1. f = [t EXCEPT !.pending = seen]
      BY <1>5, <2>6, <2>7 DEF Feed, Goes
    <3>2. f.on = t.on /\ f.pending = seen /\ f = [on |-> t.on, pending |-> seen]
      BY <3>1 DEF Terminals
    <3>3. Open(s, i, r)
      BY <2>1, <2>7, OpenFacts
    <3>4. Parsed(s, r, seen)
      BY <2>4, <2>5, <3>3 DEF Parsed
    <3>5. byte \notin {"h", "l"}
      BY <2>7 DEF Goes, Digits
    <3>6. NamedAt(s, r) = {}
      BY <3>5, NamedOnce
    <3>7. f \in Terminals
      BY <1>2, <3>2 DEF Terminals
    <3> QED
      BY <3>2, <3>4, <3>6, <3>7, TurnedNone
  <2>8. CASE ~(byte \in Goes \/ (q = i /\ byte = "["))
    <3>1. \A k \in 1 .. r : ~Open(s, k, r)
      <4> SUFFICES ASSUME Open(s, i, r) PROVE FALSE
        BY <2>5
      <4> QED
        BY <2>8, OpenFacts
    <3>2. Parsed(s, r, <<>>)
      BY <3>1 DEF Parsed
    <3> PICK m : m = Len(seen)
      OBVIOUS
    <3>3. m = r - i + 1 /\ m \in Int /\ 1 <= m /\ i + m - 1 = r /\ i + 1 - 1 = i
      <4>1. m = r - i + 1
        BY <2>2, <2>4, Part
      <4> QED
        BY <4>1
    <3>4. /\ SequenceAt(seen, 1, m) <=> SequenceAt(s, i, r)
          /\ NamedIn(seen, 1, m) = NamedIn(s, i, r)
      <4> PICK d \in Nat : d = i - 1
        OBVIOUS
      <4>1. /\ \A k \in 1 .. r - i + 1 : seen[k] = s[i + k - 1]
        BY <2>2, <2>4, Part
      <4>2. ASSUME NEW k \in 1 .. Len(seen) PROVE seen[k] = s[k + d]
        <5>1. k \in 1 .. r - i + 1 /\ i + k - 1 = k + d
          BY <3>3
        <5> QED
          BY <4>1, <5>1
      <4>3. Len(seen) + d <= Len(s) /\ 1 \in Nat \ {0} /\ m \in 1 .. Len(seen) /\ i = 1 + d /\ r = m + d
        BY <2>2, <3>3
      <4>4. PartOf(seen, s, d)
        BY <1>2, <4>2, <4>3 DEF PartOf
      <4>5. Reads(seen, 1, m, s, i, r)
        BY <4>3, <4>4, NamedPart, Zenon
      <4> QED
        BY <4>5 DEF Reads
    <3>5. f = [on |-> IF SequenceAt(seen, 1, m) THEN Turned(t.on, NamedIn(seen, 1, m), byte) ELSE t.on,
               pending |-> <<>>]
      BY <1>5, <2>6, <2>8 DEF Feed, Goes
    <3>6. f.pending = <<>> /\ f.on = IF SequenceAt(s, i, r) THEN Turned(t.on, NamedIn(s, i, r), byte) ELSE t.on
      BY <3>4, <3>5
    <3>7. CASE SequenceAt(s, i, r)
      <4>1. NamedAt(s, r) = NamedIn(s, i, r)
        BY <3>7, NamedOnce
      <4>2. NamedIn(s, i, r) \in SUBSET Modes
        BY <2>2, <3>7, NamedModes
      <4>3. f.on = Turned(t.on, NamedAt(s, r), byte)
        BY <3>6, <3>7, <4>1
      <4>4. f.on \in SUBSET Modes
        BY <1>2, <4>1, <4>2, <4>3 DEF Turned
      <4>5. f \in Terminals
        BY <3>5, <3>6, <4>4, EmptySeq DEF Terminals
      <4> QED
        BY <3>2, <3>6, <4>3, <4>5
    <3>8. CASE ~SequenceAt(s, i, r)
      <4>1. \A k \in 1 .. q : ~SequenceAt(s, k, r)
        <5> SUFFICES ASSUME NEW k \in 1 .. q, SequenceAt(s, k, r) PROVE FALSE
          OBVIOUS
        <5>1. k \in Nat \ {0} /\ SequenceAt(s, k, q + 1)
          OBVIOUS
        <5>2. Open(s, k, q)
          BY <5>1, SequenceOpen
        <5>3. k = i
          BY <2>1, <5>2, OpenFacts
        <5> QED
          BY <3>8, <5>3
      <4>2. NamedAt(s, r) = {}
        BY <4>1, NamedOnce
      <4>3. f.on = t.on
        BY <3>6, <3>8
      <4>4. f \in Terminals
        BY <1>2, <3>5, <3>6, <4>3, EmptySeq DEF Terminals
      <4> QED
        BY <3>2, <3>6, <4>2, <4>3, <4>4, TurnedNone
    <3> QED
      BY <3>7, <3>8
  <2> QED
    BY <2>7, <2>8
<1> QED
  BY <1>3, <1>4, <1>5


\* Step by step one reaches every number.
LEMMA Upward ==
    ASSUME NEW n \in Nat, NEW T, 0 \in T, \A j \in 0 .. n - 1 : j \in T => j + 1 \in T
    PROVE  \A j \in 0 .. n : j \in T
<1> DEFINE Missing == {j \in 0 .. n : j \notin T}
<1> SUFFICES ASSUME Missing # {} PROVE FALSE
  OBVIOUS
<1>1. Missing \in SUBSET Nat
  OBVIOUS
<1> HIDE DEF Missing
<1>2. PICK m \in Missing : \A k \in Missing : m <= k
  <2>1. \E x \in Missing : \A y \in Missing : x <= y
    BY <1>1, Least
  <2> QED
    BY <2>1
<1>3. m \in 0 .. n /\ m \notin T
  BY DEF Missing
<1>4. m # 0
  BY <1>3
<1> PICK k \in 0 .. n - 1 : m = k + 1
  <2>1. m - 1 \in 0 .. n - 1 /\ m = (m - 1) + 1
    BY <1>3, <1>4
  <2> QED
    BY <2>1
<1>5. k \in Missing => m <= k
  BY <1>2
<1>6. k \in 0 .. n /\ ~(k + 1 <= k)
  OBVIOUS
<1>7. k \in T
  BY <1>5, <1>6 DEF Missing
<1> QED
  BY <1>3, <1>7

\* g is defined along the numbers up to n.
Along(g, n, first, step) == g[0] = first /\ \A j \in 1 .. n : g[j] = step[<<g[j - 1], j>>]

LEMMA Recursion ==
    ASSUME NEW S, NEW n \in Nat, NEW first \in S, NEW step \in [S \X (1 .. n) -> S]
    PROVE  \E g \in [0 .. n -> S] : Along(g, n, first, step)
<1> DEFINE Upto(m, g) == g[0] = first /\ \A j \in 1 .. m : g[j] = step[<<g[j - 1], j>>]
<1> DEFINE T == {m \in 0 .. n : \E g \in [0 .. n -> S] : Upto(m, g)}
<1>1. 0 \in T
  <2> DEFINE g == [j \in 0 .. n |-> first]
  <2>1. g \in [0 .. n -> S] /\ g[0] = first
    OBVIOUS
  <2> HIDE DEF g
  <2>2. Upto(0, g)
    BY <2>1
  <2>3. 0 \in 0 .. n
    OBVIOUS
  <2> HIDE DEF Upto
  <2> QED
    BY <2>1, <2>2, <2>3
<1>2. ASSUME NEW m \in 0 .. n - 1, m \in T PROVE m + 1 \in T
  <2>1. PICK g \in [0 .. n -> S] : Upto(m, g)
    BY <1>2
  <2> DEFINE h == [j \in 0 .. n |-> IF j = m + 1 THEN step[<<g[m], m + 1>>] ELSE g[j]]
  <2>2. m + 1 \in 1 .. n /\ m \in 0 .. n /\ m + 1 \in 0 .. n /\ m + 1 # 0 /\ 0 \in 0 .. n
    OBVIOUS
  <2>3. g[m] \in S
    BY <2>2
  <2>4. step[<<g[m], m + 1>>] \in S
    BY <2>2, <2>3
  <2>5. h \in [0 .. n -> S]
    BY <2>4
  <2>6. \A j \in 0 .. n : j # m + 1 => h[j] = g[j]
    OBVIOUS
  <2>7. h[m + 1] = step[<<g[m], m + 1>>]
    BY <2>2
  <2> HIDE DEF h
  <2>8. h[0] = first
    BY <2>1, <2>2, <2>6
  <2>9. ASSUME NEW j \in 1 .. m + 1 PROVE h[j] = step[<<h[j - 1], j>>]
    <3>1. j - 1 \in 0 .. n /\ j - 1 # m + 1 /\ j \in 0 .. n
      BY <2>2
    <3>2. h[j - 1] = g[j - 1]
      BY <2>6, <3>1
    <3>3. CASE j = m + 1
      <4>1. j - 1 = m
        BY <3>3
      <4> QED
        BY <2>7, <3>2, <3>3, <4>1
    <3>4. CASE j # m + 1
      <4>1. j \in 1 .. m
        BY <3>4
      <4>2. h[j] = g[j]
        BY <2>6, <3>1, <3>4
      <4> QED
        BY <2>1, <3>2, <4>1, <4>2
    <3> QED
      BY <3>3, <3>4
  <2>10. Upto(m + 1, h)
    BY <2>8, <2>9
  <2> QED
    BY <2>2, <2>5, <2>10
<1>3. n \in T
  <2> HIDE DEF T
  <2>1. \A j \in 0 .. n : j \in T
    BY <1>1, <1>2, Upward
  <2> QED
    BY <2>1
<1> QED
  BY <1>3 DEF Along


\* A byte leaves a terminal a terminal.
LEMMA FeedTyped ==
    ASSUME NEW t \in Terminals, NEW byte \in Characters
    PROVE  Feed(t, byte) \in Terminals
<1> PICK seen : seen = Append(t.pending, byte)
  OBVIOUS
<1> PICK m : m = Len(seen)
  OBVIOUS
<1>1. t.on \in SUBSET Modes /\ t.pending \in Seq(Characters)
  BY DEF Terminals
<1>2. seen \in Seq(Characters) /\ m \in Nat
  BY <1>1, AppendProperties, LenProperties
<1>3. \A on \in SUBSET Modes, pending \in Seq(Characters) : [on |-> on, pending |-> pending] \in Terminals
  BY DEF Terminals
<1>4. \A pending : [t EXCEPT !.pending = pending] = [on |-> t.on, pending |-> pending]
  BY DEF Terminals
<1>5. CASE byte = "esc"
  <2>1. Feed(t, byte) = [on |-> t.on, pending |-> <<"esc">>]
    BY <1>4, <1>5 DEF Feed
  <2>2. <<"esc">> \in Seq(Characters)
    BY <1>5
  <2> QED
    BY <1>1, <1>3, <2>1, <2>2
<1>6. CASE byte # "esc"
  <2>1. \/ Feed(t, byte) = t
        \/ Feed(t, byte) = [on |-> t.on, pending |-> seen]
        \/ Feed(t, byte) = [on |-> IF SequenceAt(seen, 1, m) THEN Turned(t.on, NamedIn(seen, 1, m), byte) ELSE t.on,
                            pending |-> <<>>]
    BY <1>4, <1>6 DEF Feed
  <2>2. SequenceAt(seen, 1, m) => NamedIn(seen, 1, m) \in SUBSET Modes
    <3>1. 1 \in Int /\ m \in Int /\ 1 <= 1 /\ m <= Len(seen)
      BY <1>2
    <3> QED
      BY <1>2, <3>1, NamedModes
  <2> PICK on : on = IF SequenceAt(seen, 1, m) THEN Turned(t.on, NamedIn(seen, 1, m), byte) ELSE t.on
    OBVIOUS
  <2>3. on \in SUBSET Modes
    BY <1>1, <2>2 DEF Turned
  <2>4. <<>> \in Seq(Characters)
    BY EmptySeq
  <2> QED
    BY <1>1, <1>2, <1>3, <2>1, <2>3, <2>4
<1> QED
  BY <1>5, <1>6

\* The terminals that a terminal is after each of n bytes.
FedAlong(fed, t, b, n) ==
    /\ fed \in [0 .. n -> Terminals] /\ fed[0] = t /\ FeedAll(t, b) = fed[n]
    /\ \A j \in 1 .. n : fed[j] = Feed(fed[j - 1], b[j])

\* What feeding byte by byte comes to.
LEMMA FedByByte ==
    ASSUME NEW t \in Terminals, NEW b \in Seq(Characters), NEW n, n = Len(b)
    PROVE  \E fed : FedAlong(fed, t, b, n)
<1>0. n \in Nat
  BY LenProperties
<1>1. ASSUME NEW x \in Terminals, NEW j \in 1 .. n PROVE Feed(x, b[j]) \in Terminals
  <2>1. b[j] \in Characters
    BY ElementOfSeq
  <2> QED
    BY <2>1, FeedTyped
<1> DEFINE step == [x \in Terminals \X (1 .. n) |-> Feed(x[1], b[x[2]])]
<1> DEFINE Is(g) == g = [j \in 0 .. n |-> IF j = 0 THEN t ELSE Feed(g[j - 1], b[j])]
<1> DEFINE fed == CHOOSE g : Is(g)
<1>2. FeedAll(t, b) = fed[n]
  BY DEF FeedAll
<1>3. step \in [Terminals \X (1 .. n) -> Terminals]
  <2>1. ASSUME NEW x \in Terminals \X (1 .. n) PROVE Feed(x[1], b[x[2]]) \in Terminals
    BY <1>1
  <2> QED
    BY <2>1
<1>4. \A x \in Terminals : \A j \in 1 .. n : step[<<x, j>>] = Feed(x, b[j])
  OBVIOUS
<1>5. PICK g \in [0 .. n -> Terminals] : g[0] = t /\ \A j \in 1 .. n : g[j] = step[<<g[j - 1], j>>]
  <2> HIDE DEF step
  <2>1. \E g \in [0 .. n -> Terminals] : Along(g, n, t, step)
    BY <1>0, <1>3, Recursion
  <2> QED
    BY <2>1 DEF Along
<1> HIDE DEF step
<1>6. ASSUME NEW j \in 1 .. n PROVE g[j] = Feed(g[j - 1], b[j])
  <2>1. g[j - 1] \in Terminals
    BY <1>0
  <2> QED
    BY <1>4, <1>5, <2>1
<1>7. Is(g)
  <2>1. \A j \in 0 .. n : g[j] = IF j = 0 THEN t ELSE Feed(g[j - 1], b[j])
    BY <1>0, <1>5, <1>6
  <2> QED
    BY <2>1
<1>8. Is(fed)
  <2> HIDE DEF Is
  <2> QED
    BY <1>7
<1> HIDE DEF fed
<1>9. DOMAIN fed = 0 .. n /\ fed[0] = t /\ \A j \in 1 .. n : fed[j] = Feed(fed[j - 1], b[j])
  BY <1>0, <1>8
<1>10. \A j \in 0 .. n : fed[j] \in Terminals
  <2> DEFINE T == {j \in 0 .. n : fed[j] \in Terminals}
  <2>1. 0 \in T
    BY <1>0, <1>9
  <2>2. ASSUME NEW j \in 0 .. n - 1, j \in T PROVE j + 1 \in T
    <3>1. j + 1 \in 1 .. n /\ j + 1 \in 0 .. n /\ (j + 1) - 1 = j
      BY <1>0
    <3>2. fed[j + 1] = Feed(fed[j], b[j + 1])
      BY <1>9, <3>1
    <3>3. fed[j + 1] \in Terminals
      BY <1>1, <2>2, <3>1, <3>2
    <3> QED
      BY <3>1, <3>3
  <2> HIDE DEF T
  <2>3. \A j \in 0 .. n : j \in T
    BY <1>0, <2>1, <2>2, Upward
  <2> QED
    BY <2>3 DEF T
<1>11. fed \in [0 .. n -> Terminals]
  BY <1>8, <1>10
<1> QED
  BY <1>2, <1>9, <1>11 DEF FedAlong


ModeSets == {modes \in SUBSET Modes : IsFiniteSet(modes)}

\* What ends at a byte names modes, finitely many.
LEMMA NamedAtModes ==
    ASSUME NEW b \in Seq(Characters), NEW j \in 1 .. Len(b)
    PROVE  NamedAt(b, j) \in ModeSets
<1>0. Len(b) \in Nat
  BY LenProperties
<1> PICK q \in Nat : j = q + 1
  <2>1. j - 1 \in Nat /\ j = (j - 1) + 1
    BY <1>0
  <2> QED
    BY <2>1
<1>1. CASE \E i \in 1 .. q : SequenceAt(b, i, j)
  <2> PICK i \in 1 .. q : SequenceAt(b, i, j)
    BY <1>1
  <2>1. NamedAt(b, j) = NamedIn(b, i, j)
    BY NamedOnce
  <2>2. i \in Int /\ j \in Int /\ 1 <= i /\ j <= Len(b)
    BY <1>0
  <2>3. NamedIn(b, i, j) \in SUBSET Modes /\ IsFiniteSet(NamedIn(b, i, j))
    BY <2>2, NamedModes
  <2> QED
    BY <2>1, <2>3 DEF ModeSets
<1>2. CASE ~\E i \in 1 .. q : SequenceAt(b, i, j)
  <2>1. NamedAt(b, j) = {}
    BY <1>2, NamedOnce
  <2> QED
    BY <2>1, FS_EmptySet DEF ModeSets
<1> QED
  BY <1>1, <1>2

LEMMA TurnedModes ==
    ASSUME NEW on \in ModeSets, NEW named \in ModeSets, NEW final
    PROVE  Turned(on, named, final) \in ModeSets
<1>1. IsFiniteSet(on) /\ IsFiniteSet(named) /\ on \in SUBSET Modes /\ named \in SUBSET Modes
  BY DEF ModeSets
<1>2. IsFiniteSet(on \cup named)
  BY <1>1, FS_Union
<1>3. IsFiniteSet(on \ named)
  BY <1>1, FS_Subset
<1> QED
  BY <1>1, <1>2, <1>3 DEF Turned, ModeSets

\* The modes that are on after each of n bytes.
UpdatedAlong(on, modes, b, n) ==
    /\ on \in [0 .. n -> ModeSets] /\ on[0] = modes /\ UpdatePrivateModes(b, modes) = on[n]
    /\ \A j \in 1 .. n : on[j] = Turned(on[j - 1], NamedAt(b, j), b[j])

\* What the daemon's scan comes to.
LEMMA UpdatedByByte ==
    ASSUME NEW modes \in ModeSets, NEW b \in Seq(Characters), NEW n, n = Len(b)
    PROVE  \E on : UpdatedAlong(on, modes, b, n)
<1>0. n \in Nat
  BY LenProperties
<1>1. ASSUME NEW x \in ModeSets, NEW j \in 1 .. n PROVE Turned(x, NamedAt(b, j), b[j]) \in ModeSets
  <2>1. NamedAt(b, j) \in ModeSets
    BY NamedAtModes
  <2> QED
    BY <2>1, TurnedModes
<1> DEFINE step == [x \in ModeSets \X (1 .. n) |-> Turned(x[1], NamedAt(b, x[2]), b[x[2]])]
<1> DEFINE Is(g) == g = [j \in 0 .. n |-> IF j = 0 THEN modes ELSE Turned(g[j - 1], NamedAt(b, j), b[j])]
<1> DEFINE on == CHOOSE g : Is(g)
<1>2. UpdatePrivateModes(b, modes) = on[n]
  BY DEF UpdatePrivateModes
<1>3. step \in [ModeSets \X (1 .. n) -> ModeSets]
  <2>1. ASSUME NEW x \in ModeSets \X (1 .. n) PROVE Turned(x[1], NamedAt(b, x[2]), b[x[2]]) \in ModeSets
    BY <1>1
  <2> QED
    BY <2>1
<1>4. \A x \in ModeSets : \A j \in 1 .. n : step[<<x, j>>] = Turned(x, NamedAt(b, j), b[j])
  OBVIOUS
<1>5. PICK g \in [0 .. n -> ModeSets] : g[0] = modes /\ \A j \in 1 .. n : g[j] = step[<<g[j - 1], j>>]
  <2> HIDE DEF step
  <2>1. \E g \in [0 .. n -> ModeSets] : Along(g, n, modes, step)
    BY <1>0, <1>3, Recursion
  <2> QED
    BY <2>1 DEF Along
<1> HIDE DEF step
<1>6. ASSUME NEW j \in 1 .. n PROVE g[j] = Turned(g[j - 1], NamedAt(b, j), b[j])
  <2>1. g[j - 1] \in ModeSets
    BY <1>0
  <2> QED
    BY <1>4, <1>5, <2>1
<1>7. Is(g)
  <2>1. \A j \in 0 .. n : g[j] = IF j = 0 THEN modes ELSE Turned(g[j - 1], NamedAt(b, j), b[j])
    BY <1>0, <1>5, <1>6
  <2> QED
    BY <2>1
<1>8. Is(on)
  <2> HIDE DEF Is
  <2> QED
    BY <1>7
<1> HIDE DEF on
<1>9. DOMAIN on = 0 .. n /\ on[0] = modes /\ \A j \in 1 .. n : on[j] = Turned(on[j - 1], NamedAt(b, j), b[j])
  BY <1>0, <1>8
<1>10. \A j \in 0 .. n : on[j] \in ModeSets
  <2> DEFINE T == {j \in 0 .. n : on[j] \in ModeSets}
  <2>1. 0 \in T
    BY <1>0, <1>9
  <2>2. ASSUME NEW j \in 0 .. n - 1, j \in T PROVE j + 1 \in T
    <3>1. j + 1 \in 1 .. n /\ j + 1 \in 0 .. n /\ (j + 1) - 1 = j
      BY <1>0
    <3>2. on[j + 1] = Turned(on[j], NamedAt(b, j + 1), b[j + 1])
      BY <1>9, <3>1
    <3>3. on[j + 1] \in ModeSets
      BY <1>1, <2>2, <3>1, <3>2
    <3> QED
      BY <3>1, <3>3
  <2> HIDE DEF T
  <2>3. \A j \in 0 .. n : j \in T
    BY <1>0, <2>1, <2>2, Upward
  <2> QED
    BY <2>3 DEF T
<1>11. on \in [0 .. n -> ModeSets]
  BY <1>8, <1>10
<1> QED
  BY <1>2, <1>9, <1>11 DEF UpdatedAlong


--------------------------------------------------------------------------------
(* A read of the daemon and a terminal's parser.                                   *)

\* A terminal is between sequences or in the middle of one.
Begun(pending) == pending = <<>> \/ Open(pending, 1, Len(pending))

\* The first k bytes end a sequence that names the mode.
NamedBy(b, k, setting) == \E j \in 1 .. k : setting \in NamedAt(b, j)

\* Bytes after those a terminal is in the middle of.
LEMMA Continued ==
    ASSUME NEW pending \in Seq(Characters), NEW b \in Seq(Characters),
           NEW whole, whole = pending \o b, NEW p, p = Len(pending), NEW n, n = Len(b)
    PROVE  /\ p \in Nat /\ n \in Nat /\ whole \in Seq(Characters) /\ Len(whole) = p + n
           /\ \A k \in 1 .. p : whole[k] = pending[k]
           /\ \A j \in 1 .. n : whole[p + j] = b[j]
           /\ PartOf(b, whole, p)
<1>1. p \in Nat /\ n \in Nat
  BY LenProperties
<1>2. /\ whole \in Seq(Characters) /\ Len(whole) = p + n
      /\ \A k \in 1 .. p + n : whole[k] = IF k <= p THEN pending[k] ELSE b[k - p]
  BY ConcatProperties
<1>3. ASSUME NEW k \in 1 .. p PROVE whole[k] = pending[k]
  <2>1. k \in 1 .. p + n /\ k <= p
    BY <1>1
  <2> QED
    BY <1>2, <2>1
<1>4. ASSUME NEW j \in 1 .. n PROVE whole[p + j] = b[j]
  <2>1. p + j \in 1 .. p + n /\ ~(p + j <= p) /\ (p + j) - p = j
    BY <1>1
  <2> QED
    BY <1>2, <2>1
<1>5. PartOf(b, whole, p)
  <2>1. \A j \in 1 .. n : j + p = p + j
    BY <1>1
  <2>2. n + p = p + n /\ p + n <= p + n
    BY <1>1
  <2> QED
    BY <1>1, <1>2, <1>4, <2>1, <2>2 DEF PartOf
<1> QED
  BY <1>1, <1>2, <1>3, <1>4, <1>5

LEMMA ParsedFirst ==
    ASSUME NEW pending \in Seq(Characters), NEW b \in Seq(Characters), Begun(pending),
           NEW whole, whole = pending \o b, NEW p, p = Len(pending)
    PROVE  Parsed(whole, p, pending)
<1>0. p \in Nat /\ whole \in Seq(Characters) /\ p <= Len(whole) /\ \A k \in 1 .. p : whole[k] = pending[k]
  <2> PICK n : n = Len(b)
    OBVIOUS
  <2>1. p \in Nat /\ n \in Nat /\ whole \in Seq(Characters) /\ Len(whole) = p + n
        /\ \A k \in 1 .. p : whole[k] = pending[k]
    BY Continued
  <2> QED
    BY <2>1
<1>1. CASE pending = <<>>
  <2>1. p = 0
    BY <1>1, EmptySeq
  <2> QED
    BY <1>1, <2>1 DEF Parsed
<1>2. CASE Open(pending, 1, p)
  <2>1. 1 \in 1 .. p
    BY <1>2 DEF Open
  <2>2. Open(whole, 1, p)
    <3>1. ASSUME NEW k \in 2 .. p PROVE whole[k] = pending[k]
      BY <1>0
    <3> QED
      BY <1>0, <1>2, <2>1, <3>1 DEF Open
  <2>3. SubSeq(whole, 1, p) = pending
    <3>1. 1 \in Int /\ p \in Int /\ 1 <= 1 /\ p <= Len(whole) /\ 1 <= p + 1 /\ p - 1 + 1 = p
      BY <1>0
    <3> PICK w : w = SubSeq(whole, 1, p)
      OBVIOUS
    <3>2. /\ w \in Seq(Characters) /\ Len(w) = p - 1 + 1
          /\ \A k \in 1 .. p - 1 + 1 : w[k] = whole[1 + k - 1]
      BY <1>0, <3>1, Part
    <3>3. ASSUME NEW k \in 1 .. p PROVE w[k] = pending[k]
      <4>1. 1 + k - 1 = k /\ k \in 1 .. p - 1 + 1
        BY <3>1
      <4> QED
        BY <1>0, <3>2, <4>1
    <3>4. w = pending
      BY <3>1, <3>2, <3>3, SeqEqual
    <3> QED
      BY <3>4
  <2>4. \A i \in 1 .. p : Open(whole, i, p) => i = 1
    BY <1>0, <2>1, <2>2, OpenFacts
  <2> QED
    BY <2>1, <2>2, <2>3, <2>4 DEF Parsed
<1> QED
  BY <1>1, <1>2 DEF Begun

\* What ends in the whole ends in the bytes, or straggles.
EndsOrStraggles(pending, b, whole, p, j, y, setting) ==
    /\ setting \in NamedAt(b, j) => setting \in NamedAt(whole, y)
    /\ setting \in NamedAt(whole, y) /\ setting \notin NamedAt(b, j) =>
         /\ setting \in Straggling(pending, b)
         /\ \E i \in 1 .. p : SequenceAt(whole, i, y)

LEMMA NamedWhole ==
    ASSUME NEW pending \in Seq(Characters), NEW b \in Seq(Characters),
           NEW whole, whole = pending \o b, NEW p, p = Len(pending), NEW n, n = Len(b),
           NEW j \in 1 .. n, NEW y, y = p + j, NEW setting
    PROVE  EndsOrStraggles(pending, b, whole, p, j, y, setting)
<1>0. p \in Nat /\ n \in Nat /\ whole \in Seq(Characters) /\ Len(whole) = p + n /\ PartOf(b, whole, p)
  <2>1. p \in Nat /\ n \in Nat /\ whole \in Seq(Characters) /\ Len(whole) = p + n
    BY Continued
  <2>2. PartOf(b, whole, p)
    BY Continued
  <2> QED
    BY <2>1, <2>2
<1>1. j \in 1 .. Len(b) /\ y = j + p /\ y \in 1 .. p + n
  BY <1>0
<1>2. ASSUME NEW i \in 1 .. j, NEW x, x = i + p
      PROVE  Reads(b, i, j, whole, x, y)
  <2>1. i \in Nat \ {0}
    OBVIOUS
  <2> QED
    BY <1>0, <1>1, <1>2, <2>1, NamedPart, Zenon
<1>3. ASSUME setting \in NamedAt(b, j) PROVE setting \in NamedAt(whole, y)
  <2>1. PICK i \in 1 .. j : SequenceAt(b, i, j) /\ setting \in NamedIn(b, i, j)
    BY <1>3 DEF NamedAt
  <2> PICK x : x = i + p
    OBVIOUS
  <2>2. x \in 1 .. y
    BY <1>0
  <2>3. SequenceAt(whole, x, y) /\ setting \in NamedIn(whole, x, y)
    BY <1>2, <2>1 DEF Reads
  <2> QED
    BY <2>2, <2>3 DEF NamedAt
<1>4. ASSUME setting \in NamedAt(whole, y), setting \notin NamedAt(b, j)
      PROVE  setting \in Straggling(pending, b) /\ \E i \in 1 .. p : SequenceAt(whole, i, y)
  <2>1. PICK x \in 1 .. y : SequenceAt(whole, x, y) /\ setting \in NamedIn(whole, x, y)
    BY <1>4 DEF NamedAt
  <2>2. x \in 1 .. p
    <3> SUFFICES ASSUME x \notin 1 .. p PROVE FALSE
      OBVIOUS
    <3> PICK i \in 1 .. j : x = i + p
      <4>1. x - p \in 1 .. j /\ x = (x - p) + p
        BY <1>0
      <4> QED
        BY <4>1
    <3>1. SequenceAt(b, i, j) /\ setting \in NamedIn(b, i, j)
      BY <1>2, <2>1 DEF Reads
    <3>2. setting \in NamedAt(b, j)
      BY <3>1 DEF NamedAt
    <3> QED
      BY <1>4, <3>2
  <2> PICK s : s = <<x, y>>
    OBVIOUS
  <2>3. s \in (1 .. Len(pending)) \X (1 .. Len(whole)) /\ SequenceAt(whole, s[1], s[2]) /\ setting \in NamedIn(whole, s[1], s[2])
    BY <1>0, <1>1, <2>1, <2>2
  <2>4. setting \in Straggling(pending, b)
    BY <2>3 DEF Straggling
  <2> QED
    BY <2>1, <2>2, <2>4
<1> QED
  BY <1>3, <1>4 DEF EndsOrStraggles

\* Before a straggler ends nothing else does.
LEMMA StragglerFirst ==
    ASSUME NEW pending \in Seq(Characters), NEW b \in Seq(Characters),
           NEW whole, whole = pending \o b, NEW p, p = Len(pending), NEW n, n = Len(b),
           NEW q \in 0 .. n - 1, NEW y, y = p + (q + 1),
           NEW i \in 1 .. p, SequenceAt(whole, i, y), NEW setting
    PROVE  ~NamedBy(b, q, setting)
<1>0. p \in Nat /\ n \in Nat /\ \A j \in 1 .. n : whole[p + j] = b[j]
  BY Continued
<1> SUFFICES ASSUME NEW j \in 1 .. q, setting \in NamedAt(b, j) PROVE FALSE
  BY DEF NamedBy
<1>1. PICK l \in 1 .. j : SequenceAt(b, l, j)
  BY DEF NamedAt
<1>2. l \in 1 .. n /\ b[l] = "esc"
  <2>1. l \in 1 .. n
    BY <1>0
  <2> QED
    BY <1>1, <2>1 DEF SequenceAt
<1>3. whole[p + l] = "esc"
  BY <1>0, <1>2
<1>4. Open(whole, i, p + q)
  <2> PICK r \in Nat : r = p + q
    BY <1>0
  <2>1. SequenceAt(whole, i, r + 1) /\ i \in Nat \ {0}
    <3>1. r + 1 = y
      BY <1>0
    <3> QED
      BY <3>1
  <2> QED
    BY <2>1, SequenceOpen
<1>5. p + l \in i + 1 .. p + q
  BY <1>0
<1>6. whole[p + l] \in Goes \/ whole[p + l] = "["
  BY <1>4, <1>5 DEF Open
<1> QED
  BY <1>3, <1>6 DEF Goes, Digits


\* A terminal at each of n bytes, as the whole tells.
ReadAlong(fed, t, b, n, whole, p) ==
    /\ fed \in [0 .. n -> Terminals] /\ fed[0] = t /\ FeedAll(t, b) = fed[n]
    /\ \A j \in 0 .. n : Parsed(whole, p + j, fed[j].pending)
    /\ \A j \in 1 .. n : fed[j].on = Turned(fed[j - 1].on, NamedAt(whole, p + j), b[j])

LEMMA ReadByByte ==
    ASSUME NEW t \in Terminals, Begun(t.pending), NEW b \in Seq(Characters),
           NEW whole, whole = t.pending \o b, NEW p, p = Len(t.pending), NEW n, n = Len(b)
    PROVE  \E fed : ReadAlong(fed, t, b, n, whole, p)
<1> PICK pending \in Seq(Characters) : pending = t.pending
  BY DEF Terminals
<1>0. p \in Nat /\ n \in Nat /\ whole \in Seq(Characters) /\ Len(whole) = p + n
      /\ \A j \in 1 .. n : whole[p + j] = b[j]
  BY Continued
<1> PICK fed : FedAlong(fed, t, b, n)
  BY FedByByte
<1>1. /\ fed \in [0 .. n -> Terminals] /\ fed[0] = t /\ FeedAll(t, b) = fed[n]
      /\ \A j \in 1 .. n : fed[j] = Feed(fed[j - 1], b[j])
  BY DEF FedAlong
<1>2. ASSUME NEW q \in 0 .. n - 1, NEW j \in 1 .. n, j = q + 1, Parsed(whole, p + q, fed[q].pending)
      PROVE  /\ Parsed(whole, p + j, fed[j].pending)
             /\ fed[j].on = Turned(fed[q].on, NamedAt(whole, p + j), b[j])
  <2> PICK f, g : f = fed[q] /\ g = fed[j]
    OBVIOUS
  <2> PICK r \in Nat : r = p + q
    BY <1>0
  <2> PICK l \in Nat : l = Len(whole)
    BY <1>0
  <2>1. j - 1 = q /\ p + j = r + 1 /\ r + 1 <= l /\ q \in 0 .. n
    <3>1. l = p + n
      BY <1>0
    <3>2. p \in Int /\ n \in Int /\ q \in Int /\ 0 <= q /\ q <= n - 1 /\ j = q + 1 /\ r = p + q
      BY <1>0, <1>2
    <3> QED
      BY <3>1, <3>2 DEF Terminals
  <2>2. f \in Terminals /\ Parsed(whole, r, f.pending)
    BY <1>1, <1>2, <2>1
  <2>3. whole[r + 1] = b[j]
    BY <1>0, <2>1
  <2>4. g = Feed(f, whole[r + 1])
    BY <1>1, <2>1, <2>3
  <2>5. /\ Parsed(whole, r + 1, g.pending)
        /\ g.on = Turned(f.on, NamedAt(whole, r + 1), whole[r + 1])
    <3>1. r + 1 <= Len(whole)
      BY <2>1
    <3>2. FedAt(f, g, whole, r + 1)
      BY <1>0, <2>2, <2>4, <3>1, FeedStep
    <3> QED
      BY <3>2 DEF FedAt
  <2> QED
    BY <2>1, <2>3, <2>5
<1> DEFINE T == {j \in 0 .. n : Parsed(whole, p + j, fed[j].pending)}
<1>3. 0 \in T
  <2>1. Parsed(whole, p, pending)
    BY ParsedFirst
  <2>2. p + 0 = p /\ 0 \in 0 .. n
    BY <1>0
  <2> QED
    BY <1>1, <2>1, <2>2
<1>4. ASSUME NEW q \in 0 .. n - 1, q \in T PROVE q + 1 \in T
  <2> PICK j \in 1 .. n : j = q + 1
    BY <1>0
  <2>1. Parsed(whole, p + j, fed[j].pending)
    BY <1>2, <1>4
  <2>2. j \in 0 .. n
    BY <1>0
  <2> QED
    BY <2>1, <2>2
<1>5. \A j \in 0 .. n : Parsed(whole, p + j, fed[j].pending)
  <2> HIDE DEF T
  <2>1. \A j \in 0 .. n : j \in T
    BY <1>0, <1>3, <1>4, Upward
  <2> QED
    BY <2>1 DEF T
<1>6. ASSUME NEW j \in 1 .. n PROVE fed[j].on = Turned(fed[j - 1].on, NamedAt(whole, p + j), b[j])
  <2> PICK q \in 0 .. n - 1 : q = j - 1
    BY <1>0
  <2>1. j = q + 1 /\ q \in 0 .. n
    BY <1>0
  <2> QED
    BY <1>2, <1>5, <2>1
<1> QED
  BY <1>1, <1>5, <1>6 DEF ReadAlong

\* What a terminal has made of the first k bytes, beside what the daemon has.
Agrees(t, b, modes, fed, on, k, setting) ==
    /\ NamedBy(b, k, setting) => (setting \in fed.on <=> setting \in on)
    /\ ~NamedBy(b, k, setting) => (setting \in on <=> setting \in modes)
    /\ ~NamedBy(b, k, setting) /\ setting \notin Straggling(t.pending, b) => (setting \in fed.on <=> setting \in t.on)

\* A terminal and the daemon's modes before and after the byte j of a read.
Onward(t, b, j, f, g, o, w) ==
    /\ w = Turned(o, NamedAt(b, j), b[j])
    /\ g.on = Turned(f.on, NamedAt(t.pending \o b, Len(t.pending) + j), b[j])

\* One byte more of a read.
LEMMA AgreesStep ==
    ASSUME NEW t \in Terminals, NEW b \in Seq(Characters), NEW modes, NEW setting,
           NEW q \in 0 .. Len(b) - 1, NEW j, j = q + 1,
           NEW f, NEW g, NEW o, NEW w, Onward(t, b, j, f, g, o, w), Agrees(t, b, modes, f, o, q, setting)
    PROVE  Agrees(t, b, modes, g, w, j, setting)
<1> PICK whole, p, n : whole = t.pending \o b /\ p = Len(t.pending) /\ n = Len(b)
  OBVIOUS
<1> PICK y : y = p + j
  OBVIOUS
<1>0. n \in Nat /\ j \in 1 .. n /\ q \in 0 .. n - 1
  <2>1. n \in Nat
    BY LenProperties
  <2> QED
    BY <2>1
<1>10. w = Turned(o, NamedAt(b, j), b[j]) /\ g.on = Turned(f.on, NamedAt(whole, y), b[j])
  BY DEF Onward
<1> PICK pending \in Seq(Characters) : pending = t.pending
  BY DEF Terminals
<1>1. NamedBy(b, j, setting) <=> NamedBy(b, q, setting) \/ setting \in NamedAt(b, j)
  <2>1. \A k : k \in 1 .. j <=> k \in 1 .. q \/ k = j
    BY <1>0
  <2> QED
    BY <2>1 DEF NamedBy
<1>2. EndsOrStraggles(pending, b, whole, p, j, y, setting)
  BY <1>0, NamedWhole
<1>3. setting \in NamedAt(b, j) => setting \in NamedAt(whole, y)
  BY <1>2 DEF EndsOrStraggles
<1>4. setting \in NamedAt(whole, y) /\ setting \notin NamedAt(b, j) =>
        /\ setting \in Straggling(pending, b)
        /\ \E i \in 1 .. p : SequenceAt(whole, i, y)
  BY <1>2 DEF EndsOrStraggles
<1>5. /\ setting \in NamedAt(b, j) => (setting \in w <=> b[j] = "h")
      /\ setting \notin NamedAt(b, j) => (setting \in w <=> setting \in o)
  BY <1>10 DEF Turned
<1> PICK x, v : x = g.on /\ v = f.on
  OBVIOUS
<1>6. /\ setting \in NamedAt(whole, y) => (setting \in x <=> b[j] = "h")
      /\ setting \notin NamedAt(whole, y) => (setting \in x <=> setting \in v)
  <2>1. x = Turned(v, NamedAt(whole, y), b[j])
    BY <1>10
  <2> QED
    BY <2>1 DEF Turned
<1>7. CASE setting \in NamedAt(b, j)
  BY <1>1, <1>3, <1>5, <1>6, <1>7 DEF Agrees
<1>8. CASE setting \notin NamedAt(whole, y)
  <2>1. setting \notin NamedAt(b, j)
    BY <1>3, <1>8
  <2>2. NamedBy(b, j, setting) <=> NamedBy(b, q, setting)
    BY <1>1, <2>1
  <2>3. (setting \in w <=> setting \in o) /\ (setting \in g.on <=> setting \in f.on)
    BY <1>5, <1>6, <1>8, <2>1
  <2> QED
    BY <2>2, <2>3 DEF Agrees
<1>9. CASE setting \in NamedAt(whole, y) /\ setting \notin NamedAt(b, j)
  <2>1. PICK i \in 1 .. p : SequenceAt(whole, i, y)
    BY <1>4, <1>9
  <2>2. ~NamedBy(b, q, setting)
    <3>1. y = p + (q + 1)
      OBVIOUS
    <3> QED
      BY <1>0, <2>1, <3>1, StragglerFirst
  <2>3. ~NamedBy(b, j, setting)
    BY <1>1, <1>9, <2>2
  <2>4. setting \in w <=> setting \in o
    BY <1>5, <1>9
  <2>5. setting \in o <=> setting \in modes
    BY <2>2 DEF Agrees
  <2>6. setting \in Straggling(t.pending, b)
    BY <1>4, <1>9
  <2> QED
    BY <2>3, <2>4, <2>5, <2>6 DEF Agrees
<1> QED
  BY <1>7, <1>8, <1>9

\* A read turns the modes it names alike for the daemon and for any terminal, and
\* the others not at all, but for the terminal's stragglers.
LEMMA ReadAgrees ==
    ASSUME NEW t \in Terminals, Begun(t.pending), NEW b \in Seq(Characters), NEW modes \in ModeSets,
           NEW n, n = Len(b), NEW setting
    PROVE  Agrees(t, b, modes, FeedAll(t, b), UpdatePrivateModes(b, modes), n, setting)
<1> PICK whole : whole = t.pending \o b
  OBVIOUS
<1> PICK p : p = Len(t.pending)
  OBVIOUS
<1>0. n \in Nat
  BY LenProperties
<1> PICK fed : ReadAlong(fed, t, b, n, whole, p)
  BY ReadByByte
<1>1. /\ fed[0] = t /\ FeedAll(t, b) = fed[n]
      /\ \A j \in 1 .. n : fed[j].on = Turned(fed[j - 1].on, NamedAt(whole, p + j), b[j])
  BY DEF ReadAlong
<1> PICK on : UpdatedAlong(on, modes, b, n)
  BY UpdatedByByte
<1>2. /\ on[0] = modes /\ UpdatePrivateModes(b, modes) = on[n]
      /\ \A j \in 1 .. n : on[j] = Turned(on[j - 1], NamedAt(b, j), b[j])
  BY DEF UpdatedAlong
<1> DEFINE T == {j \in 0 .. n : Agrees(t, b, modes, fed[j], on[j], j, setting)}
<1>3. 0 \in T
  <2>1. ~NamedBy(b, 0, setting)
    BY DEF NamedBy
  <2>2. Agrees(t, b, modes, t, modes, 0, setting)
    BY <2>1 DEF Agrees
  <2>3. 0 \in 0 .. n
    BY <1>0
  <2> QED
    BY <1>1, <1>2, <2>2, <2>3
<1>4. ASSUME NEW q \in 0 .. n - 1, q \in T PROVE q + 1 \in T
  <2> PICK j \in 1 .. n : j = q + 1
    BY <1>0
  <2> PICK f, g, o, w : f = fed[q] /\ g = fed[j] /\ o = on[q] /\ w = on[j]
    OBVIOUS
  <2> PICK y : y = p + j
    OBVIOUS
  <2>1. j - 1 = q /\ j \in 0 .. n
    BY <1>0
  <2>2. w = Turned(o, NamedAt(b, j), b[j])
    BY <1>2, <2>1
  <2>3. g.on = Turned(f.on, NamedAt(whole, y), b[j])
    BY <1>1, <2>1
  <2>4. Agrees(t, b, modes, f, o, q, setting)
    BY <1>4
  <2>5. Onward(t, b, j, f, g, o, w)
    BY <2>2, <2>3 DEF Onward
  <2>6. Agrees(t, b, modes, g, w, j, setting)
    BY <2>4, <2>5, AgreesStep
  <2> QED
    BY <2>1, <2>6
<1>5. n \in T
  <2> HIDE DEF T
  <2>1. \A j \in 0 .. n : j \in T
    BY <1>0, <1>3, <1>4, Upward
  <2>2. n \in 0 .. n
    BY <1>0
  <2> QED
    BY <2>1, <2>2
<1> QED
  BY <1>1, <1>2, <1>5

\* A read leaves a terminal in the middle of what is open then.
LEMMA ReadLeaves ==
    ASSUME NEW t \in Terminals, Begun(t.pending), NEW b \in Seq(Characters),
           NEW whole, whole = t.pending \o b, NEW p, p = Len(t.pending), NEW n, n = Len(b)
    PROVE  FeedAll(t, b) \in Terminals /\ Parsed(whole, p + n, FeedAll(t, b).pending)
<1>0. n \in Nat
  BY LenProperties
<1> PICK fed : ReadAlong(fed, t, b, n, whole, p)
  BY ReadByByte
<1>1. /\ fed \in [0 .. n -> Terminals] /\ FeedAll(t, b) = fed[n]
      /\ \A j \in 0 .. n : Parsed(whole, p + j, fed[j].pending)
  BY DEF ReadAlong
<1> QED
  BY <1>0, <1>1


\* There is one thing that can be open.
LEMMA ParsedSame ==
    ASSUME NEW s, NEW q, NEW x, NEW y, Parsed(s, q, x), Parsed(s, q, y)
    PROVE  x = y
<1>1. CASE \A i \in 1 .. q : ~Open(s, i, q)
  BY <1>1 DEF Parsed
<1>2. CASE \E i \in 1 .. q : Open(s, i, q)
  <2> PICK i \in 1 .. q : Open(s, i, q)
    BY <1>2
  <2>1. x = SubSeq(s, i, q) /\ y = SubSeq(s, i, q)
    BY DEF Parsed
  <2> QED
    BY <2>1
<1> QED
  BY <1>1, <1>2

\* What is open has begun.
LEMMA ParsedBegun ==
    ASSUME NEW s \in Seq(Characters), NEW q \in 0 .. Len(s), NEW pending, Parsed(s, q, pending)
    PROVE  Begun(pending)
<1>1. CASE \A i \in 1 .. q : ~Open(s, i, q)
  BY <1>1 DEF Parsed, Begun
<1>2. CASE \E i \in 1 .. q : Open(s, i, q)
  <2> PICK i \in 1 .. q : Open(s, i, q)
    BY <1>2
  <2> PICK l \in Nat : l = Len(s)
    BY LenProperties
  <2>1. i \in Int /\ q \in Int /\ 1 <= i /\ i <= q /\ q <= l
    OBVIOUS
  <2> PICK n \in Nat : n = q - i + 1
    BY <2>1
  <2>2. pending = SubSeq(s, i, q)
    BY DEF Parsed
  <2>3. Len(pending) = n /\ \A k \in 1 .. n : pending[k] = s[i + k - 1]
    <3>1. 1 <= i /\ q <= Len(s) /\ i <= q + 1
      BY <2>1
    <3>2. Len(SubSeq(s, i, q)) = q - i + 1 /\ \A k \in 1 .. q - i + 1 : SubSeq(s, i, q)[k] = s[i + k - 1]
      BY <2>1, <3>1, Part
    <3> QED
      BY <2>2, <3>2
  <2>4. Open(pending, 1, n)
    <3>1. 1 \in 1 .. n /\ i + 1 - 1 = i
      BY <2>1
    <3>2. pending[1] = "esc"
      BY <2>3, <3>1 DEF Open
    <3>3. ASSUME NEW k \in 2 .. n PROVE pending[k] \in Goes \/ (k = 2 /\ pending[k] = "[")
      <4>1. i + k - 1 \in i + 1 .. q /\ k \in 1 .. n /\ (i + k - 1 = i + 1 => k = 2)
        BY <2>1
      <4>2. pending[k] = s[i + k - 1]
        BY <2>3, <4>1
      <4> QED
        BY <4>1, <4>2 DEF Open
    <3> QED
      BY <3>1, <3>2, <3>3 DEF Open
  <2> QED
    BY <2>3, <2>4 DEF Begun
<1> QED
  BY <1>1, <1>2

\* What is open in the bytes that end the whole is open in the whole.
OpenInBoth(whole, b, p, n, i) ==
    Open(whole, p + i, p + n) /\ SubSeq(b, i, n) = SubSeq(whole, p + i, p + n)

LEMMA SuffixSame ==
    ASSUME NEW whole \in Seq(Characters), NEW b \in Seq(Characters), NEW p \in Nat, NEW n \in Nat,
           Len(b) = n, Len(whole) = p + n, \A j \in 1 .. n : whole[p + j] = b[j],
           NEW i \in 1 .. n, Open(b, i, n)
    PROVE  OpenInBoth(whole, b, p, n, i)
<1> USE DEF OpenInBoth
<1> PICK x \in Nat, q \in Nat : x = p + i /\ q = p + n
  OBVIOUS
<1>1. x \in 1 .. q
  OBVIOUS
<1>2. ASSUME NEW k \in x .. q PROVE k - p \in i .. n /\ whole[k] = b[k - p]
  <2>1. k - p \in i .. n /\ k - p \in 1 .. n /\ p + (k - p) = k
    OBVIOUS
  <2>2. whole[p + (k - p)] = b[k - p]
    BY <2>1
  <2> QED
    BY <2>1, <2>2
<1>3. Open(whole, x, q)
  <2>1. x \in x .. q /\ x - p = i
    OBVIOUS
  <2>2. whole[x] = "esc"
    BY <1>2, <2>1 DEF Open
  <2>3. ASSUME NEW k \in x + 1 .. q PROVE whole[k] \in Goes \/ (k = x + 1 /\ whole[k] = "[")
    <3>1. k \in x .. q /\ k - p \in i + 1 .. n /\ (k - p = i + 1 => k = x + 1)
      OBVIOUS
    <3>2. whole[k] = b[k - p]
      BY <1>2, <3>1
    <3> QED
      BY <3>1, <3>2 DEF Open
  <2> QED
    BY <1>1, <2>2, <2>3 DEF Open
<1>4. SubSeq(b, i, n) = SubSeq(whole, x, q)
  <2> PICK l \in Nat : l = n - i + 1
    OBVIOUS
  <2> PICK c, d : c = SubSeq(b, i, n) /\ d = SubSeq(whole, x, q)
    OBVIOUS
  <2>1. i \in Int /\ n \in Int /\ 1 <= i /\ n <= Len(b) /\ i <= n + 1 /\ q - x + 1 = l
    OBVIOUS
  <2>2. x \in Int /\ q \in Int /\ 1 <= x /\ q <= Len(whole) /\ x <= q + 1
    OBVIOUS
  <2>3. c \in Seq(Characters) /\ Len(c) = n - i + 1 /\ \A k \in 1 .. n - i + 1 : c[k] = b[i + k - 1]
    BY <2>1, Part
  <2>4. d \in Seq(Characters) /\ Len(d) = q - x + 1 /\ \A k \in 1 .. q - x + 1 : d[k] = whole[x + k - 1]
    BY <2>2, Part
  <2>5. ASSUME NEW k \in 1 .. l PROVE c[k] = d[k]
    <3>1. x + k - 1 \in x .. q /\ (x + k - 1) - p = i + k - 1
      OBVIOUS
    <3>2. whole[x + k - 1] = b[i + k - 1]
      BY <1>2, <3>1
    <3> QED
      BY <2>1, <2>3, <2>4, <3>2
  <2>6. c = d
    BY <2>1, <2>3, <2>4, <2>5, SeqEqual
  <2> QED
    BY <2>6
<1> QED
  BY <1>3, <1>4

\* A terminal between sequences stays so, or gets into the middle of what the other is in.
LEMMA InTheSame ==
    ASSUME NEW t \in Terminals, NEW v \in Terminals, NEW b \in Seq(Characters), Begun(v.pending),
           t.pending = <<>> \/ t.pending = v.pending
    PROVE  /\ FeedAll(t, b).pending = <<>> \/ FeedAll(t, b).pending = FeedAll(v, b).pending
           /\ Begun(FeedAll(v, b).pending)
<1> PICK f, g : f = FeedAll(t, b) /\ g = FeedAll(v, b)
  OBVIOUS
<1> PICK pending \in Seq(Characters) : pending = v.pending
  BY DEF Terminals
<1> PICK whole, p, n : whole = pending \o b /\ p = Len(pending) /\ n = Len(b)
  OBVIOUS
<1>0. /\ p \in Nat /\ n \in Nat /\ whole \in Seq(Characters) /\ Len(whole) = p + n
      /\ \A j \in 1 .. n : whole[p + j] = b[j]
  BY Continued
<1>1. Parsed(whole, p + n, g.pending)
  BY ReadLeaves
<1>2. Begun(g.pending)
  <2> PICK q \in Nat : q = p + n
    BY <1>0
  <2>1. q \in 0 .. Len(whole)
    BY <1>0
  <2> QED
    BY <1>0, <1>1, <2>1, ParsedBegun
<1>3. CASE t.pending = v.pending
  <2>1. Parsed(whole, p + n, f.pending)
    BY <1>3, ReadLeaves
  <2> QED
    BY <1>1, <1>2, <2>1, ParsedSame
<1>4. CASE t.pending = <<>>
  <2>1. Parsed(b, n, f.pending)
    <3>1. b = <<>> \o b
      BY ConcatEmptySeq
    <3>2. Len(<<>>) = 0
      BY EmptySeq
    <3>3. Begun(<<>>)
      BY DEF Begun
    <3>4. Parsed(b, 0 + n, f.pending)
      BY <1>4, <3>1, <3>2, <3>3, ReadLeaves
    <3>5. 0 + n = n
      BY <1>0
    <3> QED
      BY <3>4, <3>5
  <2>2. CASE \A i \in 1 .. n : ~Open(b, i, n)
    <3>1. f.pending = <<>>
      BY <2>1, <2>2 DEF Parsed
    <3> QED
      BY <1>2, <3>1
  <2>3. CASE \E i \in 1 .. n : Open(b, i, n)
    <3> PICK i \in 1 .. n : Open(b, i, n)
      BY <2>3
    <3>1. Open(whole, p + i, p + n) /\ SubSeq(b, i, n) = SubSeq(whole, p + i, p + n)
      <4>1. OpenInBoth(whole, b, p, n, i)
        BY <1>0, SuffixSame
      <4> QED
        BY <4>1 DEF OpenInBoth
    <3>2. p + i \in 1 .. p + n
      BY <1>0
    <3>3. f.pending = SubSeq(b, i, n) /\ g.pending = SubSeq(whole, p + i, p + n)
      BY <1>1, <2>1, <3>1, <3>2 DEF Parsed
    <3> QED
      BY <1>2, <3>1, <3>3
  <2> QED
    BY <2>2, <2>3
<1> QED
  BY <1>3, <1>4


--------------------------------------------------------------------------------
(* The lead.                                                                       *)

Piece(m) == ModeSequence(m, "h")

\* A mode has no semicolon: it is its one field.
LEMMA OneField == ASSUME NEW m \in Modes PROVE Fields(m) = {m}
<1> PICK n : n = Len(m)
  OBVIOUS
<1>1. m \in Seq(Digits) /\ n \in Nat \ {0} /\ DOMAIN m = 1 .. n
  BY EmptySeq, LenProperties DEF Modes
<1>2. ASSUME NEW k \in 1 .. n PROVE m[k] # ";"
  <2>1. m[k] \in Digits
    BY <1>1, ElementOfSeq
  <2> QED
    BY <2>1 DEF Digits
<1> DEFINE D == {f \in (DOMAIN m) \X (DOMAIN m) :
            /\ f[1] <= f[2] /\ \A k \in f[1] .. f[2] : m[k] # ";"
            /\ f[1] = 1 \/ m[f[1] - 1] = ";"
            /\ f[2] = Len(m) \/ m[f[2] + 1] = ";"}
<1>3. ASSUME NEW i \in 1 .. n, NEW j \in 1 .. n, i = 1 \/ m[i - 1] = ";", j = n \/ m[j + 1] = ";"
      PROVE  i = 1 /\ j = n
  <2>1. i # 1 => i - 1 \in 1 .. n
    BY <1>1
  <2>2. j # n => j + 1 \in 1 .. n
    BY <1>1
  <2> QED
    BY <1>2, <1>3, <2>1, <2>2
<1>4. ASSUME NEW f \in D PROVE f = <<1, n>>
  <2>1. f \in (1 .. n) \X (1 .. n) /\ (f[1] = 1 \/ m[f[1] - 1] = ";") /\ (f[2] = n \/ m[f[2] + 1] = ";")
    BY <1>1
  <2> HIDE DEF D
  <2>2. f = <<f[1], f[2]>> /\ f[1] \in 1 .. n /\ f[2] \in 1 .. n
    <3>1. \A S : f \in S \X S => f = <<f[1], f[2]>> /\ f[1] \in S /\ f[2] \in S
      OBVIOUS
    <3> QED
      BY <2>1, <3>1
  <2>3. f[1] = 1 /\ f[2] = n
    BY <1>3, <2>1, <2>2
  <2> QED
    BY <2>2, <2>3
<1>9. <<1, n>> \in D
  <2>1. 1 \in 1 .. n /\ n \in 1 .. n /\ 1 <= n
    BY <1>1
  <2>2. <<1, n>> \in (DOMAIN m) \X (DOMAIN m)
    BY <1>1, <2>1
  <2> QED
    BY <1>2, <2>1, <2>2
<1>5. Fields(m) = {SubSeq(m, f[1], f[2]) : f \in D}
  BY DEF Fields
<1> HIDE DEF D
<1>6. D = {<<1, n>>}
  BY <1>4, <1>9
<1>7. Fields(m) = {SubSeq(m, 1, n)}
  BY <1>5, <1>6
<1>8. SubSeq(m, 1, n) = m
  BY <1>1, SubSeqFull
<1> QED
  BY <1>7, <1>8

LEMMA PieceBytes ==
    ASSUME NEW m \in Modes, NEW c, c = Piece(m)
    PROVE  \E n \in Nat \ {0} :
              /\ n = Len(m) /\ c \in Seq(Characters) /\ Len(c) = n + 4
              /\ c[1] = "esc" /\ c[2] = "[" /\ c[3] = "?" /\ c[n + 4] = "h"
              /\ \A k \in 1 .. n : c[k + 3] = m[k]
              /\ \A k \in 4 .. n + 3 : c[k] \in Digits
<1> PICK n \in Nat \ {0} : n = Len(m)
  BY EmptySeq, LenProperties DEF Modes
<1> PICK x, y : x = <<"esc", "[", "?">> /\ y = <<"h">>
  OBVIOUS
<1>1. x \in Seq(Characters) /\ Len(x) = 3 /\ x[1] = "esc" /\ x[2] = "[" /\ x[3] = "?"
  <2>1. "esc" \in Characters /\ "[" \in Characters /\ "?" \in Characters
    BY DEF Characters
  <2> QED
    BY <2>1
<1>2. y \in Seq(Characters) /\ Len(y) = 1 /\ y[1] = "h"
  <2>1. "h" \in Characters
    BY DEF Characters
  <2> QED
    BY <2>1
<1>3. m \in Seq(Characters) /\ \A k \in 1 .. n : m[k] \in Digits
  <2>1. m \in Seq(Digits)
    BY DEF Modes
  <2>2. Digits \subseteq Characters
    BY DEF Characters
  <2> QED
    BY <2>1, <2>2, SeqMonotonic, ElementOfSeq
<1> PICK w : w = x \o m
  OBVIOUS
<1>4. /\ w \in Seq(Characters) /\ Len(w) = 3 + n
      /\ \A i \in 1 .. 3 + n : w[i] = IF i <= 3 THEN x[i] ELSE m[i - 3]
  BY <1>1, <1>3, ConcatProperties
<1>5. c = w \o y
  BY DEF Piece, ModeSequence
<1>6. /\ c \in Seq(Characters) /\ Len(c) = (3 + n) + 1
      /\ \A i \in 1 .. (3 + n) + 1 : c[i] = IF i <= 3 + n THEN w[i] ELSE y[i - (3 + n)]
  BY <1>2, <1>4, <1>5, ConcatProperties
<1>7. \A i \in 1 .. 3 + n : c[i] = w[i]
  BY <1>6
<1>8. c[1] = "esc" /\ c[2] = "[" /\ c[3] = "?"
  BY <1>1, <1>4, <1>7
<1>9. c[n + 4] = "h"
  <2>1. n + 4 \in 1 .. (3 + n) + 1 /\ ~(n + 4 <= 3 + n) /\ (n + 4) - (3 + n) = 1
    OBVIOUS
  <2> QED
    BY <1>2, <1>6, <2>1
<1>10. ASSUME NEW k \in 1 .. n PROVE c[k + 3] = m[k]
  <2>1. k + 3 \in 1 .. 3 + n /\ ~(k + 3 <= 3) /\ (k + 3) - 3 = k
    OBVIOUS
  <2> QED
    BY <1>4, <1>7, <2>1
<1>11. ASSUME NEW k \in 4 .. n + 3 PROVE c[k] \in Digits
  <2> PICK i \in 1 .. n : k = i + 3
    <3>1. k - 3 \in 1 .. n /\ k = (k - 3) + 3
      OBVIOUS
    <3> QED
      BY <3>1
  <2> QED
    BY <1>3, <1>10
<1>12. Len(c) = n + 4
  BY <1>6
<1> QED
  BY <1>6, <1>8, <1>9, <1>10, <1>11, <1>12

\* A piece of the lead turns its mode on.
LEMMA PieceNames ==
    ASSUME NEW m \in Modes, NEW c, c = Piece(m), NEW l, l = Len(c)
    PROVE  /\ c \in Seq(Characters) /\ l \in Nat /\ 5 <= l
           /\ SequenceAt(c, 1, l) /\ NamedIn(c, 1, l) = {m}
           /\ c[l] = "h" /\ \A k \in 1 .. l - 1 : c[k] \notin {"h", "l"}
<1> PICK n \in Nat \ {0} :
              /\ n = Len(m) /\ c \in Seq(Characters) /\ Len(c) = n + 4
              /\ c[1] = "esc" /\ c[2] = "[" /\ c[3] = "?" /\ c[n + 4] = "h"
              /\ \A k \in 1 .. n : c[k + 3] = m[k]
              /\ \A k \in 4 .. n + 3 : c[k] \in Digits
  BY PieceBytes
<1>1. l = n + 4 /\ l - 1 = n + 3 /\ 5 <= l /\ l \in Nat
  OBVIOUS
<1>2. SequenceAt(c, 1, l)
  <2>1. 1 + 3 <= l /\ 1 + 1 = 2 /\ 1 + 2 = 3 /\ c[l] = "h" /\ \A k \in 1 + 3 .. l - 1 : c[k] \in Digits
    BY <1>1
  <2> QED
    BY <2>1 DEF SequenceAt
<1>3. ASSUME NEW k \in 1 .. l - 1 PROVE c[k] \notin {"h", "l"}
  <2>1. k = 1 \/ k = 2 \/ k = 3 \/ k \in 4 .. n + 3
    BY <1>1
  <2> QED
    BY <2>1 DEF Digits
<1>4. SubSeq(c, 4, n + 3) = m
  <2> PICK w : w = SubSeq(c, 4, n + 3)
    OBVIOUS
  <2>1. 4 \in Int /\ n + 3 \in Int /\ 1 <= 4 /\ n + 3 <= Len(c) /\ 4 <= (n + 3) + 1 /\ (n + 3) - 4 + 1 = n
    BY <1>1
  <2>2. w \in Seq(Characters) /\ Len(w) = n /\ \A k \in 1 .. n : w[k] = c[4 + k - 1]
    BY <2>1, Part
  <2>3. ASSUME NEW k \in 1 .. n PROVE w[k] = m[k]
    <3>1. 4 + k - 1 = k + 3
      OBVIOUS
    <3> QED
      BY <2>2, <3>1
  <2>4. m \in Seq(Characters)
    <3>1. Digits \subseteq Characters
      BY DEF Characters
    <3> QED
      BY <3>1, SeqMonotonic DEF Modes
  <2>5. w = m
    BY <2>2, <2>3, <2>4, SeqEqual
  <2> QED
    BY <2>5
<1>5. NamedIn(c, 1, l) = Fields(SubSeq(c, 4, n + 3))
  BY <1>1 DEF NamedIn
<1>6. NamedIn(c, 1, l) = {m}
  BY <1>4, <1>5, OneField
<1> QED
  BY <1>1, <1>2, <1>3, <1>6


\* What the bytes of a lead do: they only turn modes on, these, and leave nothing open.
Leads(a, modes) ==
    /\ a \in Seq(Characters)
    /\ \A setting : NamedBy(a, Len(a), setting) <=> setting \in modes
    /\ \A j \in 1 .. Len(a) : a[j] # "l"
    /\ a = <<>> \/ a[Len(a)] = "h"

\* Another piece, another mode.
LEMMA LeadStep ==
    ASSUME NEW a, NEW modes, Leads(a, modes), NEW m \in Modes
    PROVE  Leads(a \o Piece(m), modes \cup {m})
<1> PICK c : c = Piece(m)
  OBVIOUS
<1> PICK b : b = a \o c
  OBVIOUS
<1> PICK p \in Nat : p = Len(a)
  BY LenProperties DEF Leads
<1> PICK l \in Nat : l = Len(c)
  BY PieceNames
<1>1. /\ c \in Seq(Characters) /\ 5 <= l
      /\ SequenceAt(c, 1, l) /\ NamedIn(c, 1, l) = {m}
      /\ c[l] = "h" /\ \A k \in 1 .. l - 1 : c[k] \notin {"h", "l"}
  BY PieceNames
<1>2. a \in Seq(Characters)
  BY DEF Leads
<1>3. /\ b \in Seq(Characters) /\ Len(b) = p + l
      /\ \A k \in 1 .. p : b[k] = a[k]
      /\ \A j \in 1 .. l : b[p + j] = c[j]
  BY <1>1, <1>2, Continued
<1>4. PartOf(c, b, p)
  BY <1>1, <1>2, Continued
<1>5. PartOf(a, b, 0)
  <2>1. \A k \in 1 .. p : a[k] = b[k + 0]
    BY <1>3
  <2>2. p + 0 <= p + l
    OBVIOUS
  <2> QED
    BY <1>2, <1>3, <2>1, <2>2 DEF PartOf
<1>6. ASSUME NEW j \in 1 .. p PROVE NamedAt(b, j) = NamedAt(a, j)
  <2>1. ASSUME NEW i \in 1 .. j PROVE Reads(a, i, j, b, i, j)
    <3>1. i \in Nat \ {0} /\ j \in 1 .. Len(a) /\ i = i + 0 /\ j = j + 0
      OBVIOUS
    <3> QED
      BY <1>5, <3>1, NamedPart, Zenon
  <2> DEFINE I(s) == {k \in 1 .. j : SequenceAt(s, k, j)}
  <2>2. I(a) = I(b)
    BY <2>1 DEF Reads
  <2>3. ASSUME NEW i \in I(a) PROVE NamedIn(a, i, j) = NamedIn(b, i, j)
    BY <2>1 DEF Reads
  <2>4. NamedAt(a, j) = UNION {NamedIn(a, i, j) : i \in I(a)} /\ NamedAt(b, j) = UNION {NamedIn(b, i, j) : i \in I(b)}
    BY DEF NamedAt
  <2> HIDE DEF I
  <2> QED
    BY <2>2, <2>3, <2>4
<1>7. ASSUME NEW j \in p + 1 .. p + l - 1 PROVE NamedAt(b, j) = {} /\ b[j] # "l"
  <2> PICK q \in Nat : j = q + 1
    <3>1. j - 1 \in Nat /\ j = (j - 1) + 1
      OBVIOUS
    <3> QED
      BY <3>1
  <2>1. j - p \in 1 .. l - 1 /\ j - p \in 1 .. l /\ p + (j - p) = j
    OBVIOUS
  <2>2. b[j] \notin {"h", "l"}
    BY <1>1, <1>3, <2>1
  <2> QED
    BY <2>2, NamedOnce
<1>8. NamedAt(b, p + l) = {m} /\ b[p + l] = "h"
  <2>1. b[p + l] = "h"
    <3>1. l \in 1 .. l
      BY <1>1
    <3> QED
      BY <1>1, <1>3, <3>1
  <2>2. Reads(c, 1, l, b, p + 1, p + l)
    <3>1. 1 \in Nat \ {0} /\ l \in 1 .. Len(c) /\ p + 1 = 1 + p /\ p + l = l + p
      BY <1>1
    <3> QED
      BY <1>4, <3>1, NamedPart, Zenon
  <2>3. SequenceAt(b, p + 1, p + l) /\ NamedIn(b, p + 1, p + l) = {m}
    BY <1>1, <2>2 DEF Reads
  <2>4. ASSUME NEW q \in Nat, NEW i \in 1 .. q, SequenceAt(b, i, q + 1), NamedIn(b, i, q + 1) = {m}
        PROVE  NamedAt(b, q + 1) = {m}
    BY <2>4, NamedOnce
  <2>5. p + l - 1 \in Nat /\ p + 1 \in 1 .. p + l - 1 /\ (p + l - 1) + 1 = p + l
    BY <1>1
  <2>6. NamedAt(b, p + l) = {m}
    BY <2>3, <2>4, <2>5
  <2> QED
    BY <2>1, <2>6
<1>9. ASSUME NEW setting PROVE NamedBy(b, p + l, setting) <=> setting \in modes \cup {m}
  <2>1. NamedBy(a, p, setting) <=> setting \in modes
    BY DEF Leads
  <2>2. ASSUME NamedBy(b, p + l, setting) PROVE setting \in modes \cup {m}
    <3> PICK j \in 1 .. p + l : setting \in NamedAt(b, j)
      BY <2>2 DEF NamedBy
    <3>1. j \in 1 .. p \/ j \in p + 1 .. p + l - 1 \/ j = p + l
      OBVIOUS
    <3>2. CASE j \in 1 .. p
      BY <1>6, <2>1, <3>2 DEF NamedBy
    <3>3. CASE j \in p + 1 .. p + l - 1
      BY <1>7, <3>3
    <3>4. CASE j = p + l
      BY <1>8, <3>4
    <3> QED
      BY <3>1, <3>2, <3>3, <3>4
  <2>3. ASSUME setting \in modes PROVE NamedBy(b, p + l, setting)
    <3> PICK j \in 1 .. p : setting \in NamedAt(a, j)
      BY <2>1, <2>3 DEF NamedBy
    <3>1. j \in 1 .. p + l
      OBVIOUS
    <3> QED
      BY <1>6, <3>1 DEF NamedBy
  <2>4. NamedBy(b, p + l, m)
    <3>1. p + l \in 1 .. p + l
      BY <1>1
    <3> QED
      BY <1>8, <3>1 DEF NamedBy
  <2> QED
    BY <2>2, <2>3, <2>4
<1>10. ASSUME NEW j \in 1 .. p + l PROVE b[j] # "l"
  <2>1. j \in 1 .. p \/ j \in p + 1 .. p + l - 1 \/ j = p + l
    OBVIOUS
  <2>2. CASE j \in 1 .. p
    BY <1>3, <2>2 DEF Leads
  <2> QED
    BY <1>7, <1>8, <2>1, <2>2
<1> QED
  BY <1>3, <1>8, <1>9, <1>10 DEF Leads

LEMMA LeadFirst == Leads(<<>>, {})
<1>1. Len(<<>>) = 0 /\ <<>> \in Seq(Characters)
  BY EmptySeq
<1>2. \A setting : ~NamedBy(<<>>, 0, setting)
  BY DEF NamedBy
<1> QED
  BY <1>1, <1>2 DEF Leads

\* The modes among the first k of an order.
Among(order, k) == {order[i] : i \in 1 .. k}

\* The lead restores the modes it was made of.
LEMMA LeadRestores ==
    ASSUME NEW order \in Seq(Modes), NEW n, n = Len(order)
    PROVE  Leads(RestoreBytes(order), Among(order, n))
<1>0. n \in Nat
  BY LenProperties
<1> DEFINE S == Seq(Characters)
<1>1. ASSUME NEW x \in S, NEW j \in 1 .. n PROVE x \o Piece(order[j]) \in S
  <2>1. order[j] \in Modes
    BY ElementOfSeq
  <2>2. Piece(order[j]) \in Seq(Characters)
    BY <2>1, PieceNames
  <2> QED
    BY <2>2, ConcatProperties
<1> DEFINE step == [x \in S \X (1 .. n) |-> x[1] \o Piece(order[x[2]])]
<1> DEFINE Is(g) == g = [j \in 0 .. n |-> IF j = 0 THEN <<>> ELSE g[j - 1] \o Piece(order[j])]
<1> DEFINE lead == CHOOSE g : Is(g)
<1>2. RestoreBytes(order) = lead[n]
  BY DEF RestoreBytes, Piece
<1>3. step \in [S \X (1 .. n) -> S]
  <2>1. ASSUME NEW x \in S \X (1 .. n) PROVE x[1] \o Piece(order[x[2]]) \in S
    BY <1>1
  <2> QED
    BY <2>1
<1>4. \A x \in S : \A j \in 1 .. n : step[<<x, j>>] = x \o Piece(order[j])
  OBVIOUS
<1>5. PICK g \in [0 .. n -> S] : g[0] = <<>> /\ \A j \in 1 .. n : g[j] = step[<<g[j - 1], j>>]
  <2>1. <<>> \in S
    BY EmptySeq
  <2> HIDE DEF step, S
  <2>2. \E g \in [0 .. n -> S] : Along(g, n, <<>>, step)
    BY <1>0, <1>3, <2>1, Recursion
  <2> QED
    BY <2>2 DEF Along
<1> HIDE DEF step
<1>6. ASSUME NEW j \in 1 .. n PROVE g[j] = g[j - 1] \o Piece(order[j])
  <2>1. g[j - 1] \in S
    BY <1>0
  <2> QED
    BY <1>4, <1>5, <2>1
<1> DEFINE Longer(x, j) == x \o Piece(order[j])
<1>7. /\ Is(g)
      /\ \A h : Is(h) => /\ h[0] = <<>>
                         /\ \A j \in 1 .. n : h[j] = h[j - 1] \o Piece(order[j])
  <2>1. g[0] = <<>> /\ \A j \in 1 .. n : g[j] = Longer(g[j - 1], j)
    BY <1>5, <1>6
  <2>2. \A h : Is(h) <=> h = [j \in 0 .. n |-> IF j = 0 THEN <<>> ELSE Longer(h[j - 1], j)]
    OBVIOUS
  <2> HIDE DEF Longer, Is
  <2>3. \A j \in 0 .. n : j = 0 \/ j \in 1 .. n
    BY <1>0
  <2>4. Is(g)
    BY <1>5, <2>1, <2>2, <2>3
  <2>5. ASSUME NEW h, Is(h) PROVE h[0] = <<>> /\ \A j \in 1 .. n : h[j] = Longer(h[j - 1], j)
    <3>1. h = [j \in 0 .. n |-> IF j = 0 THEN <<>> ELSE Longer(h[j - 1], j)]
      BY <2>2, <2>5
    <3>2. 0 \in 0 .. n /\ \A j \in 1 .. n : j \in 0 .. n /\ j # 0
      BY <1>0
    <3> QED
      BY <3>1, <3>2
  <2> QED
    BY <2>4, <2>5 DEF Longer
<1>8. Is(lead)
  <2> HIDE DEF Is
  <2> QED
    BY <1>7
<1> HIDE DEF lead, Is
<1>9. lead[0] = <<>> /\ \A j \in 1 .. n : lead[j] = lead[j - 1] \o Piece(order[j])
  BY <1>7, <1>8
<1> DEFINE T == {j \in 0 .. n : Leads(lead[j], Among(order, j))}
<1>10. 0 \in T
  <2>1. Among(order, 0) = {}
    BY DEF Among
  <2>2. 0 \in 0 .. n
    BY <1>0
  <2> QED
    BY <1>9, <2>1, <2>2, LeadFirst
<1>11. ASSUME NEW q \in 0 .. n - 1, q \in T PROVE q + 1 \in T
  <2> PICK j \in 1 .. n : j = q + 1
    BY <1>0
  <2>1. j - 1 = q /\ j \in 0 .. n
    BY <1>0
  <2>2. order[j] \in Modes
    BY ElementOfSeq
  <2>3. lead[j] = lead[q] \o Piece(order[j])
    BY <1>9, <2>1
  <2>4. Among(order, j) = Among(order, q) \cup {order[j]}
    <3>1. \A k : k \in 1 .. j <=> k \in 1 .. q \/ k = j
      BY <1>0
    <3> QED
      BY <3>1 DEF Among
  <2>5. Leads(lead[q], Among(order, q))
    BY <1>11
  <2>6. Leads(lead[j], Among(order, j))
    BY <2>2, <2>3, <2>4, <2>5, LeadStep
  <2> QED
    BY <2>1, <2>6
<1>12. n \in T
  <2> HIDE DEF T
  <2>1. \A j \in 0 .. n : j \in T
    BY <1>0, <1>10, <1>11, Upward
  <2>2. n \in 0 .. n
    BY <1>0
  <2> QED
    BY <2>1, <2>2
<1> QED
  BY <1>2, <1>12

\* What a read that turns nothing off adds to the modes.
LEMMA UpdatedOnly ==
    ASSUME NEW modes \in ModeSets, NEW b \in Seq(Characters), NEW n, n = Len(b),
           \A j \in 1 .. n : b[j] # "l", NEW setting
    PROVE  setting \in UpdatePrivateModes(b, modes) <=> setting \in modes \/ NamedBy(b, n, setting)
<1>0. n \in Nat
  BY LenProperties
<1> PICK on : UpdatedAlong(on, modes, b, n)
  BY UpdatedByByte
<1>1. /\ on[0] = modes /\ UpdatePrivateModes(b, modes) = on[n]
      /\ \A j \in 1 .. n : on[j] = Turned(on[j - 1], NamedAt(b, j), b[j])
  BY DEF UpdatedAlong
<1> DEFINE T == {j \in 0 .. n : setting \in on[j] <=> setting \in modes \/ NamedBy(b, j, setting)}
<1>2. 0 \in T
  <2>1. ~NamedBy(b, 0, setting)
    BY DEF NamedBy
  <2>2. 0 \in 0 .. n
    BY <1>0
  <2> QED
    BY <1>1, <2>1, <2>2
<1>3. ASSUME NEW q \in 0 .. n - 1, q \in T PROVE q + 1 \in T
  <2> PICK j \in 1 .. n : j = q + 1
    BY <1>0
  <2>1. j - 1 = q /\ j \in 0 .. n /\ q \in Nat
    BY <1>0
  <2>2. on[j] = Turned(on[q], NamedAt(b, j), b[j])
    BY <1>1, <2>1
  <2>3. setting \in on[j] <=> setting \in on[q] \/ setting \in NamedAt(b, j)
    <3>1. CASE b[j] = "h"
      BY <2>2, <3>1 DEF Turned
    <3>2. CASE b[j] # "h"
      <4>1. NamedAt(b, j) = {}
        BY <2>1, <3>2, NamedOnce
      <4> QED
        BY <2>2, <4>1, TurnedNone
    <3> QED
      BY <3>1, <3>2
  <2>4. NamedBy(b, j, setting) <=> NamedBy(b, q, setting) \/ setting \in NamedAt(b, j)
    <3>1. \A k : k \in 1 .. j <=> k \in 1 .. q \/ k = j
      BY <1>0
    <3> QED
      BY <3>1 DEF NamedBy
  <2>5. setting \in on[q] <=> setting \in modes \/ NamedBy(b, q, setting)
    BY <1>3
  <2>6. setting \in on[j] <=> setting \in modes \/ NamedBy(b, j, setting)
    BY <2>3, <2>4, <2>5
  <2> QED
    BY <2>1, <2>6
<1>4. n \in T
  <2> HIDE DEF T
  <2>1. \A j \in 0 .. n : j \in T
    BY <1>0, <1>2, <1>3, Upward
  <2>2. n \in 0 .. n
    BY <1>0
  <2> QED
    BY <2>1, <2>2
<1> QED
  BY <1>1, <1>4

LEMMA UpdatedModes ==
    ASSUME NEW modes \in ModeSets, NEW b \in Seq(Characters)
    PROVE  UpdatePrivateModes(b, modes) \in ModeSets
<1> PICK n \in Nat : n = Len(b)
  BY LenProperties
<1> PICK on : UpdatedAlong(on, modes, b, n)
  BY UpdatedByByte
<1>1. on \in [0 .. n -> ModeSets] /\ UpdatePrivateModes(b, modes) = on[n] /\ n \in 0 .. n
  BY DEF UpdatedAlong
<1> QED
  BY <1>1

\* A terminal between sequences is in the middle of none that a read could end.
LEMMA NoStraggler == ASSUME NEW b PROVE Straggling(<<>>, b) = {}
<1>1. Len(<<>>) = 0
  BY EmptySeq
<1>2. 1 .. 0 = {}
  OBVIOUS
<1>3. {s \in (1 .. Len(<<>>)) \X (1 .. Len(<<>> \o b)) : SequenceAt(<<>> \o b, s[1], s[2])} = {}
  BY <1>1, <1>2
<1> QED
  BY <1>3 DEF Straggling

\* The lead of the modes that are on, in whatever order they are taken.
LEMMA EveryOrder ==
    ASSUME NEW modes \in ModeSets, NEW order \in SetToSeqs(modes)
    PROVE  Leads(RestoreBytes(order), modes)
<1> PICK n : n = Cardinality(modes)
  OBVIOUS
<1>0. IsFiniteSet(modes) /\ modes \in SUBSET Modes
  BY DEF ModeSets
<1>1. n \in Nat
  BY <1>0, FS_CardinalityType
<1>2. order \in [1 .. n -> modes] /\ \A i, j \in 1 .. n : i # j => order[i] # order[j]
  BY DEF SetToSeqs
<1>3. order \in Seq(Modes) /\ Len(order) = n
  <2>1. order \in [1 .. n -> Modes]
    BY <1>0, <1>2
  <2>2. order \in Seq(Modes)
    BY <1>1, <2>1, SeqDef
  <2> QED
    BY <1>1, <2>1, <2>2, LenProperties
<1>4. order \in Injection(1 .. n, modes)
  BY <1>2 DEF Injection, IsInjective
<1>5. IsFiniteSet(1 .. n) /\ Cardinality(1 .. n) = n
  BY <1>1, FS_Interval
<1>6. order \in Surjection(1 .. n, modes)
  BY <1>0, <1>4, <1>5, FS_Injection
<1>7. Among(order, n) = modes
  BY <1>2, <1>6 DEF Among, Surjection
<1> QED
  BY <1>1, <1>3, <1>7, LeadRestores


--------------------------------------------------------------------------------
(* The model.                                                                      *)

ModesTyped ==
    /\ ModesTypeOK /\ modesOn \in ModeSets /\ veteran \in Terminals /\ newcomer \in Terminals

\* The terminals are in the middle of the same, if the newcomer is of anything.
InStep == Begun(veteran.pending) /\ (joinedLate => newcomer.pending \in {<<>>, veteran.pending})

\* What each has on of a mode, which is not a default and was not cut.
SameModes(setting) ==
    /\ setting \in modesOn <=> setting \in veteran.on
    /\ joinedLate => (setting \in newcomer.on <=> setting \in veteran.on)

ModesInv == ModesTyped /\ InStep /\ \A setting \in Modes \ (OnByDefault \cup cut) : SameModes(setting)

LEMMA FreshTerminal == Fresh \in Terminals /\ Fresh.pending = <<>> /\ Fresh.on = OnByDefault
<1>1. <<>> \in Seq(Characters)
  BY EmptySeq
<1>2. OnByDefault \in SUBSET Modes
  <2>1. "2" \in Digits /\ "5" \in Digits
    BY DEF Digits
  <2> PICK m : m = <<"2", "5">>
    OBVIOUS
  <2>2. m \in Seq(Digits) /\ Len(m) = 2
    BY <2>1
  <2>3. m # <<>>
    BY <2>2, EmptySeq
  <2> QED
    BY <2>2, <2>3 DEF OnByDefault, Modes
<1> QED
  BY <1>1, <1>2 DEF Fresh, Terminals

\* Nothing is left open after the letter that ends a lead.
LEMMA LeadCloses ==
    ASSUME NEW b, NEW modes, Leads(b, modes), NEW pending, Parsed(b, Len(b), pending)
    PROVE  pending = <<>>
<1> PICK n \in Nat : n = Len(b)
  BY LenProperties DEF Leads
<1>1. b = <<>> \/ b[n] = "h"
  BY DEF Leads
<1>2. n = 0 \/ b[n] = "h"
  BY <1>1, EmptySeq
<1>3. ASSUME NEW i \in 1 .. n, Open(b, i, n) PROVE FALSE
  <2>1. b[n] = "h" /\ n \in i .. n
    BY <1>2
  <2>2. b[n] = "esc" \/ b[n] \in Goes \/ b[n] = "["
    BY <1>3, <2>1 DEF Open
  <2> QED
    BY <2>1, <2>2 DEF Goes, Digits
<1> QED
  BY <1>3 DEF Parsed

\* The lead gives a fresh terminal the daemon's modes, its own defaults apart.
LEMMA LeadFed ==
    ASSUME NEW modes \in ModeSets, NEW b, Leads(b, modes), NEW f, f = FeedAll(Fresh, b)
    PROVE  /\ f \in Terminals /\ f.pending = <<>>
           /\ \A setting \in Modes \ OnByDefault : setting \in f.on <=> setting \in modes
<1>1. b \in Seq(Characters) /\ \A j \in 1 .. Len(b) : b[j] # "l"
  BY DEF Leads
<1> PICK n \in Nat : n = Len(b)
  BY <1>1, LenProperties
<1>2. Begun(Fresh.pending)
  BY FreshTerminal DEF Begun
<1>3. f \in Terminals /\ f.pending = <<>>
  <2> PICK whole, p : whole = Fresh.pending \o b /\ p = Len(Fresh.pending)
    OBVIOUS
  <2>1. f \in Terminals /\ Parsed(whole, p + n, f.pending)
    BY <1>1, <1>2, FreshTerminal, ReadLeaves
  <2>2. whole = b
    BY <1>1, FreshTerminal, ConcatEmptySeq
  <2>3. p = 0
    BY FreshTerminal, EmptySeq
  <2>4. Parsed(b, n, f.pending)
    <3>1. 0 + n = n
      OBVIOUS
    <3> QED
      BY <2>1, <2>2, <2>3, <3>1
  <2> QED
    BY <2>1, <2>4, LeadCloses
<1>4. ASSUME NEW setting \in Modes \ OnByDefault PROVE setting \in f.on <=> setting \in modes
  <2>1. {} \in ModeSets
    BY FS_EmptySet DEF ModeSets
  <2>2. Agrees(Fresh, b, {}, f, UpdatePrivateModes(b, {}), n, setting)
    BY <1>1, <1>2, <2>1, FreshTerminal, ReadAgrees
  <2>3. setting \in UpdatePrivateModes(b, {}) <=> setting \in {} \/ NamedBy(b, n, setting)
    BY <1>1, <2>1, UpdatedOnly
  <2>4. NamedBy(b, n, setting) <=> setting \in modes
    BY DEF Leads
  <2>5. setting \notin Straggling(Fresh.pending, b)
    BY FreshTerminal, NoStraggler
  <2>6. setting \notin Fresh.on
    BY FreshTerminal
  <2> QED
    BY <2>2, <2>3, <2>4, <2>5, <2>6 DEF Agrees
<1> QED
  BY <1>3, <1>4

\* What a read cut is named in digits.
LEMMA StragglersNamed ==
    ASSUME NEW pending \in Seq(Characters), NEW b \in Seq(Characters)
    PROVE  Straggling(pending, b) \subseteq Seq(Digits)
<1> PICK whole, p, n : whole = pending \o b /\ p = Len(pending) /\ n = Len(b)
  OBVIOUS
<1>1. p \in Nat /\ n \in Nat /\ whole \in Seq(Characters) /\ Len(whole) = p + n
  BY Continued
<1> DEFINE D == {s \in (1 .. p) \X (1 .. Len(whole)) : SequenceAt(whole, s[1], s[2])}
<1>2. Straggling(pending, b) = UNION {NamedIn(whole, s[1], s[2]) : s \in D}
  BY DEF Straggling
<1>3. ASSUME NEW s \in D PROVE NamedIn(whole, s[1], s[2]) \subseteq Seq(Digits)
  <2> PICK i, j : i = s[1] /\ j = s[2]
    OBVIOUS
  <2>1. i \in 1 .. p /\ j \in 1 .. Len(whole) /\ SequenceAt(whole, i, j)
    OBVIOUS
  <2>2. i \in Int /\ j \in Int /\ 1 <= i /\ j <= Len(whole)
    BY <1>1, <2>1
  <2>3. NamedIn(whole, i, j) \in SUBSET Modes
    BY <1>1, <2>1, <2>2, NamedModes
  <2> QED
    BY <2>3 DEF Modes
<1> QED
  BY <1>2, <1>3


LEMMA ModesAtFirst == ModesInit => ModesInv
<1> SUFFICES ASSUME ModesInit PROVE ModesInv
  OBVIOUS
<1> USE DEF ModesInit
<1>1. <<>> \in Seq(Characters)
  BY EmptySeq
<1>2. ModesTyped
  <2>1. {} \in ModeSets
    BY FS_EmptySet DEF ModeSets
  <2>2. Fresh \in [on : SUBSET Seq(Digits), pending : Seq(Characters)]
    BY FreshTerminal DEF Terminals, Modes
  <2>3. {veteran, newcomer} \subseteq [on : SUBSET Seq(Digits), pending : Seq(Characters)]
    BY <2>2
  <2>4. writes \in 0 .. MaxWrites
    BY ModesAssumption
  <2>5. ModesTypeOK
    BY <1>1, <2>3, <2>4 DEF ModesTypeOK
  <2> QED
    BY <2>1, <2>5, FreshTerminal DEF ModesTyped
<1>3. InStep
  BY FreshTerminal DEF InStep, Begun
<1>4. ASSUME NEW setting \in Modes \ OnByDefault PROVE SameModes(setting)
  BY FreshTerminal DEF SameModes
<1> QED
  BY <1>2, <1>3, <1>4 DEF ModesInv

\* What programs write is bytes.
LEMMA TwoBytes == ASSUME NEW C, NEW x \in C, NEW y \in C PROVE <<x, y>> \in Seq(C)
  OBVIOUS

LEMMA WritesAreBytes == Writes \subseteq Seq(Characters)
<1>1. <<"esc", "[", "?">> \in Seq(Characters)
  <2>1. "esc" \in Characters /\ "[" \in Characters /\ "?" \in Characters
    BY DEF Characters
  <2> QED
    BY <2>1
<1>2. ASSUME NEW final \in {"h", "l"} PROVE <<final>> \in Seq(Characters)
  <2>1. final \in Characters
    BY DEF Characters
  <2> QED
    BY <2>1
<1>3. PrivateModesSeen \subseteq Seq(Characters)
  <2>1. "0" \in Characters /\ "1" \in Characters /\ "2" \in Characters /\ "4" \in Characters /\ "5" \in Characters
    BY DEF Characters, Digits
  <2>2. <<"1">> \in Seq(Characters)
    BY <2>1
  <2>3. <<"2", "5">> \in Seq(Characters)
    BY <2>1
  <2>4. <<"2", "0", "0", "4">> \in Seq(Characters)
    BY <2>1
  <2> QED
    BY <2>2, <2>3, <2>4 DEF PrivateModesSeen
<1>4. ASSUME NEW params \in Seq(Characters), NEW final \in {"h", "l"}
      PROVE  ModeSequence(params, final) \in Seq(Characters)
  <2> PICK x, y : x = <<"esc", "[", "?">> /\ y = <<final>>
    OBVIOUS
  <2>1. x \in Seq(Characters) /\ y \in Seq(Characters)
    BY <1>1, <1>2
  <2>2. x \o params \in Seq(Characters)
    BY <2>1, ConcatProperties
  <2>3. (x \o params) \o y \in Seq(Characters)
    BY <2>1, <2>2, ConcatProperties
  <2> QED
    BY <2>3 DEF ModeSequence
<1> DEFINE Both == <<"1", ";">> \o <<"2", "0", "0", "4">>
<1>8. Both \in Seq(Characters)
  <2>1. "1" \in Characters /\ ";" \in Characters
    BY DEF Characters, Digits
  <2>2. <<"1", ";">> \in Seq(Characters)
    BY <2>1, TwoBytes, Zenon
  <2>3. <<"2", "0", "0", "4">> \in Seq(Characters)
    BY <1>3 DEF PrivateModesSeen
  <2> QED
    BY <2>2, <2>3, ConcatProperties
<1>5. <<"esc", "[", "2", "m">> \in Seq(Characters)
  <2>1. "esc" \in Characters /\ "[" \in Characters /\ "2" \in Characters /\ "m" \in Characters
    BY DEF Characters, Digits
  <2> QED
    BY <2>1
<1>6. <<"h">> \in Seq(Characters)
  BY <1>2
<1> DEFINE Pair(params) == {ModeSequence(params, "h"), ModeSequence(params, "l")}
           Pairs == {Pair(params) : params \in PrivateModesSeen \cup {Both}}
           Text == {<<"esc", "[", "2", "m">>, <<"h">>}
<1>9. Writes = Text \cup UNION Pairs
  BY DEF Writes
<1>10. Text \subseteq Seq(Characters)
  BY <1>5, <1>6
<1>11. ASSUME NEW pair \in Pairs PROVE pair \subseteq Seq(Characters)
  <2> PICK params \in PrivateModesSeen \cup {Both} : pair = Pair(params)
    OBVIOUS
  <2> HIDE DEF Both
  <2>1. params \in Seq(Characters)
    BY <1>3, <1>8
  <2>2. ModeSequence(params, "h") \in Seq(Characters) /\ ModeSequence(params, "l") \in Seq(Characters)
    BY <1>4, <2>1
  <2> QED
    BY <2>2
<1> HIDE DEF Pairs, Text, Pair, Both
<1>12. UNION Pairs \subseteq Seq(Characters)
  BY <1>11
<1> QED
  BY <1>9, <1>10, <1>12

\* What a read leaves of the two terminals and of the daemon's modes.
ReadInto(b) ==
    /\ b \in Seq(Characters)
    /\ modesOn' = UpdatePrivateModes(b, modesOn)
    /\ veteran' = FeedAll(veteran, b)
    /\ newcomer' = IF joinedLate THEN FeedAll(newcomer, b) ELSE newcomer
    /\ cut' = (cut \cup Straggling(veteran.pending, b)) \ UNION {NamedAt(b, j) : j \in DOMAIN b}
    /\ joinedLate' = joinedLate

LEMMA ReadInStep == ASSUME ModesTyped, InStep, NEW b, ReadInto(b) PROVE InStep'
<1> USE DEF ReadInto, InStep, ModesTyped
<1>1. Begun(veteran'.pending)
  BY InTheSame
<1>2. ASSUME joinedLate' PROVE newcomer'.pending \in {<<>>, veteran'.pending}
  <2>1. joinedLate /\ newcomer' = FeedAll(newcomer, b)
    BY <1>2
  <2>2. newcomer.pending = <<>> \/ newcomer.pending = veteran.pending
    BY <2>1
  <2>3. \/ FeedAll(newcomer, b).pending = <<>>
        \/ FeedAll(newcomer, b).pending = FeedAll(veteran, b).pending
    BY <2>2, InTheSame
  <2> QED
    BY <2>1, <2>3
<1> QED
  BY <1>1, <1>2

LEMMA ReadTyped == ASSUME ModesTyped, InStep, NEW b, ReadInto(b)
                   PROVE  /\ modesOn' \in ModeSets /\ veteran' \in Terminals /\ newcomer' \in Terminals
                          /\ cut' \subseteq Seq(Digits)
<1> USE DEF ReadInto
<1>1. modesOn' \in ModeSets
  BY UpdatedModes DEF ModesTyped
<1>2. Begun(veteran.pending) /\ (joinedLate => Begun(newcomer.pending))
  BY DEF InStep, Begun
<1>3. veteran' \in Terminals
  BY <1>2, ReadLeaves DEF ModesTyped
<1>4. newcomer' \in Terminals
  <2>1. CASE joinedLate
    <3>1. FeedAll(newcomer, b) \in Terminals
      BY <1>2, <2>1, ReadLeaves DEF ModesTyped
    <3> QED
      BY <2>1, <3>1
  <2>2. CASE ~joinedLate
    BY <2>2 DEF ModesTyped
  <2> QED
    BY <2>1, <2>2
<1>5. cut' \subseteq Seq(Digits)
  <2>1. veteran.pending \in Seq(Characters) /\ cut \subseteq Seq(Digits)
    BY DEF ModesTyped, ModesTypeOK, Terminals
  <2>2. Straggling(veteran.pending, b) \subseteq Seq(Digits)
    BY <2>1, StragglersNamed
  <2> QED
    BY <2>1, <2>2
<1> QED
  BY <1>1, <1>3, <1>4, <1>5

LEMMA ReadSame == ASSUME ModesInv, NEW b, ReadInto(b), NEW setting \in Modes \ (OnByDefault \cup cut')
                  PROVE  SameModes(setting)'
<1> PICK n : n = Len(b)
  OBVIOUS
<1>0. n \in Nat /\ DOMAIN b = 1 .. n
  BY LenProperties DEF ReadInto
<1>1. /\ b \in Seq(Characters) /\ modesOn \in ModeSets /\ veteran \in Terminals /\ newcomer \in Terminals
      /\ Begun(veteran.pending) /\ (joinedLate => newcomer.pending \in {<<>>, veteran.pending})
      /\ (joinedLate => Begun(newcomer.pending))
  BY DEF ModesInv, ModesTyped, InStep, ReadInto, Begun
<1> PICK on : on = UpdatePrivateModes(b, modesOn)
  OBVIOUS
<1> PICK f, g : f = FeedAll(veteran, b) /\ g = FeedAll(newcomer, b)
  OBVIOUS
<1>2. /\ modesOn' = on /\ veteran' = f /\ (joinedLate => newcomer' = g) /\ joinedLate' = joinedLate
      /\ cut' = (cut \cup Straggling(veteran.pending, b)) \ UNION {NamedAt(b, j) : j \in DOMAIN b}
  BY DEF ReadInto
<1>3. Agrees(veteran, b, modesOn, f, on, n, setting)
  BY <1>1, ReadAgrees
<1>4. joinedLate => Agrees(newcomer, b, modesOn, g, on, n, setting)
  BY <1>1, ReadAgrees
<1>5. CASE NamedBy(b, n, setting)
  <2>1. (setting \in f.on <=> setting \in on) /\ (joinedLate => (setting \in g.on <=> setting \in on))
    BY <1>3, <1>4, <1>5 DEF Agrees
  <2> QED
    BY <1>2, <2>1 DEF SameModes
<1>6. CASE ~NamedBy(b, n, setting)
  <2>1. setting \notin UNION {NamedAt(b, j) : j \in DOMAIN b}
    BY <1>0, <1>6 DEF NamedBy
  <2>2. setting \notin cut /\ setting \notin Straggling(veteran.pending, b)
    BY <1>2, <2>1
  <2>3. joinedLate => setting \notin Straggling(newcomer.pending, b)
    BY <1>1, <2>2, NoStraggler
  <2>4. SameModes(setting)
    BY <2>2 DEF ModesInv
  <2>5. /\ setting \in f.on <=> setting \in veteran.on
        /\ setting \in on <=> setting \in modesOn
        /\ joinedLate => (setting \in g.on <=> setting \in newcomer.on)
    BY <1>3, <1>4, <1>6, <2>2, <2>3 DEF Agrees
  <2> QED
    BY <1>2, <2>4, <2>5 DEF SameModes
<1> QED
  BY <1>5, <1>6

\* A mode is digits, and so are a terminal's.
LEMMA NamedInDigits ==
    /\ \A modes \in ModeSets : modes \subseteq Seq(Digits)
    /\ \A t \in Terminals : t \in [on : SUBSET Seq(Digits), pending : Seq(Characters)]
<1>1. Modes \subseteq Seq(Digits)
  BY DEF Modes
<1>2. \A modes \in ModeSets : modes \subseteq Seq(Digits)
  BY <1>1 DEF ModeSets
<1>3. \A t \in Terminals : t \in [on : SUBSET Seq(Digits), pending : Seq(Characters)]
  BY <1>1 DEF Terminals
<1> QED
  BY <1>2, <1>3

LEMMA WriteStep == ASSUME ModesInv, WriteOutput PROVE ModesInv'
<1> USE DEF WriteOutput
<1>0. ModesTyped /\ ModesTypeOK
  BY DEF ModesInv, ModesTyped
<1> PICK w \in Writes : tty' = tty \o w
  OBVIOUS
<1>1. tty' \in Seq(Characters)
  <2>1. tty \in Seq(Characters) /\ w \in Seq(Characters)
    BY <1>0, WritesAreBytes DEF ModesTypeOK
  <2> QED
    BY <2>1, ConcatProperties
<1>2. writes' \in 0 .. MaxWrites
  BY <1>0, ModesAssumption DEF ModesTypeOK
<1>3. UNCHANGED <<modesOn, veteran, newcomer, joinedLate, cut>>
  OBVIOUS
<1>4. modesOn' \in ModeSets /\ veteran' \in Terminals /\ newcomer' \in Terminals /\ cut' \subseteq Seq(Digits)
  BY <1>0, <1>3 DEF ModesTyped, ModesTypeOK
<1>5. joinedLate' \in BOOLEAN
  BY <1>0, <1>3 DEF ModesTypeOK
<1>6. ModesTyped'
  BY <1>1, <1>2, <1>4, <1>5, NamedInDigits DEF ModesTyped, ModesTypeOK
<1>7. InStep'
  BY <1>3 DEF InStep, ModesInv
<1>8. ASSUME NEW setting \in Modes \ (OnByDefault \cup cut') PROVE SameModes(setting)'
  <2>1. SameModes(setting)
    BY <1>3 DEF ModesInv
  <2> QED
    BY <1>3, <2>1 DEF SameModes
<1> QED
  BY <1>6, <1>7, <1>8 DEF ModesInv

LEMMA ReadStep == ASSUME ModesInv, ReadOutputBytes PROVE ModesInv'
<1>0. ModesTyped /\ ModesTypeOK /\ InStep
  BY DEF ModesInv, ModesTyped
<1> PICK l \in Nat : l = Len(tty)
  BY <1>0, LenProperties DEF ModesTypeOK
<1> PICK n \in 1 .. l :
        LET b == SubSeq(tty, 1, n)
        IN  /\ tty' = SubSeq(tty, n + 1, l)
            /\ modesOn' = UpdatePrivateModes(b, modesOn)
            /\ veteran' = FeedAll(veteran, b)
            /\ newcomer' = IF joinedLate THEN FeedAll(newcomer, b) ELSE newcomer
            /\ cut' = (cut \cup Straggling(veteran.pending, b)) \ UNION {NamedAt(b, j) : j \in DOMAIN b}
            /\ UNCHANGED <<joinedLate, writes>>
  BY DEF ReadOutputBytes
<1> PICK b : b = SubSeq(tty, 1, n)
  OBVIOUS
<1>1. b \in Seq(Characters) /\ tty' \in Seq(Characters)
  <2>1. tty \in Seq(Characters)
    BY <1>0 DEF ModesTypeOK
  <2>2. 1 \in Int /\ n \in Int /\ 1 <= 1 /\ n <= Len(tty) /\ 1 <= n + 1
    OBVIOUS
  <2>3. n + 1 \in Int /\ l \in Int /\ 1 <= n + 1 /\ l <= Len(tty) /\ n + 1 <= l + 1
    OBVIOUS
  <2>4. SubSeq(tty, 1, n) \in Seq(Characters)
    BY <2>1, <2>2, Part
  <2>5. SubSeq(tty, n + 1, l) \in Seq(Characters)
    BY <2>1, <2>3, Part
  <2> QED
    BY <2>4, <2>5
<1>2. ReadInto(b)
  BY <1>1 DEF ReadInto
<1>3. joinedLate' \in BOOLEAN /\ writes' \in 0 .. MaxWrites
  BY <1>0 DEF ModesTypeOK
<1>4. modesOn' \in ModeSets /\ veteran' \in Terminals /\ newcomer' \in Terminals /\ cut' \subseteq Seq(Digits)
  BY <1>0, <1>2, ReadTyped
<1>5. ModesTyped'
  BY <1>1, <1>3, <1>4, NamedInDigits DEF ModesTyped, ModesTypeOK
<1>6. InStep'
  BY <1>0, <1>2, ReadInStep
<1>7. \A setting \in Modes \ (OnByDefault \cup cut') : SameModes(setting)'
  BY <1>2, ReadSame
<1> QED
  BY <1>5, <1>6, <1>7 DEF ModesInv

LEMMA JoinStep == ASSUME ModesInv, JoinLate PROVE ModesInv'
<1> USE DEF JoinLate
<1>0. ModesTyped /\ ModesTypeOK /\ InStep /\ modesOn \in ModeSets
  BY DEF ModesInv, ModesTyped
<1>1. ~joinedLate /\ joinedLate' = TRUE /\ UNCHANGED <<tty, modesOn, veteran, cut, writes>>
  OBVIOUS
<1> PICK order \in SetToSeqs(modesOn) : newcomer' = FeedAll(Fresh, RestoreBytes(order))
  OBVIOUS
<1>2. Leads(RestoreBytes(order), modesOn)
  BY <1>0, EveryOrder
<1>3. /\ newcomer' \in Terminals /\ newcomer'.pending = <<>>
      /\ \A setting \in Modes \ OnByDefault : setting \in newcomer'.on <=> setting \in modesOn
  <2>1. /\ FeedAll(Fresh, RestoreBytes(order)) \in Terminals
        /\ FeedAll(Fresh, RestoreBytes(order)).pending = <<>>
        /\ \A setting \in Modes \ OnByDefault : setting \in FeedAll(Fresh, RestoreBytes(order)).on <=> setting \in modesOn
    BY <1>0, <1>2, LeadFed
  <2> QED
    BY <2>1
<1>4. ModesTyped'
  <2>1. modesOn' \in ModeSets /\ veteran' \in Terminals /\ cut' \subseteq Seq(Digits)
    BY <1>0, <1>1 DEF ModesTyped, ModesTypeOK
  <2>2. tty' \in Seq(Characters) /\ writes' \in 0 .. MaxWrites
    BY <1>0, <1>1 DEF ModesTypeOK
  <2>3. joinedLate' \in BOOLEAN
    BY <1>1
  <2> QED
    BY <1>3, <2>1, <2>2, <2>3, NamedInDigits DEF ModesTyped, ModesTypeOK
<1>5. InStep'
  BY <1>0, <1>1, <1>3 DEF InStep
<1>6. ASSUME NEW setting \in Modes \ (OnByDefault \cup cut') PROVE SameModes(setting)'
  <2>1. setting \in modesOn <=> setting \in veteran.on
    BY <1>1 DEF ModesInv, SameModes
  <2>2. setting \in newcomer'.on <=> setting \in modesOn
    BY <1>3
  <2> QED
    BY <1>1, <2>1, <2>2 DEF SameModes
<1> QED
  BY <1>4, <1>5, <1>6 DEF ModesInv

LEMMA ModesInductive == ModesInv /\ [ModesNext]_modesVars => ModesInv'
<1> SUFFICES ASSUME ModesInv, [ModesNext]_modesVars PROVE ModesInv'
  OBVIOUS
<1>1. CASE WriteOutput
  BY <1>1, WriteStep
<1>2. CASE ReadOutputBytes
  BY <1>2, ReadStep
<1>3. CASE JoinLate
  BY <1>3, JoinStep
<1>4. CASE UNCHANGED modesVars
  <2>1. \A setting : SameModes(setting) => SameModes(setting)'
    BY <1>4 DEF SameModes, modesVars
  <2>2. ModesTyped' /\ InStep'
    BY <1>4 DEF ModesInv, ModesTyped, ModesTypeOK, InStep, modesVars
  <2>3. cut' = cut
    BY <1>4 DEF modesVars
  <2> QED
    BY <2>1, <2>2, <2>3 DEF ModesInv
<1> QED
  BY <1>1, <1>2, <1>3, <1>4 DEF ModesNext

\* updatePrivateModes keeps, whatever the reads are, what a terminal's own parser has
\* made of the same bytes; what a lead restores goes on in step with it.
THEOREM ModesCorrect == ModesSpec => []ModesInv
<1>1. ModesInit => ModesInv
  BY ModesAtFirst
<1>2. ModesInv /\ [ModesNext]_modesVars => ModesInv'
  BY ModesInductive
<1> QED
  BY <1>1, <1>2, PTL DEF ModesSpec

LEMMA ModesRestored == ModesInv => ReplayRestoresModes
<1> SUFFICES ASSUME ModesInv, NEW setting \in PrivateModesSeen \ (OnByDefault \cup cut)
             PROVE  SameModes(setting)
  BY DEF ReplayRestoresModes, SameModes
<1>1. PrivateModesSeen \subseteq Modes
  <2>1. "0" \in Digits /\ "1" \in Digits /\ "2" \in Digits /\ "4" \in Digits /\ "5" \in Digits
    BY DEF Digits
  <2>2. <<"1">> \in Seq(Digits) /\ Len(<<"1">>) # 0
    BY <2>1
  <2>3. <<"2", "5">> \in Seq(Digits) /\ Len(<<"2", "5">>) # 0
    BY <2>1
  <2>4. <<"2", "0", "0", "4">> \in Seq(Digits) /\ Len(<<"2", "0", "0", "4">>) # 0
    BY <2>1
  <2>5. \A m : m \in Seq(Digits) /\ Len(m) # 0 => m \in Modes
    BY EmptySeq DEF Modes
  <2>6. <<"1">> \in Modes /\ <<"2", "5">> \in Modes /\ <<"2", "0", "0", "4">> \in Modes
    BY <2>2, <2>3, <2>4, <2>5, Zenon
  <2> QED
    BY <2>6, Zenon DEF PrivateModesSeen
<1> QED
  BY <1>1 DEF ModesInv

\* SubscribeWithScrollback's lead leaves a late terminal with the modes of one that
\* was attached from the start.
THEOREM ModesAreRestored == ModesSpec => []ReplayRestoresModes
<1>1. ModesInv => ReplayRestoresModes
  BY ModesRestored
<1> QED
  BY <1>1, ModesCorrect, PTL

--------------------------------------------------------------------------------
(* The four models side by side.                                                   *)

\* A step of the run moves one model and leaves the others alone.
LEMMA ClientMoves ==
    [ClientsNext]_clientVars =>
        [Next]_vars /\ [PagerNext]_pagerVars /\ [WireNext]_wireVars /\ [ModesNext]_modesVars
<1> SUFFICES ASSUME [ClientsNext]_clientVars
             PROVE  [Next]_vars /\ [PagerNext]_pagerVars /\ [WireNext]_wireVars /\ [ModesNext]_modesVars
  OBVIOUS
<1>1. UNCHANGED clientVars =>
        UNCHANGED vars /\ UNCHANGED pagerVars /\ UNCHANGED wireVars /\ UNCHANGED modesVars
  BY DEF clientVars
<1>2. ASSUME \/ ViewsDo(New) \/ ViewsDo(Enter) \/ ViewsDo(AskKill) \/ ViewsDo(ConfirmKill)
             \/ ViewsDo(CancelKill) \/ ViewsDo(Quit) \/ ViewsDo(PollTick) \/ ViewsDo(DetachKey)
             \/ ViewsDo(TakeOverKey) \/ ViewsDo(BackToEntry)
      PROVE  ViewsDo(Next)
  BY <1>2 DEF ViewsDo, Next
<1>3. ASSUME NEW s \in Sids,
             ViewsDo(Attach(s)) \/ ViewsDo(AttachFails(s)) \/ ViewsDo(SessionEnds(s)) \/ ViewsDo(Unregister(s))
      PROVE  ViewsDo(Next)
  BY <1>3 DEF ViewsDo, Next
<1>4. ASSUME NEW v \in Views,
             \/ ViewsDo(StreamEnded(v)) \/ ViewsDo(FlagHeard(v)) \/ ViewsDo(WaiterEnds(v))
             \/ ViewsDo(Serve(v)) \/ ViewsDo(Subscribe(v)) \/ ViewsDo(StreamEnds(v))
             \/ \E f \in BOOLEAN : ViewsDo(Tell(v, f))
      PROVE  ViewsDo(Next)
  BY <1>4 DEF ViewsDo, Next
<1>5. ASSUME \/ PagerDoes(PrintLines) \/ PagerDoes(ClearHistory) \/ PagerDoes(SwitchModes)
             \/ PagerDoes(TurnWheelNotch) \/ PagerDoes(WheelIsAgents) \/ PagerDoes(WheelIsNotAgents)
             \/ PagerDoes(Page) \/ PagerDoes(KeyToLive) \/ PagerDoes(ActiveMsg)
             \/ PagerDoes(RenderTickMsg) \/ PagerDoes(LookAtDepth) \/ PagerDoes(ScrolledView)
      PROVE  PagerDoes(PagerNext)
  BY <1>5 DEF PagerDoes, PagerNext
<1>6. ASSUME \/ \E w \in Writers : WireDoes(LockToWrite(w))
             \/ WireDoes(WriteBytes) \/ WireDoes(UnlockWriter) \/ WireDoes(ReadFrame)
             \/ WireDoes(ConnectionCut)
      PROVE  WireDoes(WireNext)
  BY <1>6 DEF WireDoes, WireNext
<1>7. ASSUME ModesDo(WriteOutput) \/ ModesDo(ReadOutputBytes) \/ ModesDo(JoinLate)
      PROVE  ModesDo(ModesNext)
  BY <1>7 DEF ModesDo, ModesNext
<1>8. \/ UNCHANGED clientVars
      \/ ViewsDo(Next) \/ PagerDoes(PagerNext) \/ WireDoes(WireNext) \/ ModesDo(ModesNext)
  BY <1>2, <1>3, <1>4, <1>5, <1>6, <1>7 DEF ClientsNext
<1> QED
  BY <1>1, <1>8 DEF ViewsDo, PagerDoes, WireDoes, ModesDo

\* What the run checks side by side are the four models as they are alone: every
\* theorem about one of them holds of the run's behaviours, for any constants.
THEOREM ClientsAreEach == ClientsSpec => Spec /\ PagerSpec /\ WireSpec /\ ModesSpec
<1>1. ClientsInit => Init /\ PagerInit /\ WireInit /\ ModesInit
  BY DEF ClientsInit
<1> QED
  BY <1>1, ClientMoves, PTL DEF ClientsSpec, Spec, PagerSpec, WireSpec, ModesSpec

\* What the client keeps, what passes on its connection and what its terminal has on
\* stay within their types, of any number of sessions, lines, writes and frames.
THEOREM ClientsTypes == ClientsSpec => []ClientsTypeOK
<1>1. TuiInv /\ PagerInv /\ WireInv /\ ModesInv => ClientsTypeOK
  BY DEF ClientsTypeOK, TuiInv, PagerInv, WireInv, ModesInv, ModesTyped
<1> QED
  BY <1>1, ClientsAreEach, TuiCorrect, PagerCorrect, WireCorrect, ModesCorrect, PTL

==================================================================================
