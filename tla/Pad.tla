----------------------------------- MODULE Pad -----------------------------------
(* A custom button of the pads that pages show of one session. Its binding lives  *)
(* in the session; a page has only a copy, the button's label, which it gets with *)
(* its attach, writes itself when it rebinds, and consults on a tap. No page is   *)
(* told when another one rebinds. Each page has one connection at a time; what a  *)
(* lost one had sent may still be handled later.                                  *)
EXTENDS KeyEncoding

CONSTANTS
    Pages,
    MaxRebinds, MaxPresses, MaxLinks   \* bounds

ASSUME PadAssumption == {MaxRebinds, MaxPresses, MaxLinks} \subseteq Nat

\* What a button can be bound to: nothing, a text, a key.
Unbound == [text |-> FALSE, keys |-> <<>>]
Compact == [text |-> TRUE, keys |-> <<>>]
Key(c)  == [text |-> FALSE, keys |-> <<c>>]
Bindings == {Unbound, Compact, Key(Chord({"Ctrl"}, Char(75))), Key(Chord({"Shift"}, Named("Tab")))}

VARIABLES
    binding,    \* preset.Buttons of the session
    label,      \* custom of each page
    linked,     \* the page's WebSocket is open
    requests,   \* frames on their way to the daemon, by page
    pushing,    \* the bindings an attach handler has read and not sent yet
    pushes,     \* set_button frames on their way to the page
    strays,     \* requests of connections that were lost
    rebinds, presses, links,
    told,       \* history: the attach was handled
    early,      \* history: the page rebound before its push had come
    foreign,    \* history: the binding was changed otherwise since the page's attach
    lastPress   \* history: the last action handled

pageSide == <<label, linked, told, early>>
padBounds == <<rebinds, presses, links>>
padVars == <<binding, pageSide, requests, pushing, pushes, strays, padBounds, foreign, lastPress>>

AttachRequest == [kind |-> "attach", value |-> Unbound, excused |-> TRUE]
SetButton(value) == [kind |-> "set_button", value |-> value, excused |-> TRUE]
PressRequest(value, excused) == [kind |-> "action", value |-> value, excused |-> excused]
NoPress == [meant |-> Unbound, typed |-> FALSE, bytes |-> NoBytes, excused |-> TRUE]

\* The session was started with the preset's binding, or applyButtonDefaults's. The
\* pages still show what another session's button is bound to.
PadInit ==
    /\ binding \in {Unbound, Compact}
    /\ label = [p \in Pages |-> Compact]
    /\ linked = [p \in Pages |-> FALSE]
    /\ requests = [p \in Pages |-> <<>>] /\ pushes = [p \in Pages |-> <<>>]
    /\ pushing = [p \in Pages |-> <<>>] /\ strays = <<>>
    /\ rebinds = 0 /\ presses = 0 /\ links = 0
    /\ told = [p \in Pages |-> FALSE] /\ early = [p \in Pages |-> FALSE]
    /\ foreign = [p \in Pages |-> FALSE]
    /\ lastPress = NoPress

\* The page has what the daemon told it, and nothing else.
Pushed(p)  == told[p] /\ pushes[p] = <<>>
Certain(p) == Pushed(p) /\ ~early[p]

--------------------------------------------------------------------------------
(* The page.                                                                    *)

\* send: nothing unless the WebSocket is open.
SendUp(p, request) ==
    requests' = IF linked[p] THEN [requests EXCEPT ![p] = Append(@, request)] ELSE requests

\* enterSession or reattach, up to its onopen.
AttachPad(p) ==
    /\ ~linked[p] /\ links < MaxLinks
    /\ links' = links + 1
    /\ linked' = [linked EXCEPT ![p] = TRUE]
    /\ requests' = [requests EXCEPT ![p] = <<AttachRequest>>]
    /\ told' = [told EXCEPT ![p] = FALSE] /\ early' = [early EXCEPT ![p] = FALSE]
    /\ UNCHANGED <<binding, label, pushing, pushes, strays, rebinds, presses, foreign, lastPress>>

\* The connection is lost with all that it carries to the page; the daemon may read
\* the rest of what the page sent, or none of it.
LosePad(p) ==
    /\ linked[p]
    /\ linked' = [linked EXCEPT ![p] = FALSE]
    /\ requests' = [requests EXCEPT ![p] = <<>>]
    /\ pushes' = [pushes EXCEPT ![p] = <<>>] /\ pushing' = [pushing EXCEPT ![p] = <<>>]
    /\ strays' \in {strays, strays \o requests[p]}
    /\ told' = [told EXCEPT ![p] = FALSE]
    /\ UNCHANGED <<binding, label, padBounds, early, foreign, lastPress>>

\* rebind-save: the request and, sent or not, the label.
Rebind(p) ==
    /\ rebinds < MaxRebinds /\ rebinds' = rebinds + 1
    /\ \E value \in Bindings \ {Unbound} :
         /\ SendUp(p, SetButton(value))
         /\ label' = [label EXCEPT ![p] = value]
    /\ early' = [early EXCEPT ![p] = @ \/ ~Pushed(p)]
    /\ UNCHANGED <<binding, linked, pushing, pushes, strays, presses, links, told, foreign, lastPress>>

\* A click: a text goes into the text bar, which is the page's own affair; for
\* anything else the daemon is asked.
PressButton(p) ==
    /\ presses < MaxPresses /\ presses' = presses + 1
    /\ ~label[p].text
    /\ SendUp(p, PressRequest(label[p], ~Certain(p)))
    /\ UNCHANGED <<binding, pageSide, pushing, pushes, strays, rebinds, links, foreign, lastPress>>

\* onSessionFrame: setCustomLabel.
PushedLabel(p) ==
    /\ pushes[p] # <<>>
    /\ label' = [label EXCEPT ![p] = Head(pushes[p])]
    /\ pushes' = [pushes EXCEPT ![p] = Tail(@)]
    /\ UNCHANGED <<binding, linked, told, early, requests, pushing, strays, padBounds, foreign, lastPress>>

--------------------------------------------------------------------------------
(* The daemon: one handler per connection, one request at a time.               *)

TakeRequest(p, kind) ==
    /\ pushing[p] = <<>> /\ requests[p] # <<>> /\ Head(requests[p]).kind = kind
    /\ requests' = [requests EXCEPT ![p] = Tail(@)]

\* MsgAttach reads customBindings...
ReadBinding(p) ==
    /\ TakeRequest(p, "attach")
    /\ pushing' = [pushing EXCEPT ![p] = <<binding>>]
    /\ foreign' = [foreign EXCEPT ![p] = FALSE]
    /\ UNCHANGED <<binding, pageSide, pushes, strays, padBounds, lastPress>>

\* Mutated: a button that is bound to nothing is not pushed.
PushBoundOnly(p) ==
    /\ pushing[p] # <<>>
    /\ pushes' = [pushes EXCEPT ![p] = IF Head(pushing[p]) = Unbound THEN @ ELSE @ \o pushing[p]]
    /\ pushing' = [pushing EXCEPT ![p] = <<>>]
    /\ told' = [told EXCEPT ![p] = TRUE]
    /\ UNCHANGED <<binding, label, linked, early, requests, strays, padBounds, foreign, lastPress>>

\* ... and sends it.
PushBinding(p) ==
    /\ pushing[p] # <<>>
    /\ pushes' = [pushes EXCEPT ![p] = @ \o pushing[p]]
    /\ pushing' = [pushing EXCEPT ![p] = <<>>]
    /\ told' = [told EXCEPT ![p] = TRUE]
    /\ UNCHANGED <<binding, label, linked, early, requests, strays, padBounds, foreign, lastPress>>

\* SetCustom for page p: every other page's copy is old now.
SetCustom(p) ==
    /\ TakeRequest(p, "set_button")
    /\ binding' = Head(requests[p]).value
    /\ foreign' = [q \in Pages |-> foreign[q] \/ q # p]
    /\ UNCHANGED <<pageSide, pushing, pushes, strays, padBounds, lastPress>>

\* What a lost connection had sent comes late: an attach or a press of it is of no
\* page any more, a set_button is of no page's making.
SetCustomLate ==
    /\ strays # <<>>
    /\ strays' = Tail(strays)
    /\ IF Head(strays).kind = "set_button"
         THEN binding' = Head(strays).value /\ foreign' = [q \in Pages |-> TRUE]
         ELSE UNCHANGED <<binding, foreign>>
    /\ UNCHANGED <<pageSide, requests, pushing, pushes, padBounds, lastPress>>

\* DoAction: actionSequence has the binding of this moment, encodeKey its bytes; a
\* text is typed letter by letter.
DoAction(p) ==
    /\ TakeRequest(p, "action")
    /\ LET press == Head(requests[p])
       IN  lastPress' = [meant |-> press.value, typed |-> binding.text,
                         bytes |-> IF binding.keys = <<>> THEN NoBytes ELSE encodeKey(binding.keys[1]),
                         excused |-> press.excused \/ foreign[p]]
    /\ UNCHANGED <<binding, pageSide, pushing, pushes, strays, padBounds, foreign>>

PadNext ==
    \/ \E p \in Pages :
         \/ AttachPad(p) \/ LosePad(p) \/ Rebind(p) \/ PressButton(p) \/ PushedLabel(p)
         \/ ReadBinding(p) \/ PushBinding(p) \/ SetCustom(p) \/ DoAction(p)
    \/ SetCustomLate

PadSpec == PadInit /\ [][PadNext]_padVars

--------------------------------------------------------------------------------

PadTypeOK ==
    /\ binding \in Bindings /\ label \in [Pages -> Bindings]
    /\ {linked, told, early, foreign} \subseteq [Pages -> BOOLEAN]
    /\ \A p \in Pages : Len(pushing[p]) <= 1 /\ pushing[p] \in Seq(Bindings) /\ pushes[p] \in Seq(Bindings)
    /\ rebinds \in 0 .. MaxRebinds /\ presses \in 0 .. MaxPresses /\ links \in 0 .. MaxLinks

Chords ==
    {Chord(mods, base) : mods \in SUBSET {"Ctrl", "Alt", "Shift"},
                         base \in {Named(k) : k \in DOMAIN NamedKeys \cup DOMAIN DeskKeys}
                                     \cup {Char(n) : n \in 33 .. 126}}

\* Home and End are keys at the desk only: a pad would type the words.
DeskAndPadAgree ==
    \A c \in Chords : DeskKnows(c) =>
        encodeKey(c) = IF c.base.name \in DOMAIN DeskKeys THEN TypedName ELSE encodeTeaKey(c)

\* "or its pad shows the default labels": once its attach was answered, a page's
\* button shows what the session's is bound to, whatever it showed before and
\* however connections were lost; and a press writes what the key on the label is
\* at the desk. Not so while another page has rebound since, for no page is told,
\* nor when the page itself rebound before the attach's answer had come, which then
\* undoes its label. Of the keys that the desk passes on, each is the same bytes from a
\* pad, but for Home and End, which encodeKey does not know and types as words; the
\* page's dialog takes them for texts, so that no button is bound to them as keys.
PadTellsBinding ==
    /\ \A p \in Pages :
         linked[p] /\ Certain(p) /\ ~foreign[p] /\ requests[p] = <<>> => label[p] = binding
    /\ ~lastPress.excused =>
         /\ ~lastPress.typed
         /\ LET keys == lastPress.meant.keys
            IN  lastPress.bytes = IF keys = <<>> THEN NoBytes ELSE encodeTeaKey(keys[1])
    /\ DeskAndPadAgree
================================================================================
