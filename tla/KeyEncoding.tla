------------------------------- MODULE KeyEncoding -------------------------------
(* The bytes of a key, twice: encodeKey, by which the daemon turns the name of a  *)
(* pad button's key into what it writes to the PTY, and encodeTeaKey, by which    *)
(* the desktop view turns a key pressed at the desk into what it sends. A key is  *)
(* a chord of modifiers and a base, which is a named key or one character.        *)
EXTENDS Naturals, Sequences

ESC == 27
Csi(final) == <<ESC, 91>> \o final
BackTab == Csi(<<90>>)

\* The named keys of both tables, as they are sent when no modifier is held, and
\* those that only encodeTeaKey knows.
NamedKeys == [Enter |-> <<13>>, Esc |-> <<ESC>>, Tab |-> <<9>>, Space |-> <<32>>,
              Up |-> Csi(<<65>>), Down |-> Csi(<<66>>), Right |-> Csi(<<67>>), Left |-> Csi(<<68>>),
              Backspace |-> <<127>>, Delete |-> Csi(<<51, 126>>)]
DeskKeys == [Home |-> Csi(<<72>>), End |-> Csi(<<70>>)]
KeyBytes(name) == IF name \in DOMAIN DeskKeys THEN DeskKeys[name] ELSE NamedKeys[name]

Named(name) == [name |-> name, code |-> KeyBytes(name)[1]]
Char(code)  == [name |-> "char", code |-> code]
Chord(mods, base) == [mods |-> mods, base |-> base]

IsLower(code) == code \in 97 .. 122
Lower(code) == IF code \in 65 .. 90 THEN code + 32 ELSE code
Upper(code) == IF IsLower(code) THEN code - 32 ELSE code

\* What becomes of a chord that a table does not know: the view sends nothing, the
\* daemon takes its name for text and types the letters, which stand here as one.
NoBytes == <<>>
TypedName == <<256>>

\* The bases that encodeChord takes. Not a plus, at which it splits the name.
Plus == Char(43)
ChordBases == {"char", "Space", "Enter", "Tab", "Esc", "Backspace"}

encodeChord(c) ==
    LET shifted == IF "Shift" \in c.mods THEN Upper(c.base.code) ELSE c.base.code
        byte == CASE "Ctrl" \in c.mods /\ IsLower(Lower(shifted)) -> Lower(shifted) - 96
                  [] "Ctrl" \in c.mods /\ shifted \in {32, 64} -> 0
                  [] OTHER -> shifted
    IN  IF c.base.name \notin ChordBases \/ (c.base = Plus /\ c.mods # {}) THEN TypedName
        ELSE IF "Alt" \in c.mods THEN <<ESC, byte>> ELSE <<byte>>

encodeKey(c) ==
    CASE c = Chord({"Shift"}, Named("Tab")) -> BackTab
      [] c.mods = {} /\ c.base.name \in DOMAIN NamedKeys -> NamedKeys[c.base.name]
      [] OTHER -> encodeChord(c)

\* Bubble Tea reports Alt apart from the key, and encodeTeaKey does not look at it.
\* A modified arrow and Ctrl+Space are keys of their own, which encodeTeaKey does not
\* know. Whether other modified keys differ from the plain ones is up to the
\* terminal; they are sent nothing for here, and DeskKnows leaves them out.
encodeTeaKey(c) ==
    LET mods == c.mods \ {"Alt"}
    IN  CASE c.base.name = "Tab" /\ mods = {"Shift"} -> BackTab
          [] c.base.name # "char" /\ mods = {} -> KeyBytes(c.base.name)
          [] c.base.name = "char" /\ "Ctrl" \in mods /\ IsLower(Lower(c.base.code)) ->
                 <<Lower(c.base.code) - 96>>
          [] c.base.name = "char" /\ "Ctrl" \notin mods ->
                 <<IF "Shift" \in mods THEN Upper(c.base.code) ELSE c.base.code>>
          [] OTHER -> NoBytes

\* The chords that encodeTeaKey passes on as they are: no Alt, modifiers on letters only
\* but for Shift+Tab. Ctrl+T is one of them, though the view keeps it for itself.
DeskKnows(c) ==
    \/ c.mods = {} \/ c = Chord({"Shift"}, Named("Tab"))
    \/ "Alt" \notin c.mods /\ c.base.name = "char" /\ IsLower(Lower(c.base.code))
================================================================================
