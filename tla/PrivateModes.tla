------------------------------ MODULE PrivateModes ------------------------------
(* The DEC private modes of a session's terminal. The daemon scans each read of  *)
(* the PTY for mode sequences by itself (UpdatePrivateModes) and keeps those     *)
(* that are on; an attaching client's terminal is fed a lead that turns them on  *)
(* again, then each later read. Next to it stands a terminal that was attached   *)
(* from the start: what its parser makes of the output is what the lead must     *)
(* restore. A byte is a one-character string, a mode the digits of its number.   *)
EXTENDS Naturals, Sequences, SequencesExt

CONSTANTS MaxWrites   \* bound: pieces of output

ASSUME ModesAssumption == MaxWrites \in Nat

Digits == {"0", "1", "2", "4", "5"}

Characters == Digits \cup {"esc", "[", "?", ";", "h", "l", "m"}

\* Cursor keys, the cursor's visibility, bracketed paste.
PrivateModesSeen == {<<"1">>, <<"2", "5">>, <<"2", "0", "0", "4">>}

\* A terminal has these on when it starts; the daemon takes every mode for off.
OnByDefault == {<<"2", "5">>}

ModeSequence(params, final) == <<"esc", "[", "?">> \o params \o <<final>>

\* What programs write: mode sequences of one field or two, colours, text.
Writes ==
    {<<"esc", "[", "2", "m">>, <<"h">>}
        \cup UNION {{ModeSequence(params, "h"), ModeSequence(params, "l")} :
                params \in PrivateModesSeen \cup {<<"1", ";">> \o <<"2", "0", "0", "4">>}}

VARIABLES
    tty,       \* written by the program, not yet read
    modesOn,   \* Session.modes
    veteran,   \* the terminal attached from the start
    newcomer,  \* the terminal attached later
    joinedLate,
    cut,       \* history: modes whose last sequence was cut by a read
    writes

modesVars == <<tty, modesOn, veteran, newcomer, joinedLate, cut, writes>>

--------------------------------------------------------------------------------
(* Parsing.                                                                     *)

\* strings.Split at the semicolons, empty fields left out.
Fields(params) ==
    {SubSeq(params, field[1], field[2]) : field \in
        {f \in (DOMAIN params) \X (DOMAIN params) :
            /\ f[1] <= f[2] /\ \A k \in f[1] .. f[2] : params[k] # ";"
            /\ f[1] = 1 \/ params[f[1] - 1] = ";"
            /\ f[2] = Len(params) \/ params[f[2] + 1] = ";"}}

\* The private-mode sequence at i of b ends at j.
SequenceAt(b, i, j) ==
    /\ i + 3 <= j
    /\ b[i] = "esc" /\ b[i + 1] = "[" /\ b[i + 2] = "?"
    /\ \A k \in i + 3 .. j - 1 : b[k] \in Digits \cup {";"}
    /\ b[j] \in {"h", "l"}

NamedIn(b, i, j) == Fields(SubSeq(b, i + 3, j - 1))

\* What the sequence that ends at j names, if there is one.
NamedAt(b, j) == UNION {NamedIn(b, i, j) : i \in {k \in 1 .. j : SequenceAt(b, k, j)}}

Turned(on, named, final) == IF final = "h" THEN on \cup named ELSE on \ named

\* Mutated: what a program turns off stays on.
UpdateModesSetOnly(b, modes) ==
    modes \cup UNION {NamedAt(b, j) : j \in {k \in 1 .. Len(b) : b[k] = "h"}}

\* The sequences of one read, in the order of their ends; no two overlap.
UpdatePrivateModes(b, modes) ==
    LET on[j \in 0 .. Len(b)] ==
            IF j = 0 THEN modes ELSE Turned(on[j - 1], NamedAt(b, j), b[j])
    IN  on[Len(b)]

\* A terminal: the modes it has on and the sequence it is in the middle of. An ESC
\* always starts one; after that any letter but the [ of a CSI ends it.
Fresh == [on |-> OnByDefault, pending |-> <<>>]

Feed(terminal, byte) ==
    LET seen == Append(terminal.pending, byte)
    IN  IF byte = "esc" THEN [terminal EXCEPT !.pending = <<"esc">>]
        ELSE IF terminal.pending = <<>> THEN terminal
        ELSE IF byte \in Digits \cup {";", "?"} \/ seen = <<"esc", "[">>
          THEN [terminal EXCEPT !.pending = seen]
        ELSE [on |-> IF SequenceAt(seen, 1, Len(seen))
                       THEN Turned(terminal.on, NamedIn(seen, 1, Len(seen)), byte)
                       ELSE terminal.on,
              pending |-> <<>>]

FeedAll(terminal, b) ==
    LET fed[j \in 0 .. Len(b)] == IF j = 0 THEN terminal ELSE Feed(fed[j - 1], b[j])
    IN  fed[Len(b)]

--------------------------------------------------------------------------------

ModesInit ==
    /\ tty = <<>>
    /\ modesOn = {}
    /\ veteran = Fresh /\ newcomer = Fresh /\ joinedLate = FALSE
    /\ cut = {}
    /\ writes = 0

WriteOutput ==
    /\ writes < MaxWrites
    /\ \E w \in Writes : tty' = tty \o w
    /\ writes' = writes + 1
    /\ UNCHANGED <<modesOn, veteran, newcomer, joinedLate, cut>>

\* The modes of a sequence that b ends but did not begin.
Straggling(pending, b) ==
    LET whole == pending \o b
    IN  UNION {NamedIn(whole, span[1], span[2]) : span \in
            {s \in (1 .. Len(pending)) \X (1 .. Len(whole)) : SequenceAt(whole, s[1], s[2])}}

\* readLoop and handleOutput: the emulator, the modes and every subscriber get the
\* same bytes, as many as a read returns.
ReadOutputBytes ==
    \E n \in 1 .. Len(tty) :
        LET b == SubSeq(tty, 1, n)
        IN  /\ tty' = SubSeq(tty, n + 1, Len(tty))
            /\ modesOn' = UpdatePrivateModes(b, modesOn)
            /\ veteran' = FeedAll(veteran, b)
            /\ newcomer' = IF joinedLate THEN FeedAll(newcomer, b) ELSE newcomer
            /\ cut' = (cut \cup Straggling(veteran.pending, b)) \ UNION {NamedAt(b, j) : j \in DOMAIN b}
            /\ UNCHANGED <<joinedLate, writes>>

\* modeRestoreBytes, in some order.
RestoreBytes(modes) ==
    LET lead[j \in 0 .. Len(modes)] ==
            IF j = 0 THEN <<>> ELSE lead[j - 1] \o ModeSequence(modes[j], "h")
    IN  lead[Len(modes)]

\* SubscribeWithScrollback, as far as the lead goes.
JoinLate ==
    /\ ~joinedLate
    /\ joinedLate' = TRUE
    /\ \E order \in SetToSeqs(modesOn) : newcomer' = FeedAll(Fresh, RestoreBytes(order))
    /\ UNCHANGED <<tty, modesOn, veteran, cut, writes>>

ModesNext == WriteOutput \/ ReadOutputBytes \/ JoinLate

ModesSpec == ModesInit /\ [][ModesNext]_modesVars

ModesTypeOK ==
    /\ tty \in Seq(Characters)
    /\ modesOn \subseteq Seq(Digits) /\ cut \subseteq Seq(Digits)
    /\ {veteran, newcomer} \subseteq [on : SUBSET Seq(Digits), pending : Seq(Characters)]
    /\ joinedLate \in BOOLEAN /\ writes \in 0 .. MaxWrites

\* "so the attaching client starts with the whole conversation": the terminal of a
\* client that attached at any moment has the modes of one that was attached from
\* the start, and so has the daemon's own record, whatever the reads the output
\* comes in; but for the modes that a terminal starts with on, and for a mode whose
\* last change was cut by a read, until the next change of that same mode
\* (UpdatePrivateModes: "won't match ... self-corrects on the next mode change").
ReplayRestoresModes ==
    \A m \in PrivateModesSeen \ (OnByDefault \cup cut) :
        /\ m \in modesOn <=> m \in veteran.on
        /\ joinedLate => (m \in newcomer.on <=> m \in veteran.on)
================================================================================
