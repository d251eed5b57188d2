----------------------------- MODULE OutputPromise -----------------------------
(* What the daemon promises about a session's output: who attaches gets the    *)
(* state so far, then each later chunk once and in order, and a chunk is lost  *)
(* only on a client that is already Capacity chunks behind.                    *)
EXTENDS Integers, FiniteSets

CONSTANTS Conns,    \* the client connections
          Capacity  \* how far a client may fall behind

VARIABLES written,  \* how many chunks the session has written
          joined,   \* how many of them c's replay holds, NotYet before it attached
          seen,     \* the later chunks that c received
          lost      \* the later chunks that c will never receive

promiseVars == <<written, joined, seen, lost>>

NotYet == -1

PromiseInit ==
    /\ written = 0
    /\ joined = [c \in Conns |-> NotYet]
    /\ seen = [c \in Conns |-> {}]
    /\ lost = [c \in Conns |-> {}]

Missing(c) == ((joined[c] + 1) .. written) \ (seen[c] \cup lost[c])

Behind == {c \in Conns : joined[c] # NotYet /\ Cardinality(Missing(c)) >= Capacity}

Join(c) ==
    /\ joined[c] = NotYet
    /\ joined' = [joined EXCEPT ![c] = written]
    /\ UNCHANGED <<written, seen, lost>>

Write ==
    /\ written' = written + 1
    /\ \E losers \in SUBSET Behind :
          lost' = [c \in Conns |-> IF c \in losers THEN lost[c] \cup {written + 1} ELSE lost[c]]
    /\ UNCHANGED <<joined, seen>>

See(c, i) ==
    /\ joined[c] # NotYet
    /\ i \in Missing(c)
    /\ \A j \in Missing(c) : i <= j
    /\ seen' = [seen EXCEPT ![c] = @ \cup {i}]
    /\ UNCHANGED <<written, joined, lost>>

PromiseNext == Write \/ \E c \in Conns : Join(c) \/ \E i \in Missing(c) : See(c, i)

PromiseSpec == PromiseInit /\ [][PromiseNext]_promiseVars
================================================================================
