--------------------------- MODULE MCSessionLiveness ---------------------------
(* The life of sessions with clients that keep reading what they are sent: one   *)
(* that stops holds up the ends of sessions for the others.                      *)
EXTENDS SessionLifecycle

LivenessNext ==
    \/ \E c \in Conns : Request(c) \/ HandlerStep(c) \/ StreamStep(c) \/ HangUp(c)
    \/ \E s \in Sessions : LoopStep(s) \/ ProcessExits(s)
    \/ Signal \/ ShutdownStep
    \/ Over /\ UNCHANGED vars

LivenessSpec == Init /\ [][LivenessNext]_vars /\ Fairness
================================================================================
