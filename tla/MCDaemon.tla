------------------------------- MODULE MCDaemon -------------------------------
(* The life of sessions and the search for agents outside of them, checked in   *)
(* one run: they share no state here, and topic says which of the two moves, so *)
(* their states add up instead of multiplying.                                  *)
EXTENDS SessionLifecycle, Discovery

VARIABLE topic

daemonSideVars == <<topic, vars, discoveryVars>>

DaemonInit ==
    /\ topic \in {"sessions", "discovery"}
    /\ Init /\ DiscoveryInit
    /\ topic # "discovery" => agents = {}

SessionsDo(A)    == topic = "sessions"  /\ A /\ UNCHANGED <<topic, discoveryVars>>
DiscoveryDoes(A) == topic = "discovery" /\ A /\ UNCHANGED <<topic, vars>>

\* The next-state relation of each model, action by action.
DaemonNext ==
    \/ \E c \in Conns :
         \/ SessionsDo(Request(c)) \/ SessionsDo(HandlerStep(c)) \/ SessionsDo(StreamStep(c))
         \/ SessionsDo(HangUp(c)) \/ SessionsDo(Stall(c))
    \/ \E s \in Sessions : SessionsDo(LoopStep(s)) \/ SessionsDo(ProcessExits(s))
    \/ SessionsDo(Signal) \/ SessionsDo(ShutdownStep) \/ SessionsDo(Over /\ UNCHANGED vars)
    \/ \E p \in Procs : DiscoveryDoes(StartProgram(p)) \/ DiscoveryDoes(ProcessDies(p))
    \/ \E s \in Own :
         \/ DiscoveryDoes(AddSession(s)) \/ DiscoveryDoes(SetCmd(s)) \/ DiscoveryDoes(DropSession(s))
         \/ \E p \in Procs : DiscoveryDoes(Fork(s, p))
    \/ DiscoveryDoes(ScanProcs) \/ DiscoveryDoes(Discover)
    \/ topic = "discovery" /\ UNCHANGED daemonSideVars

DaemonSpec == DaemonInit /\ [][DaemonNext]_daemonSideVars

DaemonTypeOK == TypeOK /\ DiscoveryTypeOK
===============================================================================
