----------------------------- MODULE MCSideBySide -----------------------------
(* Models that share no state, checked in one run: topic says which of them    *)
(* moves, so their states add up instead of multiplying. The others rest in    *)
(* one of their initial states.                                                *)
EXTENDS Startup, TypedInput, ControlRpc, AgentTitles, Pad, TLC

VARIABLE topic

sideVars == <<topic, vars, inputVars, rpcVars, titlesVars, padVars>>

SideInit ==
    /\ topic \in {"startup", "input", "rpc", "titles", "pad"}
    /\ Init /\ InputInit /\ RpcInit /\ TitlesInit /\ PadInit
    /\ topic # "startup" =>
           mode = [s \in Starters |-> "lan"] /\ info = "none" /\ current = FALSE
    /\ topic # "pad" => binding = Unbound

StartupDoes(A) == topic = "startup" /\ A /\ UNCHANGED <<topic, inputVars, rpcVars, titlesVars, padVars>>
InputDoes(A)   == topic = "input"   /\ A /\ UNCHANGED <<topic, vars, rpcVars, titlesVars, padVars>>
RpcDoes(A)     == topic = "rpc"     /\ A /\ UNCHANGED <<topic, vars, inputVars, titlesVars, padVars>>
TitlesDo(A)    == topic = "titles"  /\ A /\ UNCHANGED <<topic, vars, inputVars, rpcVars, padVars>>
PadDoes(A)     == topic = "pad"     /\ A /\ UNCHANGED <<topic, vars, inputVars, rpcVars, titlesVars>>

\* The next-state relation of each model, action by action.
SideNext ==
    \/ \E s \in Starters :
         \/ StartupDoes(Begin(s)) \/ StartupDoes(CheckWeb(s))
         \/ StartupDoes(EnsureDaemon(s)) \/ StartupDoes(WaitDaemon(s))
         \/ StartupDoes(EnsureWeb(s)) \/ StartupDoes(ProbeWeb(s))
         \/ StartupDoes(PortTaken(s)) \/ StartupDoes(RespawnWeb(s))
         \/ StartupDoes(WaitWeb(s)) \/ StartupDoes(TimeOut(s))
         \/ StartupDoes(Unlink(s)) \/ StartupDoes(Bind(s))
         \/ StartupDoes(CloseListener(s)) \/ StartupDoes(DaemonDies(s))
         \/ StartupDoes(WebBinds(s)) \/ StartupDoes(WritesInfo(s))
         \/ StartupDoes(WebDies(s))
    \/ StartupDoes(NetworkMoves) \/ StartupDoes(StopDaemons)
    \/ StartupDoes(StopWebs) \/ StartupDoes(RemoveInfo)
    \/ \E e \in Ends :
         \/ InputDoes(Serve(e)) \/ InputDoes(WritePiece(e))
    \/ InputDoes(PressKey) \/ InputDoes(FlagArrives) \/ InputDoes(CloseView)
    \/ InputDoes(NextJob) \/ InputDoes(SendRequest) \/ InputDoes(Tap)
    \/ InputDoes(ViewGone) \/ InputDoes(TTYCloses)
    \/ \E g \in Callers :
         \/ RpcDoes(Roundtrip(g)) \/ RpcDoes(Kill(g)) \/ RpcDoes(Receive(g))
         \/ RpcDoes(ReadFails(g))
    \/ RpcDoes(Answer) \/ RpcDoes(Lose)
    \/ \E v \in Viewers :
         \/ TitlesDo(ListArrives(v)) \/ TitlesDo(Enter(v))
         \/ TitlesDo(Subscribed(v)) \/ TitlesDo(Leave(v)) \/ TitlesDo(Reconnect(v))
         \/ TitlesDo(PushArrives(v))
    \/ TitlesDo(AgentChanges) \/ TitlesDo(Tick) \/ TitlesDo(Scan)
    \/ TitlesDo(Compare) \/ TitlesDo(Snapshot) \/ TitlesDo(Push)
    \/ \E p \in Pages :
         \/ PadDoes(AttachPad(p)) \/ PadDoes(LosePad(p)) \/ PadDoes(Rebind(p))
         \/ PadDoes(PressButton(p)) \/ PadDoes(PushedLabel(p)) \/ PadDoes(ReadBinding(p))
         \/ PadDoes(PushBinding(p)) \/ PadDoes(SetCustom(p)) \/ PadDoes(DoAction(p))
    \/ PadDoes(SetCustomLate)

SideSpec == SideInit /\ [][SideNext]_sideVars

Symmetry == Permutations(Starters) \cup Permutations(Viewers)

SideTypeOK == TypeOK /\ InputTypeOK /\ RpcTypeOK /\ TitlesTypeOK /\ PadTypeOK
===============================================================================
