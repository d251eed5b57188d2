------------------------------ MODULE MCClients ------------------------------
(* What the clients keep and what passes between them and the daemon, in models *)
(* that share no state: topic says which of them moves, so their states add up  *)
(* instead of multiplying. The others rest in one of their initial states.      *)
EXTENDS TuiNavigation, Pager, Wire, PrivateModes

VARIABLE topic

clientVars == <<topic, vars, pagerVars, wireVars, modesVars>>

ClientsInit ==
    /\ topic \in {"views", "pager", "wire", "modes"}
    /\ Init /\ PagerInit /\ WireInit /\ ModesInit
    /\ topic # "wire" => replay = <<>>
    /\ topic # "views" => running = {}

ViewsDo(A)   == topic = "views" /\ A /\ UNCHANGED <<topic, pagerVars, wireVars, modesVars>>
PagerDoes(A) == topic = "pager" /\ A /\ UNCHANGED <<topic, vars, wireVars, modesVars>>
WireDoes(A)  == topic = "wire"  /\ A /\ UNCHANGED <<topic, vars, pagerVars, modesVars>>
ModesDo(A)   == topic = "modes" /\ A /\ UNCHANGED <<topic, vars, pagerVars, wireVars>>

\* The next-state relation of each model, action by action.
ClientsNext ==
    \/ ViewsDo(New) \/ ViewsDo(Enter) \/ ViewsDo(AskKill) \/ ViewsDo(ConfirmKill)
    \/ ViewsDo(CancelKill) \/ ViewsDo(Quit) \/ ViewsDo(PollTick) \/ ViewsDo(DetachKey)
    \/ ViewsDo(TakeOverKey) \/ ViewsDo(BackToEntry)
    \/ \E s \in Sids :
         \/ ViewsDo(Attach(s)) \/ ViewsDo(AttachFails(s)) \/ ViewsDo(SessionEnds(s))
         \/ ViewsDo(Unregister(s))
    \/ \E v \in Views :
         \/ ViewsDo(StreamEnded(v)) \/ ViewsDo(FlagHeard(v)) \/ ViewsDo(WaiterEnds(v))
         \/ ViewsDo(Serve(v)) \/ ViewsDo(Subscribe(v)) \/ ViewsDo(StreamEnds(v))
         \/ \E f \in BOOLEAN : ViewsDo(Tell(v, f))
    \/ PagerDoes(PrintLines) \/ PagerDoes(ClearHistory) \/ PagerDoes(SwitchModes)
    \/ PagerDoes(TurnWheelNotch) \/ PagerDoes(WheelIsAgents) \/ PagerDoes(WheelIsNotAgents)
    \/ PagerDoes(Page) \/ PagerDoes(KeyToLive) \/ PagerDoes(ActiveMsg)
    \/ PagerDoes(RenderTickMsg) \/ PagerDoes(LookAtDepth) \/ PagerDoes(ScrolledView)
    \/ \E w \in Writers : WireDoes(LockToWrite(w))
    \/ WireDoes(WriteBytes) \/ WireDoes(UnlockWriter) \/ WireDoes(ReadFrame)
    \/ WireDoes(ConnectionCut)
    \/ ModesDo(WriteOutput) \/ ModesDo(ReadOutputBytes) \/ ModesDo(JoinLate)

ClientsSpec == ClientsInit /\ [][ClientsNext]_clientVars /\ Fairness

ClientsTypeOK == TypeOK /\ PagerTypeOK /\ WireTypeOK /\ ModesTypeOK
===============================================================================
