-------------------------------- MODULE Discovery --------------------------------
(* The agents of the host that the session list offers to clone. The daemon looks *)
(* at the process table first and at its own sessions afterwards, while sessions  *)
(* start and end and programs come and go in them. What a dead process leaves     *)
(* behind belongs to init, as do the daemon's own children here.                  *)
EXTENDS Naturals

CONSTANTS
    Procs,       \* processes, each started once
    Own,         \* session ids
    MaxLists     \* bound: lists asked for

ASSUME DiscoveryAssumption ==
    MaxLists \in Nat /\ {"init", "none", "unborn"} \cap (Procs \cup Own) = {}

VARIABLES
    parent,      \* of each process: another one, "init", or "none" when it does not run
    agents,      \* the processes whose commands agentCmdRe matches
    stage,       \* of each session: "none", "registered", "forked", "running" or "gone"
    root,        \* the process of each session, or "none"
    tree,        \* procTree: parents at the scan; empty before it
    offered,     \* the unmanaged agents of the last list
    lists,
    home         \* history: the session that each process is in, "none", or "unborn"

procs    == <<parent, agents, home>>
owned    == <<stage, root>>
discoveryVars == <<procs, owned, tree, offered, lists>>

Alive == {p \in Procs : parent[p] # "none"}

\* Mutated: children, but not theirs.
Children(t, r) == {p \in DOMAIN t : r \in {p, t[p]}}

\* procTree.descendants, and the root itself: the least set that has the children of
\* the root and of its own members.
Family(t, r) ==
    LET Closed(S) == \A p \in DOMAIN t : r \in {p, t[p]} \/ t[p] \in S => p \in S
    IN  {p \in DOMAIN t : \A S \in SUBSET DOMAIN t : Closed(S) => p \in S}

DiscoveryInit ==
    /\ parent = [p \in Procs |-> "none"] /\ agents \in SUBSET Procs
    /\ stage = [s \in Own |-> "none"] /\ root = [s \in Own |-> "none"]
    /\ tree = <<>> /\ offered = {} /\ lists = 0
    /\ home = [p \in Procs |-> "unborn"]

--------------------------------------------------------------------------------
(* The host.                                                                    *)

Begins(p, by, session) ==
    /\ home[p] = "unborn"
    /\ parent' = [parent EXCEPT ![p] = by]
    /\ home' = [home EXCEPT ![p] = session]
    /\ UNCHANGED agents

\* A program starts another one, in a session or outside.
StartProgram(p) ==
    /\ \/ Begins(p, "init", "none")
       \/ \E by \in Alive : Begins(p, by, home[by])
    /\ UNCHANGED <<owned, tree, offered, lists>>

\* Nothing below it is in its session any more.
ProcessDies(p) ==
    /\ p \in Alive
    /\ parent' = [q \in Procs |-> IF q = p THEN "none" ELSE IF parent[q] = p THEN "init" ELSE parent[q]]
    /\ home' = [q \in Procs |-> IF q \in Alive /\ q \in Family(parent, p) THEN "none" ELSE home[q]]
    /\ UNCHANGED <<agents, owned, tree, offered, lists>>

--------------------------------------------------------------------------------
(* Sessions, as far as pid() and the registry go.                               *)

SessionGoes(s, from, to) == stage[s] = from /\ stage' = [stage EXCEPT ![s] = to]

AddSession(s) ==
    /\ SessionGoes(s, "none", "registered")
    /\ UNCHANGED <<procs, root, tree, offered, lists>>

\* pty.Start; Session.cmd is not set yet.
Fork(s, p) ==
    /\ SessionGoes(s, "registered", "forked")
    /\ Begins(p, "init", s)
    /\ root' = [root EXCEPT ![s] = p]
    /\ UNCHANGED <<tree, offered, lists>>

SetCmd(s) ==
    /\ SessionGoes(s, "forked", "running")
    /\ UNCHANGED <<procs, root, tree, offered, lists>>

\* Its process is dead, by itself or killed: the registry drops it.
DropSession(s) ==
    /\ SessionGoes(s, "running", "gone") /\ root[s] \notin Alive
    /\ UNCHANGED <<procs, root, tree, offered, lists>>

--------------------------------------------------------------------------------
(* MsgListSessions.                                                             *)

ScanProcs ==
    /\ lists < MaxLists /\ lists' = lists + 1
    /\ tree = <<>>
    /\ tree' = [p \in Alive |-> parent[p]]
    /\ UNCHANGED <<procs, owned, offered>>

\* unmanagedSessions, under Daemon.mu; the tree has the commands too.
Discover ==
    /\ tree # <<>>
    /\ offered' = (DOMAIN tree \cap agents)
                      \ UNION {Family(tree, root[s]) : s \in {t \in Own : stage[t] = "running"}}
    /\ tree' = <<>>
    /\ UNCHANGED <<procs, owned, lists>>

DiscoveryNext ==
    \/ \E p \in Procs : StartProgram(p) \/ ProcessDies(p)
    \/ \E s \in Own : \/ AddSession(s) \/ SetCmd(s) \/ DropSession(s)
                      \/ \E p \in Procs : Fork(s, p)
    \/ ScanProcs \/ Discover

DiscoverySpec == DiscoveryInit /\ [][DiscoveryNext]_discoveryVars

--------------------------------------------------------------------------------

DiscoveryTypeOK ==
    /\ parent \in [Procs -> Procs \cup {"init", "none"}] /\ agents \subseteq Procs
    /\ stage \in [Own -> {"none", "registered", "forked", "running", "gone"}]
    /\ root \in [Own -> Procs \cup {"none"}]
    /\ DOMAIN tree \subseteq Procs /\ offered \subseteq Procs
    /\ lists \in 0 .. MaxLists /\ home \in [Procs -> Own \cup {"none", "unborn"}]

\* "Agents running *inside* a daemon shell session are excluded": no list offers to
\* clone an agent that is, when its sessions are looked at, under the process of a
\* running session, however deep and however sessions and programs come and go
\* between the scan and the look. (One whose parents died is on its own; and one
\* that pty.Start has just forked may be offered: pid() is not known yet.)
OwnedNeverOffered ==
    [][Discover => \A p \in offered', s \in Own : home[p] = s => stage[s] # "running"]_discoveryVars
================================================================================
