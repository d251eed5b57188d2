------------------------------ MODULE ControlRpc ------------------------------
(* The terminal client's control connection: requests and replies carry no     *)
(* number, so a reply belongs to a request by its place alone. Commands of the *)
(* list screen run in goroutines that share the connection: roundtrip holds    *)
(* its lock from the request to the reply, Kill sends and waits for nothing.   *)
EXTENDS Integers, Sequences

CONSTANTS Callers,   \* goroutines that use the connection
          Nobody,    \* no caller, no request
          MaxCalls   \* bound: requests sent, numbered to tell them apart

Kinds == {"list_sessions", "new_session_cmd", "kill_session"}

ASSUME RpcAssumption ==
    /\ Nobody \notin Callers /\ Nobody \notin [nr : Nat, kind : Kinds]
    /\ MaxCalls \in Nat

VARIABLES
    lock,      \* who holds the client's mutex
    waitsFor,  \* the request each caller waits for the reply of, or Nobody
    got,       \* its last request and the reply it took for it
    asked,     \* requests on their way to the daemon
    replies,   \* replies on their way back
    lost,      \* the connection is gone
    calls

rpcVars == <<lock, waitsFor, got, asked, replies, lost, calls>>

RpcInit ==
    /\ lock = Nobody
    /\ waitsFor = [g \in Callers |-> Nobody] /\ got = [g \in Callers |-> Nobody]
    /\ asked = <<>> /\ replies = <<>>
    /\ lost = FALSE /\ calls = 0

Request(kind) == [nr |-> calls + 1, kind |-> kind]

Write(req) ==
    /\ calls < MaxCalls
    /\ calls' = calls + 1
    /\ asked' = Append(asked, req)

\* Mutated: the lock covers the write only.
RoundtripUnlocked(g) ==
    /\ lock = Nobody /\ waitsFor[g] = Nobody /\ ~lost
    /\ \E kind \in {"list_sessions", "new_session_cmd"} :
           /\ Write(Request(kind))
           /\ waitsFor' = [waitsFor EXCEPT ![g] = Request(kind)]
    /\ UNCHANGED <<lock, got, replies, lost>>

\* roundtrip begins: the lock is taken and kept, the request written.
Roundtrip(g) ==
    /\ lock = Nobody /\ waitsFor[g] = Nobody /\ ~lost
    /\ lock' = g
    /\ \E kind \in {"list_sessions", "new_session_cmd"} :
           /\ Write(Request(kind))
           /\ waitsFor' = [waitsFor EXCEPT ![g] = Request(kind)]
    /\ UNCHANGED <<got, replies, lost>>

\* Kill: the lock is held for the write only.
Kill(g) ==
    /\ lock = Nobody /\ waitsFor[g] = Nobody /\ ~lost
    /\ Write(Request("kill_session"))
    /\ UNCHANGED <<lock, waitsFor, got, replies, lost>>

\* Mutated: a kill is answered as well.
AnswersKillsToo(req) == {<<[of |-> req.nr, type |-> "session_state"]>>}

\* What the daemon answers: a list, the new session's state or an error, and
\* nothing to a kill.
Answers(req) ==
    CASE req.kind = "list_sessions"   -> {<<[of |-> req.nr, type |-> "session_list"]>>}
      [] req.kind = "new_session_cmd" -> {<<[of |-> req.nr, type |-> "session_state"]>>,
                                          <<[of |-> req.nr, type |-> "error"]>>}
      [] req.kind = "kill_session"    -> {<<>>}

Answer ==
    /\ asked # <<>> /\ ~lost
    /\ asked' = Tail(asked)
    /\ \E a \in Answers(Head(asked)) : replies' = replies \o a
    /\ UNCHANGED <<lock, waitsFor, got, lost, calls>>

\* The next control frame is taken for the reply, and the lock released.
Receive(g) ==
    /\ waitsFor[g] # Nobody /\ replies # <<>>
    /\ got' = [got EXCEPT ![g] = [request |-> waitsFor[g], reply |-> Head(replies)]]
    /\ replies' = Tail(replies)
    /\ waitsFor' = [waitsFor EXCEPT ![g] = Nobody]
    /\ lock' = Nobody
    /\ UNCHANGED <<asked, lost, calls>>

\* The daemon or the connection dies; replies already written can be read.
Lose ==
    /\ ~lost
    /\ lost' = TRUE
    /\ asked' = <<>>
    /\ UNCHANGED <<lock, waitsFor, got, replies, calls>>

\* ReadFrame fails: the caller gets the error.
ReadFails(g) ==
    /\ lost /\ waitsFor[g] # Nobody /\ replies = <<>>
    /\ waitsFor' = [waitsFor EXCEPT ![g] = Nobody]
    /\ lock' = Nobody
    /\ UNCHANGED <<got, asked, replies, lost, calls>>

RpcNext ==
    \/ \E g \in Callers : Roundtrip(g) \/ Kill(g) \/ Receive(g) \/ ReadFails(g)
    \/ Answer \/ Lose

RpcSpec == RpcInit /\ [][RpcNext]_rpcVars

--------------------------------------------------------------------------------

Numbered == [nr : 1 .. MaxCalls, kind : Kinds]
Reply    == [of : 1 .. MaxCalls, type : {"session_list", "session_state", "error"}]

\* Besides the types: who waits for a reply is who holds the lock.
RpcTypeOK ==
    /\ waitsFor \in [Callers -> Numbered \cup {Nobody}]
    /\ got \in [Callers -> [request : Numbered, reply : Reply] \cup {Nobody}]
    /\ asked \in Seq(Numbered) /\ replies \in Seq(Reply)
    /\ lost \in BOOLEAN /\ calls \in 0 .. MaxCalls
    /\ lock \in Callers \cup {Nobody}
    /\ \A g \in Callers : waitsFor[g] # Nobody <=> lock = g

\* Each reply a caller takes answers its own request: a poll, a creation and a
\* kill that run at the same time never get each other's replies, and nothing
\* that nobody waits for shifts the ones that follow (roundtrip; the daemon does
\* not reply to MsgKillSession).
RepliesMatch ==
    \A g \in Callers :
        got[g] # Nobody => got[g].reply.of = got[g].request.nr
================================================================================
