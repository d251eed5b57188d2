--------------------------- MODULE ControlRpcProofs ---------------------------
(* Replies matched by their place alone reach who asked, for any number of     *)
(* goroutines and requests.                                                    *)
EXTENDS ControlRpc, TLAPS

\* Why RepliesMatch holds. Nobody writes while a caller waits, so its request is
\* the last of those under way and the only one that is answered, and its reply is
\* the only one on its way back; without a caller there is none.
OneAnswer ==
    /\ lost => asked = <<>>
    /\ replies # <<>> =>
         /\ lock # Nobody /\ Len(replies) = 1
         /\ replies[1].of = waitsFor[lock].nr
         /\ \A i \in 1 .. Len(asked) : asked[i].kind = "kill_session"
    /\ \A i \in 1 .. Len(asked) :
         \/ asked[i].kind = "kill_session"
         \/ lock # Nobody /\ i = Len(asked) /\ asked[i] = waitsFor[lock]

RpcInv == RpcTypeOK /\ OneAnswer /\ RepliesMatch

--------------------------------------------------------------------------------

\* At the start nothing is under way.
LEMMA RpcInitOK == RpcInit => RpcInv
<1> SUFFICES ASSUME RpcInit PROVE RpcInv
  OBVIOUS
<1>1. asked = <<>> /\ 1 .. Len(asked) = {}
  BY DEF RpcInit
<1>2. RpcTypeOK
  <2>1. /\ waitsFor \in [Callers -> Numbered \cup {Nobody}]
        /\ got \in [Callers -> [request : Numbered, reply : Reply] \cup {Nobody}]
    BY DEF RpcInit
  <2>2. asked \in Seq(Numbered) /\ replies \in Seq(Reply)
    BY DEF RpcInit
  <2>3. \A g \in Callers : waitsFor[g] = Nobody /\ lock # g
    BY RpcAssumption DEF RpcInit
  <2>4. lost \in BOOLEAN /\ lock \in Callers \cup {Nobody}
    BY Zenon DEF RpcInit
  <2>5. calls \in 0 .. MaxCalls
    BY RpcAssumption, SMT DEF RpcInit
  <2> QED BY <2>1, <2>2, <2>3, <2>4, <2>5 DEF RpcTypeOK
<1>3. OneAnswer /\ RepliesMatch
  BY <1>1 DEF RpcInit, OneAnswer, RepliesMatch
<1> QED BY <1>2, <1>3 DEF RpcInv

\* A reply is one of its request's number; a kill has none.
LEMMA AnswerIsOne ==
    ASSUME NEW req \in Numbered, NEW a \in Answers(req)
    PROVE  \/ req.kind = "kill_session" /\ a = <<>>
           \/ \E r \in Reply : r.of = req.nr /\ a = <<r>>
<1>1. CASE req.kind = "list_sessions"
  <2>1. a = <<[of |-> req.nr, type |-> "session_list"]>>
    BY <1>1 DEF Answers
  <2>2. [of |-> req.nr, type |-> "session_list"] \in Reply
    BY DEF Reply, Numbered
  <2> QED BY <2>1, <2>2
<1>2. CASE req.kind = "new_session_cmd"
  <2>1. \E t \in {"session_state", "error"} : a = <<[of |-> req.nr, type |-> t]>>
    BY <1>2 DEF Answers
  <2>2. \A t \in {"session_state", "error"} : [of |-> req.nr, type |-> t] \in Reply
    BY DEF Reply, Numbered
  <2> QED BY <2>1, <2>2
<1>3. CASE req.kind = "kill_session"
  BY <1>3 DEF Answers
<1> QED BY <1>1, <1>2, <1>3 DEF Numbered, Kinds

\* The request that Roundtrip and Kill number is well typed.
LEMMA RequestTyped ==
    ASSUME RpcTypeOK, calls < MaxCalls, NEW kind \in Kinds
    PROVE  /\ Request(kind) \in Numbered /\ Request(kind) # Nobody
           /\ Request(kind).kind = kind
           /\ Append(asked, Request(kind)) \in Seq(Numbered)
           /\ calls + 1 \in 0 .. MaxCalls
<1>1. Request(kind) \in Numbered
  BY RpcAssumption DEF RpcTypeOK, Numbered, Request
<1>2. Request(kind) \in [nr : Nat, kind : Kinds]
  BY RpcAssumption DEF RpcTypeOK, Request
<1> QED BY <1>1, <1>2, RpcAssumption DEF RpcTypeOK, Request

\* With the lock free everything under way is a kill, so a new request is the last
\* one and the only one that will be answered.
LEMMA RoundtripOK ==
    ASSUME RpcInv, NEW g \in Callers, Roundtrip(g)
    PROVE  RpcInv'
<1> USE DEF RpcInv
<1>1. PICK kind \in {"list_sessions", "new_session_cmd"} :
          /\ calls < MaxCalls /\ calls' = calls + 1
          /\ asked' = Append(asked, Request(kind))
          /\ waitsFor' = [waitsFor EXCEPT ![g] = Request(kind)]
  BY DEF Roundtrip, Write
<1>2. kind \in Kinds
  BY DEF Kinds
<1>3. /\ Request(kind) \in Numbered /\ Request(kind) # Nobody
      /\ Append(asked, Request(kind)) \in Seq(Numbered) /\ calls + 1 \in 0 .. MaxCalls
  BY <1>1, <1>2, RequestTyped
<1>4. /\ lock = Nobody /\ lock' = g /\ waitsFor[g] = Nobody /\ ~lost
      /\ got' = got /\ replies' = replies /\ lost' = lost
  BY DEF Roundtrip
<1>5. RpcTypeOK'
  BY <1>1, <1>3, <1>4, RpcAssumption DEF RpcTypeOK
<1>6. OneAnswer'
  <2>1. replies = <<>>
    BY <1>4 DEF OneAnswer
  <2>2. \A i \in 1 .. Len(asked) : asked[i].kind = "kill_session"
    BY <1>4 DEF OneAnswer
  <2>3. /\ Len(asked') = Len(asked) + 1 /\ asked'[Len(asked) + 1] = Request(kind)
        /\ \A i \in 1 .. Len(asked) : asked'[i] = asked[i]
    BY <1>1, <1>3 DEF RpcTypeOK
  <2>4. waitsFor'[lock'] = Request(kind) /\ lock' # Nobody
    BY <1>1, <1>4, RpcAssumption DEF RpcTypeOK
  <2>5. \A i \in 1 .. Len(asked') : i \in 1 .. Len(asked) \/ i = Len(asked')
    BY <2>3 DEF RpcTypeOK
  <2> QED BY <1>4, <2>1, <2>2, <2>3, <2>4, <2>5 DEF OneAnswer
<1>7. RepliesMatch'
  BY <1>4 DEF RepliesMatch
<1> QED BY <1>5, <1>6, <1>7

\* A kill is written only while nobody waits, and is a kill.
LEMMA KillOK ==
    ASSUME RpcInv, NEW g \in Callers, Kill(g)
    PROVE  RpcInv'
<1> USE DEF RpcInv
<1> DEFINE req == Request("kill_session")
<1>1. /\ calls < MaxCalls /\ calls' = calls + 1 /\ asked' = Append(asked, req)
      /\ lock = Nobody /\ ~lost
      /\ UNCHANGED <<lock, waitsFor, got, replies, lost>>
  BY DEF Kill, Write
<1>2. /\ req \in Numbered /\ req.kind = "kill_session"
      /\ Append(asked, req) \in Seq(Numbered) /\ calls + 1 \in 0 .. MaxCalls
  BY <1>1, RequestTyped DEF Kinds
<1> HIDE DEF req
<1>3. RpcTypeOK'
  BY <1>1, <1>2 DEF RpcTypeOK
<1>4. OneAnswer'
  <2>1. /\ Len(asked') = Len(asked) + 1 /\ asked'[Len(asked) + 1] = req
        /\ \A i \in 1 .. Len(asked) : asked'[i] = asked[i]
    BY <1>1, <1>2 DEF RpcTypeOK
  <2>2. \A i \in 1 .. Len(asked) : asked[i].kind = "kill_session"
    BY <1>1 DEF OneAnswer
  <2>3. \A i \in 1 .. Len(asked') : i \in 1 .. Len(asked) \/ i = Len(asked) + 1
    BY <2>1 DEF RpcTypeOK
  <2> QED BY <1>1, <1>2, <2>1, <2>2, <2>3 DEF OneAnswer
<1>5. RepliesMatch'
  BY <1>1 DEF RepliesMatch
<1> QED BY <1>3, <1>4, <1>5

\* The daemon takes the oldest request: a kill leaves things as they are, and the
\* one request that is answered is the last one.
LEMMA AnswerOK ==
    ASSUME RpcInv, Answer
    PROVE  RpcInv'
<1> USE DEF RpcInv
<1>1. /\ asked # <<>> /\ ~lost /\ asked' = Tail(asked)
      /\ UNCHANGED <<lock, waitsFor, got, lost, calls>>
  BY DEF Answer
<1>2. PICK a \in Answers(Head(asked)) : replies' = replies \o a
  BY DEF Answer
<1>3. /\ Head(asked) = asked[1] /\ Head(asked) \in Numbered /\ Len(asked) \in Nat \ {0}
      /\ Tail(asked) \in Seq(Numbered) /\ Len(asked') = Len(asked) - 1
      /\ \A i \in 1 .. Len(asked') : asked'[i] = asked[i + 1]
  BY <1>1 DEF RpcTypeOK
<1>4. CASE Head(asked).kind = "kill_session" /\ a = <<>>
  <2>1. replies' = replies
    BY <1>2, <1>4 DEF RpcTypeOK
  <2>2. RpcTypeOK'
    BY <1>1, <1>3, <2>1 DEF RpcTypeOK
  <2>3. \A i \in 1 .. Len(asked') :
            i + 1 \in 1 .. Len(asked) /\ (i + 1 = Len(asked) => i = Len(asked'))
    BY <1>3
  <2>4. OneAnswer'
    BY <1>1, <1>3, <2>1, <2>3 DEF OneAnswer
  <2>5. RepliesMatch'
    BY <1>1 DEF RepliesMatch
  <2> QED BY <2>2, <2>4, <2>5
<1>5. CASE \E r \in Reply : r.of = Head(asked).nr /\ a = <<r>>
  <2>1. CASE Head(asked).kind = "kill_session"
    BY <1>2, <1>3, <1>4, <2>1 DEF Answers
  <2>2. CASE Head(asked).kind # "kill_session"
    <3>1. lock # Nobody /\ 1 = Len(asked) /\ Head(asked) = waitsFor[lock]
      BY <1>3, <2>2 DEF OneAnswer
    <3>2. replies = <<>>
      BY <1>3, <2>2 DEF OneAnswer
    <3>3. PICK r \in Reply : r.of = Head(asked).nr /\ replies' = <<r>>
      BY <1>2, <1>5, <3>2 DEF RpcTypeOK
    <3>4. Len(asked') = 0 /\ 1 .. Len(asked') = {} /\ asked' = <<>>
      <4>1. Len(asked) = 1
        BY <3>1
      <4>2. Len(asked') = Len(asked) - 1
        BY <1>3
      <4>3. Len(asked') = 0
        BY <4>1, <4>2
      <4> QED BY <1>1, <1>3, <4>3
    <3>5. RpcTypeOK'
      BY <1>1, <1>3, <3>3 DEF RpcTypeOK
    <3>6. Len(replies') = 1 /\ replies'[1] = r
      BY <3>3
    <3>7. OneAnswer'
      BY <1>1, <3>1, <3>3, <3>4, <3>6 DEF OneAnswer
    <3>8. RepliesMatch'
      BY <1>1 DEF RepliesMatch
    <3> QED BY <3>5, <3>7, <3>8
  <2> QED BY <2>1, <2>2
<1> QED BY <1>2, <1>3, <1>4, <1>5, AnswerIsOne

\* Who receives holds the lock, so the only reply is its own.
LEMMA ReceiveOK ==
    ASSUME RpcInv, NEW g \in Callers, Receive(g)
    PROVE  RpcInv'
<1> USE DEF RpcInv
<1>1. /\ waitsFor[g] # Nobody /\ replies # <<>> /\ lock' = Nobody
      /\ got' = [got EXCEPT ![g] = [request |-> waitsFor[g], reply |-> Head(replies)]]
      /\ replies' = Tail(replies)
      /\ waitsFor' = [waitsFor EXCEPT ![g] = Nobody]
      /\ UNCHANGED <<asked, lost, calls>>
  BY DEF Receive
<1>2. lock = g
  BY <1>1 DEF RpcTypeOK
<1>3. /\ Len(replies) = 1 /\ replies[1].of = waitsFor[g].nr
      /\ \A i \in 1 .. Len(asked) : asked[i].kind = "kill_session"
  BY <1>1, <1>2 DEF OneAnswer
<1>4. replies' = <<>> /\ Head(replies) = replies[1] /\ Head(replies) \in Reply
  BY <1>1, <1>3 DEF RpcTypeOK
<1>5. waitsFor[g] \in Numbered
  BY <1>1 DEF RpcTypeOK
<1>6. RpcTypeOK'
  <2>1. /\ waitsFor' \in [Callers -> Numbered \cup {Nobody}]
        /\ got' \in [Callers -> [request : Numbered, reply : Reply] \cup {Nobody}]
        /\ replies' \in Seq(Reply)
    BY <1>1, <1>4, <1>5 DEF RpcTypeOK
  <2>2. \A h \in Callers : waitsFor'[h] # Nobody <=> lock' = h
    BY <1>1, <1>2, RpcAssumption DEF RpcTypeOK
  <2> QED BY <1>1, <2>1, <2>2 DEF RpcTypeOK
<1>7. OneAnswer'
  BY <1>1, <1>3, <1>4 DEF OneAnswer
<1>8. RepliesMatch'
  <2>1. got'[g].reply.of = got'[g].request.nr
    BY <1>1, <1>3, <1>4 DEF RpcTypeOK
  <2>2. \A h \in Callers \ {g} : got'[h] = got[h]
    BY <1>1 DEF RpcTypeOK
  <2> QED BY <2>1, <2>2 DEF RepliesMatch
<1> QED BY <1>6, <1>7, <1>8

\* The connection goes with the requests under way.
LEMMA LoseOK ==
    ASSUME RpcInv, Lose
    PROVE  RpcInv'
BY DEF RpcInv, Lose, RpcTypeOK, OneAnswer, RepliesMatch

\* A caller that fails leaves nothing under way.
LEMMA ReadFailsOK ==
    ASSUME RpcInv, NEW g \in Callers, ReadFails(g)
    PROVE  RpcInv'
<1> USE DEF RpcInv
<1>1. /\ lost /\ waitsFor[g] # Nobody /\ replies = <<>> /\ lock' = Nobody
      /\ waitsFor' = [waitsFor EXCEPT ![g] = Nobody]
      /\ UNCHANGED <<got, asked, replies, lost, calls>>
  BY DEF ReadFails
<1>2. lock = g /\ asked = <<>>
  BY <1>1 DEF RpcTypeOK, OneAnswer
<1>3. RpcTypeOK'
  BY <1>1, <1>2, RpcAssumption DEF RpcTypeOK
<1>4. OneAnswer' /\ RepliesMatch'
  BY <1>1, <1>2 DEF OneAnswer, RepliesMatch
<1> QED BY <1>3, <1>4

\* The inductive invariant holds in every reachable state: at most one request
\* is to be answered, and its reply finds only its sender waiting.
THEOREM RpcCorrect == RpcSpec => []RpcInv
<1>1. RpcInv /\ [RpcNext]_rpcVars => RpcInv'
  <2> SUFFICES ASSUME RpcInv, [RpcNext]_rpcVars PROVE RpcInv'
    OBVIOUS
  <2>1. CASE UNCHANGED rpcVars
    BY <2>1 DEF rpcVars, RpcInv, RpcTypeOK, OneAnswer, RepliesMatch
  <2>2. CASE \E g \in Callers : Roundtrip(g) \/ Kill(g) \/ Receive(g) \/ ReadFails(g)
    BY <2>2, RoundtripOK, KillOK, ReceiveOK, ReadFailsOK
  <2>3. CASE Answer \/ Lose
    BY <2>3, AnswerOK, LoseOK
  <2> QED BY <2>1, <2>2, <2>3 DEF RpcNext
<1> QED BY <1>1, RpcInitOK, PTL DEF RpcSpec

\* Each caller gets the reply of its own request (roundtrip).
THEOREM RepliesReachWhoAsked == RpcSpec => []RepliesMatch
BY RpcCorrect, PTL DEF RpcInv
================================================================================
