--------------------------- MODULE SideBySideProofs ---------------------------
(* Titles, keys and buttons, for any number of clients and agents; and that the *)
(* models which MCSideBySide checks in one run are each what they are alone.    *)
EXTENDS MCSideBySide, StartupProofs, ControlRpcProofs

--------------------------------------------------------------------------------
(* The title of a session view.                                                 *)

\* A push came, or comes, to v on its present subscription.
Told(v) == heard[v] \/ pushed[v] # <<>>

\* What v's view will show when all that was pushed has come.
LastWord(v) == IF pushed[v] # <<>> THEN pushed[v][Len(pushed[v])] ELSE title[v]

\* The watcher has taken a new agent and not written it to v yet.
Unwritten(v) == watcher = "lists" \/ (watcher = "writes" /\ v \in todo)

\* Nothing is pushed to a client without a subscription.
Addressed == todo \subseteq subs /\ \A v \in Viewers : Told(v) => v \in subs

\* The last push to a client is the last one of all.
InStep ==
    /\ watcher \in {"lists", "writes"} => liveAgent = scanned
    /\ \A v \in Viewers : Told(v) => Unwritten(v) \/ LastWord(v) = liveAgent

\* After a whole round the agent pushed last is the one that runs, unless nobody is
\* there who was told of any; and whoever is told later is told of that one.
Settled ==
    settled # "no" =>
        /\ watcher \in {"compares", "lists", "writes"} => scanned = inside
        /\ settled = "tick" => watcher # "waits"
        /\ settled = "round" =>
              \A v \in Viewers : Told(v) => liveAgent = inside /\ ~Unwritten(v)

TitlesInv == TitlesTypeOK /\ Addressed /\ InStep /\ Settled

\* The last element of a queue that grows or shrinks.
LEMMA LastOfQueue ==
    ASSUME NEW S, NEW q \in Seq(S)
    PROVE  /\ \A x \in S : /\ Append(q, x) \in Seq(S) /\ Append(q, x) # <<>>
                           /\ Append(q, x)[Len(Append(q, x))] = x
           /\ q # <<>> => /\ Tail(q) \in Seq(S) /\ Head(q) \in S
                          /\ Tail(q) = <<>> => Head(q) = q[Len(q)]
                          /\ Tail(q) # <<>> => Tail(q)[Len(Tail(q))] = q[Len(q)]
OBVIOUS

\* At the start everybody knows the launch agent.
LEMMA TitlesAtFirst == TitlesInit => TitlesInv
<1> SUFFICES ASSUME TitlesInit PROVE TitlesInv
  OBVIOUS
<1>1. TitlesTypeOK
  BY TitlesAssumption DEF TitlesInit, TitlesTypeOK
<1>2. Addressed /\ InStep /\ Settled
  BY DEF TitlesInit, Addressed, InStep, Settled, Told, Unwritten
<1> QED
  BY <1>1, <1>2 DEF TitlesInv

\* The agent that runs changes: what settled starts over.
LEMMA AgentChangesKeeps ==
    ASSUME TitlesInv, AgentChanges
    PROVE  TitlesInv'
<1>1. changes' \in 0 .. MaxChanges
  BY TitlesAssumption DEF AgentChanges, TitlesInv, TitlesTypeOK
<1> QED
  BY <1>1 DEF TitlesInv, TitlesTypeOK, Addressed, InStep, Settled, Told, LastWord, Unwritten, subs,
              AgentChanges, viewing

\* A client at its list, or on its way to a subscription, was told nothing on it.
LEMMA EnteringKeeps ==
    ASSUME TitlesInv, NEW v \in Viewers, ListArrives(v) \/ Enter(v) \/ Subscribed(v)
    PROVE  TitlesInv'
<1> USE DEF TitlesInv, TitlesTypeOK, Addressed, InStep, Settled, Told, LastWord, Unwritten, subs,
            watching
<1>1. CASE ListArrives(v)
  BY <1>1 DEF ListArrives
<1>2. CASE Enter(v)
  <2>1. visits' \in 0 .. MaxVisits
    BY <1>2, TitlesAssumption DEF Enter
  <2> QED
    BY <1>2, <2>1 DEF Enter
<1>3. CASE Subscribed(v)
  BY <1>3 DEF Subscribed
<1> QED
  BY <1>1, <1>2, <1>3

\* With the connection goes all that was told.
LEMMA HangupKeeps ==
    ASSUME TitlesInv, NEW v \in Viewers, Leave(v) \/ Reconnect(v)
    PROVE  TitlesInv'
<1>1. /\ \E to \in {"list", "entering"} : Hangup(v, to)
      /\ visits' \in 0 .. MaxVisits
  BY TitlesAssumption DEF Leave, Reconnect, TitlesInv, TitlesTypeOK
<1> QED
  BY <1>1 DEF TitlesInv, TitlesTypeOK, Addressed, InStep, Settled, Told, LastWord, Unwritten, subs,
              Hangup

\* A push that comes was the first of those on their way; the last one stays.
LEMMA PushArrivesKeeps ==
    ASSUME TitlesInv, NEW v \in Viewers, PushArrives(v)
    PROVE  TitlesInv'
<1>1. /\ pushed[v] # <<>> /\ pushed[v] \in Seq(Agents)
      /\ title' = [title EXCEPT ![v] = Head(pushed[v])]
      /\ pushed' = [pushed EXCEPT ![v] = Tail(pushed[v])]
      /\ heard' = [heard EXCEPT ![v] = TRUE]
      /\ UNCHANGED <<inside, place, listed, watching, changes, visits>>
  BY DEF PushArrives, TitlesInv, TitlesTypeOK
<1>2. TitlesTypeOK'
  BY <1>1, LastOfQueue DEF TitlesInv, TitlesTypeOK, watching
<1>3. \A w \in Viewers : Told(w)' = Told(w)
  BY <1>1 DEF TitlesInv, TitlesTypeOK, Told
<1>4. \A w \in Viewers : LastWord(w)' = LastWord(w)
  BY <1>1, LastOfQueue DEF TitlesInv, TitlesTypeOK, LastWord
<1> QED
  BY <1>1, <1>2, <1>3, <1>4
     DEF TitlesInv, Addressed, InStep, Settled, Unwritten, subs, watching

\* The watcher's steps up to the writes.
LEMMA WatcherKeeps ==
    ASSUME TitlesInv, Tick \/ Scan \/ Compare \/ Snapshot
    PROVE  TitlesInv'
<1> USE DEF TitlesInv, TitlesTypeOK, Addressed, InStep, Settled, Told, LastWord, Unwritten, subs,
            viewing, WatcherGoes
<1>1. CASE Tick
  BY <1>1 DEF Tick
<1>2. CASE Scan
  BY <1>2 DEF Scan
<1>3. CASE Compare
  BY <1>3 DEF Compare, Differs
<1>4. CASE Snapshot
  BY <1>4 DEF Snapshot
<1> QED
  BY <1>1, <1>2, <1>3, <1>4

\* The watcher writes to one subscriber, or is through.
LEMMA PushKeeps ==
    ASSUME TitlesInv, Push
    PROVE  TitlesInv'
<1>1. CASE todo = {}
  BY <1>1 DEF Push, WatcherGoes, TitlesInv, TitlesTypeOK, Addressed, InStep, Settled, Told, LastWord,
              Unwritten, subs, viewing
<1>2. CASE todo # {}
  <2>1. PICK v \in todo :
          /\ watcher = "writes"
          /\ todo' = todo \ {v}
          /\ pushed' = [pushed EXCEPT ![v] = Append(pushed[v], scanned)]
          /\ UNCHANGED <<watcher, settled, inside, viewing, heard, liveAgent, scanned, changes, visits>>
    BY <1>2 DEF Push
  <2>2. v \in Viewers /\ v \in subs /\ pushed[v] \in Seq(Agents) /\ scanned \in Agents
    BY DEF TitlesInv, TitlesTypeOK, Addressed
  <2>3. TitlesTypeOK'
    BY <2>1, <2>2, LastOfQueue DEF TitlesInv, TitlesTypeOK, viewing
  <2>4. Told(v)' /\ LastWord(v)' = scanned
    BY <2>1, <2>2, LastOfQueue DEF TitlesInv, TitlesTypeOK, Told, LastWord
  <2>5. \A w \in Viewers \ {v} : (Told(w)' <=> Told(w)) /\ LastWord(w)' = LastWord(w)
    BY <2>1, <2>2 DEF TitlesInv, TitlesTypeOK, Told, LastWord, viewing
  <2>6. subs' = subs /\ \A w \in Viewers : Unwritten(w)' <=> Unwritten(w) /\ w # v
    BY <2>1 DEF subs, viewing, Unwritten
  <2>7. Addressed' /\ InStep'
    BY <2>1, <2>2, <2>4, <2>5, <2>6 DEF TitlesInv, Addressed, InStep
  <2>8. Settled'
    BY <2>1, <2>2, <2>4, <2>5, <2>6 DEF TitlesInv, InStep, Settled
  <2> QED
    BY <2>3, <2>7, <2>8 DEF TitlesInv
<1> QED
  BY <1>1, <1>2

\* The invariant of titles holds of every reachable state.
THEOREM TitlesCorrect == TitlesSpec => []TitlesInv
<1>1. TitlesInv /\ [TitlesNext]_titlesVars => TitlesInv'
  <2> SUFFICES ASSUME TitlesInv, [TitlesNext]_titlesVars PROVE TitlesInv'
    OBVIOUS
  <2>1. CASE UNCHANGED titlesVars
    BY <2>1 DEF titlesVars, viewing, watching, TitlesInv, TitlesTypeOK, Addressed, InStep, Settled,
                Told, LastWord, Unwritten, subs
  <2>2. CASE TitlesNext
    BY <2>2, AgentChangesKeeps, EnteringKeeps, HangupKeeps, PushArrivesKeeps, WatcherKeeps, PushKeeps
       DEF TitlesNext, Watcher
  <2> QED
    BY <2>1, <2>2
<1> QED
  BY <1>1, TitlesAtFirst, PTL DEF TitlesSpec

\* For any number of clients, agents, changes and reconnections: a title that was
\* pushed, once a round has come since the last change, names the agent that runs.
THEOREM TitleFollowsAgent == TitlesSpec => []TitleIsCurrent
<1>1. TitlesInv => TitleIsCurrent
  BY DEF TitlesInv, InStep, Settled, TitleIsCurrent, Told, LastWord
<1> QED
  BY <1>1, TitlesCorrect, PTL
--------------------------------------------------------------------------------
(* Keys and pastes, from the desk and the phones to the terminal.               *)

\* The number of the last request of e that was sent.
Sent(e) == IF e = "phone" THEN taps
           ELSE keys - Len(inputCh) - (IF writing = <<>> THEN 0 ELSE 1)

\* The jobs in the queue are the last keys, one each, and a key that took over has
\* its claim before it.
JobOf(n, over) == IF n \in over THEN TakeOverJob(n) ELSE <<Text(n, 1)>>

Queued ==
    /\ Len(inputCh) <= keys
    /\ \A k \in 1 .. Len(inputCh) : inputCh[k] = JobOf(keys - Len(inputCh) + k, takeovers)
    /\ writing # <<>> =>
         /\ Len(inputCh) < keys
         /\ writing \in {JobOf(keys - Len(inputCh), takeovers), <<Text(keys - Len(inputCh), 1)>>}

IsText(msg) == msg.kind = "text"

\* The pieces of the handler are the rest of one request.
InHand ==
    \A e \in Ends : \A i \in DOMAIN hand[e] :
        /\ hand[e][i].from = e
        /\ hand[e][i].req = hand[e][1].req /\ hand[e][i].nr = hand[e][1].nr + i - 1
        /\ hand[e][i].last <=> i = Len(hand[e])

\* Requests are numbered in the order in which they are on their way.
Ordered ==
    \A e \in Ends :
        /\ \A i \in DOMAIN up[e] : IsText(up[e][i]) =>
             /\ up[e][i].req <= Sent(e)
             /\ \A j \in 1 .. i - 1 : IsText(up[e][j]) => up[e][j].req < up[e][i].req
             /\ \A j \in DOMAIN hand[e] : hand[e][j].req < up[e][i].req
             /\ \A j \in DOMAIN written : written[j].from = e => written[j].req < up[e][i].req
        /\ \A i \in DOMAIN hand[e] :
             /\ hand[e][i].req <= Sent(e)
             /\ \A j \in DOMAIN written : written[j].from = e => written[j].req <= hand[e][i].req
        /\ \A i \in DOMAIN written : written[i].from = e => written[i].req <= Sent(e)

\* What comes next of e goes with what was written last of it.
Joined ==
    ttyOpen => \A i \in DOMAIN written :
        (\A k \in i + 1 .. Len(written) : written[k].from # written[i].from) =>
            LET rest == hand[written[i].from]
            IN  IF rest = <<>> THEN written[i].last ELSE Follows(written[i], rest[1])

Wrote(n) == \E j \in DOMAIN written : written[j].from = "tui" /\ written[j].req = n

\* Key n was sent, and is somewhere between the view and the agent.
Present(n) ==
    \/ \E i \in DOMAIN up["tui"] : IsText(up["tui"][i]) /\ up["tui"][i].req = n
    \/ \E i \in DOMAIN hand["tui"] : hand["tui"][i].req = n
    \/ Wrote(n)

OnePiece ==
    /\ \A i \in DOMAIN up["tui"] : IsText(up["tui"][i]) => up["tui"][i].pieces = 1
    /\ Len(hand["tui"]) <= 1
    /\ \A i \in DOMAIN hand["tui"], j \in DOMAIN written :
          written[j].from = "tui" => written[j].req < hand["tui"][i].req

NoGap ==
    ttyOpen =>
        /\ \A m \in 1 .. MaxKeys : Present(m) => \A n \in 1 .. m : Present(n)
        /\ viewOpen => \A n \in 1 .. Sent("tui") : Present(n)

\* A key that took over has been granted the size or has its claim before it.
TakesBefore(q, i) == \E j \in 1 .. i - 1 : q[j].kind = "take"

Claimed ==
    /\ \A i \in DOMAIN hand["tui"] : hand["tui"][i].req \in takeovers => hand["tui"][i].req \in granted
    /\ \A i \in DOMAIN up["tui"] : IsText(up["tui"][i]) /\ up["tui"][i].req \in takeovers =>
          up["tui"][i].req \in granted \/ TakesBefore(up["tui"], i)
    /\ (viewOpen /\ Len(writing) = 1 /\ writing[1].req \in takeovers) =>
          writing[1].req \in granted \/ TakesBefore(up["tui"], Len(up["tui"]) + 1)

\* The invariant of the keys' way: what they are, where they stand, what they need.
OnTheWay ==
    /\ Queued /\ InHand /\ Ordered /\ Joined /\ OnePiece /\ NoGap /\ Claimed
    /\ KeysInOrder /\ TakeOverFirst

TypedInv == InputTypeOK /\ OnTheWay

\* Queues that grow at one end and shrink at the other.
LEMMA QueueGrows ==
    ASSUME NEW S, NEW q \in Seq(S), NEW x \in S
    PROVE  /\ Append(q, x) \in Seq(S) /\ Len(Append(q, x)) = Len(q) + 1
           /\ \A i \in 1 .. Len(q) : Append(q, x)[i] = q[i]
           /\ Append(q, x)[Len(q) + 1] = x
OBVIOUS

LEMMA QueueShrinks ==
    ASSUME NEW S, NEW q \in Seq(S), q # <<>>
    PROVE  /\ Tail(q) \in Seq(S) /\ Len(q) \in Nat \ {0} /\ Len(Tail(q)) = Len(q) - 1
           /\ \A i \in 1 .. Len(q) - 1 : Tail(q)[i] = q[i + 1]
           /\ Head(q) = q[1] /\ q[1] \in S
OBVIOUS

LEMMA QueueEmpty == ASSUME NEW S PROVE <<>> \in Seq(S)
OBVIOUS

\* What a request is.
LEMMA RequestShape ==
    /\ Take \in Requests /\ Release \in Requests
    /\ Take.kind = "take" /\ Release.kind = "release"
    /\ \A n \in Nat, k \in 0 .. 2 :
          /\ Text(n, k) \in Requests
          /\ Text(n, k).kind = "text" /\ Text(n, k).req = n /\ Text(n, k).pieces = k
    /\ \A m \in Requests : m.kind \in {"take", "release", "text"}
    /\ \A m \in Requests : m.kind = "text" => m.req \in Nat /\ m.pieces \in 0 .. 2
BY DEF Take, Release, Text, Requests

\* What a key puts into the queue.
LEMMA JobShape ==
    ASSUME NEW n \in Nat, NEW over
    PROVE  /\ JobOf(n, over) \in Seq(Requests) /\ <<Text(n, 1)>> \in Seq(Requests)
           /\ JobOf(n, over) # <<>>
           /\ JobOf(n, over) = IF n \in over THEN <<Take, Text(n, 1)>> ELSE <<Text(n, 1)>>
           /\ Len(JobOf(n, over)) = IF n \in over THEN 2 ELSE 1
<1>1. <<Take, Text(n, 1)>> \in Seq(Requests) /\ <<Text(n, 1)>> \in Seq(Requests)
  BY RequestShape
<1>2. Len(<<Take, Text(n, 1)>>) = 2 /\ Len(<<Text(n, 1)>>) = 1
  OBVIOUS
<1> QED
  BY <1>1, <1>2 DEF JobOf, TakeOverJob

\* What the handler takes from a request.
LEMMA PiecesShape ==
    ASSUME NEW e \in Ends, NEW m \in Requests, m.kind = "text"
    PROVE  /\ Pieces(e, m) \in Seq(PieceType) /\ Len(Pieces(e, m)) = m.pieces
           /\ \A i \in 1 .. m.pieces :
                 /\ Pieces(e, m)[i].from = e /\ Pieces(e, m)[i].req = m.req
                 /\ Pieces(e, m)[i].nr = i /\ (Pieces(e, m)[i].last <=> i = m.pieces)
<1>1. m.req \in Nat /\ m.pieces \in 0 .. 2
  BY RequestShape
<1>2. \A i \in 1 .. m.pieces :
        [from |-> e, req |-> m.req, nr |-> i, last |-> (i = m.pieces)] \in PieceType
  BY <1>1 DEF PieceType
<1>3. Pieces(e, m) \in [1 .. m.pieces -> PieceType]
  BY <1>2 DEF Pieces
<1>4. Pieces(e, m) \in Seq(PieceType) /\ Len(Pieces(e, m)) = m.pieces
  BY <1>1, <1>3
<1> QED
  BY <1>2, <1>4 DEF Pieces

--------------------------------------------------------------------------------

\* Types.
LEMMA InputTypesKept ==
    ASSUME InputTypeOK, [InputNext]_inputVars
    PROVE  InputTypeOK'
<1> USE TypedAssumption DEF viewVars, ptyVars
<1>1. CASE PressKey
  <2>1. keys' \in 0 .. MaxKeys /\ keys' = keys + 1 /\ keys \in Nat
    BY <1>1 DEF PressKey, InputTypeOK
  <2>2. CASE LiveKey
    <3>1. <<Text(keys + 1, 1)>> \in Seq(Requests)
      BY <2>1, RequestShape
    <3>2. inputCh' \in Seq(Seq(Requests))
      BY <2>2, <3>1, QueueGrows DEF LiveKey, enqueue, InputTypeOK
    <3> QED
      BY <1>1, <2>1, <2>2, <3>2 DEF PressKey, LiveKey, InputTypeOK
  <2>3. CASE TakeOverKey
    <3>1. TakeOverJob(keys + 1) \in Seq(Requests)
      BY <2>1, RequestShape DEF TakeOverJob
    <3>2. inputCh' \in Seq(Seq(Requests))
      BY <2>3, <3>1, QueueGrows DEF TakeOverKey, enqueue, InputTypeOK
    <3>3. takeovers' \subseteq 1 .. keys' /\ granted' \subseteq takeovers'
      BY <2>1, <2>3 DEF TakeOverKey, InputTypeOK
    <3>4. viewOpen' \in BOOLEAN /\ parked' \in BOOLEAN /\ ttyOpen' \in BOOLEAN
      BY <1>1, <2>3 DEF PressKey, TakeOverKey, InputTypeOK
    <3> QED
      BY <1>1, <2>1, <2>3, <3>2, <3>3, <3>4 DEF PressKey, TakeOverKey, InputTypeOK
  <2> QED
    BY <1>1, <2>2, <2>3 DEF PressKey
<1>2. CASE FlagArrives
  BY <1>2, QueueShrinks DEF FlagArrives, InputTypeOK
<1>3. CASE CloseView
  <2>1. viewOpen' \in BOOLEAN /\ flags' \in Seq(BOOLEAN)
    BY <1>3, QueueEmpty DEF CloseView
  <2> QED
    BY <1>3, <2>1 DEF CloseView, InputTypeOK
<1>4. CASE NextJob
  BY <1>4, QueueShrinks DEF NextJob, InputTypeOK
<1>5. CASE SendRequest
  BY <1>5, QueueShrinks, QueueGrows DEF SendRequest, InputTypeOK, Ends
<1>6. CASE Tap
  <2>1. PICK msg \in {Take, Release} \cup {Text(taps + 1, k) : k \in 0 .. 2} :
          up' = [up EXCEPT !["phone"] = Append(up["phone"], msg)]
    BY <1>6 DEF Tap
  <2>2. msg \in Requests /\ taps' \in 0 .. MaxTaps
    BY <1>6, RequestShape DEF Tap, InputTypeOK
  <2> QED
    BY <1>6, <2>1, <2>2, QueueGrows DEF Tap, InputTypeOK, Ends
<1>7. ASSUME NEW e \in Ends, Serve(e) PROVE InputTypeOK'
  <2> DEFINE msg == Head(up[e])
  <2>1. msg \in Requests /\ up' \in [Ends -> Seq(Requests)]
    BY <1>7, QueueShrinks DEF Serve, InputTypeOK
  <2>2. ASSUME NEW o \in Ends \cup {"nobody"}, Own(o)
        PROVE  sizeOwner' \in Ends \cup {"nobody"} /\ flags' \in Seq(BOOLEAN) /\ granted' \subseteq takeovers
    <3>1. (o = "tui") \in BOOLEAN
      OBVIOUS
    <3>2. flags' \in Seq(BOOLEAN)
      BY <2>2, <3>1, QueueGrows DEF Own, InputTypeOK
    <3> QED
      BY <2>2, <3>2 DEF Own, InputTypeOK
  <2>3. AfterPhone \in Ends \cup {"nobody"}
    BY DEF AfterPhone, InputTypeOK, Ends
  <2>4. hand' \in [Ends -> Seq(PieceType)]
    <3>1. CASE msg.kind = "text"
      <4>1. Pieces(e, msg) \in Seq(PieceType)
        BY <2>1, <3>1, PiecesShape
      <4>2. hand' = [hand EXCEPT ![e] = Pieces(e, msg)]
        BY <1>7, <3>1 DEF Serve
      <4> QED
        BY <4>1, <4>2 DEF InputTypeOK
    <3>2. CASE msg.kind # "text"
      BY <1>7, <3>2 DEF Serve, InputTypeOK
    <3> QED
      BY <3>1, <3>2
  <2>5. sizeOwner' \in Ends \cup {"nobody"} /\ flags' \in Seq(BOOLEAN) /\ granted' \subseteq takeovers
    BY <1>7, <2>2, <2>3 DEF Serve, InputTypeOK
  <2> QED
    BY <1>7, <2>1, <2>4, <2>5 DEF Serve, InputTypeOK
<1>8. ASSUME NEW e \in Ends, WritePiece(e) PROVE InputTypeOK'
  <2>1. hand[e] # <<>> /\ hand[e] \in Seq(PieceType)
    BY <1>8 DEF WritePiece, InputTypeOK
  <2>2. Tail(hand[e]) \in Seq(PieceType) /\ Head(hand[e]) \in PieceType
    BY <2>1, QueueShrinks
  <2>3. hand' \in [Ends -> Seq(PieceType)]
    BY <1>8, <2>2, QueueEmpty DEF WritePiece, InputTypeOK
  <2>4. Append(written, Head(hand[e])) \in Seq(PieceType)
    BY <2>2, QueueGrows DEF InputTypeOK
  <2>5. written' \in Seq(PieceType)
    BY <1>8, <2>4 DEF WritePiece, InputTypeOK
  <2> QED
    BY <1>8, <2>3, <2>5 DEF WritePiece, InputTypeOK
<1>9. CASE ViewGone
  BY <1>9 DEF ViewGone, InputTypeOK, Ends
<1>10. CASE TTYCloses
  BY <1>10 DEF TTYCloses, InputTypeOK
<1>11. CASE UNCHANGED inputVars
  BY <1>11 DEF inputVars, InputTypeOK
<1> QED
  BY <1>1, <1>2, <1>3, <1>4, <1>5, <1>6, <1>7, <1>8, <1>9, <1>10, <1>11 DEF InputNext

\* What the invariant takes from the types.
LEMMA TypesOfKeys ==
    ASSUME InputTypeOK
    PROVE  /\ inputCh \in Seq(Seq(Requests)) /\ Len(inputCh) \in Nat
           /\ writing \in Seq(Requests) /\ Len(writing) \in Nat
           /\ \A e \in Ends : /\ up[e] \in Seq(Requests) /\ Len(up[e]) \in Nat
                              /\ hand[e] \in Seq(PieceType) /\ Len(hand[e]) \in Nat
                              /\ DOMAIN up[e] = 1 .. Len(up[e]) /\ DOMAIN hand[e] = 1 .. Len(hand[e])
           /\ written \in Seq(PieceType) /\ Len(written) \in Nat /\ DOMAIN written = 1 .. Len(written)
           /\ keys \in Nat /\ keys <= MaxKeys /\ taps \in Nat
           /\ takeovers \subseteq 1 .. keys /\ granted \subseteq takeovers
BY TypedAssumption DEF InputTypeOK

\* Numbers of requests and pieces are numbers.
LEMMA NumbersOfKeys ==
    ASSUME InputTypeOK
    PROVE  /\ \A e \in Ends : \A i \in DOMAIN up[e] :
                 up[e][i] \in Requests /\ (IsText(up[e][i]) => up[e][i].req \in Nat)
           /\ \A e \in Ends : \A i \in DOMAIN hand[e] :
                 hand[e][i].req \in Nat /\ hand[e][i].nr \in Nat
           /\ \A i \in DOMAIN written :
                 written[i].req \in Nat /\ written[i].nr \in Nat /\ written[i].from \in Ends
<1>1. \A p \in PieceType : p.req \in Nat /\ p.nr \in Nat /\ p.from \in Ends
  BY DEF PieceType
<1>2. \A e \in Ends : \A i \in DOMAIN up[e] : up[e][i] \in Requests
  BY TypesOfKeys
<1>3. \A e \in Ends : \A i \in DOMAIN hand[e] : hand[e][i] \in PieceType
  BY TypesOfKeys
<1>4. \A i \in DOMAIN written : written[i] \in PieceType
  BY TypesOfKeys
<1> QED
  BY <1>1, <1>2, <1>3, <1>4, RequestShape DEF IsText

\* Steps that move no key: a flag, the end of the view, of the process.
LEMMA QuietKeeps ==
    ASSUME TypedInv,
           UNCHANGED <<inputCh, writing, up, hand, written, keys, taps, takeovers, granted>>,
           viewOpen' => viewOpen, ttyOpen' => ttyOpen
    PROVE  OnTheWay'
<1> USE DEF TypedInv, OnTheWay
<1>1. Queued' /\ InHand' /\ KeysInOrder' /\ TakeOverFirst' /\ OnePiece'
  <2>1. Queued'
    BY DEF Queued, JobOf, TakeOverJob
  <2>2. InHand' /\ OnePiece'
    BY DEF InHand, OnePiece
  <2>3. KeysInOrder'
    BY DEF KeysInOrder, Adjacent
  <2>4. TakeOverFirst'
    BY DEF TakeOverFirst
  <2> QED
    BY <2>1, <2>2, <2>3, <2>4
<1>2. \A e \in Ends : Sent(e)' = Sent(e)
  BY DEF Sent
<1>3. Ordered' /\ Joined'
  BY <1>2 DEF Ordered, Joined
<1>4. \A n : Present(n)' <=> Present(n)
  BY DEF Present, Wrote
<1>5. NoGap'
  BY <1>2, <1>4 DEF NoGap, Ends
<1>6. Claimed'
  BY DEF Claimed, TakesBefore
<1> QED
  BY <1>1, <1>3, <1>5, <1>6

\* The next job leaves the queue for the writer.
LEMMA NextJobKeeps ==
    ASSUME TypedInv, NextJob
    PROVE  OnTheWay'
<1> DEFINE n == keys - Len(inputCh) + 1
<1>1. /\ UNCHANGED <<viewOpen, up, hand, ttyOpen, written, keys, taps, takeovers, granted>>
      /\ writing = <<>> /\ inputCh # <<>> /\ writing' = Head(inputCh) /\ inputCh' = Tail(inputCh)
  BY DEF NextJob, ptyVars
<1>2. /\ inputCh \in Seq(Seq(Requests)) /\ keys \in Nat
      /\ Len(inputCh') = Len(inputCh) - 1 /\ Len(inputCh) \in Nat \ {0}
      /\ \A k \in 1 .. Len(inputCh) - 1 : inputCh'[k] = inputCh[k + 1]
      /\ writing' = inputCh[1]
  BY <1>1, TypesOfKeys, QueueShrinks DEF TypedInv
<1>3. Queued /\ n \in Nat
  BY <1>2 DEF TypedInv, OnTheWay, Queued
<1>4. writing' = JobOf(n, takeovers) /\ writing' # <<>>
  BY <1>2, <1>3, JobShape DEF Queued
<1>5. Queued'
  <2>1. keys' - Len(inputCh') = n /\ Len(inputCh') < keys' /\ Len(inputCh') \in Nat
    BY <1>1, <1>2, <1>3 DEF Queued
  <2>2. ASSUME NEW k \in 1 .. Len(inputCh')
        PROVE  inputCh'[k] = JobOf(n + k, takeovers)
    <3>1. k + 1 \in 1 .. Len(inputCh) /\ inputCh'[k] = inputCh[k + 1]
      BY <1>2
    <3>2. keys - Len(inputCh) + (k + 1) = n + k
      BY <1>2
    <3> QED
      BY <1>3, <3>1, <3>2 DEF Queued
  <2>3. \A k \in 1 .. Len(inputCh') : inputCh'[k] = JobOf(keys' - Len(inputCh') + k, takeovers')
    BY <1>1, <2>1, <2>2
  <2>4. writing' = JobOf(keys' - Len(inputCh'), takeovers')
    BY <1>1, <1>4, <2>1
  <2> QED
    BY <1>1, <1>2, <2>1, <2>3, <2>4 DEF Queued
<1>6. \A e \in Ends : Sent(e)' = Sent(e)
  BY <1>1, <1>2, <1>4 DEF Sent
<1>7. InHand' /\ KeysInOrder' /\ TakeOverFirst' /\ OnePiece'
  BY <1>1 DEF TypedInv, OnTheWay, InHand, KeysInOrder, TakeOverFirst, OnePiece, Adjacent
<1>8. Ordered' /\ Joined'
  BY <1>1, <1>6 DEF TypedInv, OnTheWay, Ordered, Joined
<1>9. \A m : Present(m)' <=> Present(m)
  BY <1>1 DEF Present, Wrote
<1>10. NoGap'
  BY <1>1, <1>6, <1>9 DEF TypedInv, OnTheWay, NoGap, Ends
<1>11. Len(writing') = 1 => writing'[1].req \notin takeovers'
  <2>1. CASE n \in takeovers
    <3>1. Len(JobOf(n, takeovers)) = 2
      BY <1>3, <2>1, JobShape
    <3>2. Len(writing') = 2
      BY <1>4, <3>1
    <3> QED
      BY <3>2
  <2>2. CASE n \notin takeovers
    <3>1. writing' = <<Text(n, 1)>>
      BY <1>3, <1>4, <2>2, JobShape
    <3> QED
      BY <1>1, <1>3, <2>2, <3>1, RequestShape
  <2> QED
    BY <2>1, <2>2
<1>12. Claimed'
  BY <1>1, <1>11 DEF TypedInv, OnTheWay, Claimed, TakesBefore
<1> QED
  BY <1>5, <1>7, <1>8, <1>10, <1>12 DEF OnTheWay

\* A key is pressed: it is the last of the queue.
LEMMA PressKeyKeeps ==
    ASSUME TypedInv, PressKey
    PROVE  OnTheWay'
<1> DEFINE new == keys + 1
<1>1. /\ UNCHANGED <<viewOpen, up, writing, hand, ttyOpen, written, taps>> /\ keys' = new
      /\ takeovers \subseteq takeovers' /\ takeovers' \subseteq takeovers \cup {new}
      /\ granted \subseteq granted'
      /\ inputCh' = Append(inputCh, JobOf(new, takeovers'))
  <2>0. takeovers \subseteq 1 .. keys /\ keys \in Nat
    BY TypesOfKeys DEF TypedInv
  <2>1. CASE LiveKey
    <3>1. new \notin takeovers /\ takeovers' = takeovers
      BY <2>0, <2>1 DEF LiveKey
    <3> QED
      BY <2>1, <3>1 DEF PressKey, LiveKey, ptyVars, JobOf, enqueue
  <2>2. CASE TakeOverKey
    BY <2>2 DEF PressKey, TakeOverKey, ptyVars, JobOf, enqueue
  <2> QED
    BY <2>1, <2>2 DEF PressKey
<1>2. inputCh \in Seq(Seq(Requests)) /\ keys \in Nat /\ Len(inputCh) \in Nat /\ taps \in Nat
  BY TypesOfKeys DEF TypedInv
<1>3. /\ Len(inputCh') = Len(inputCh) + 1 /\ inputCh'[Len(inputCh) + 1] = JobOf(new, takeovers')
      /\ \A k \in 1 .. Len(inputCh) : inputCh'[k] = inputCh[k]
  <2>1. JobOf(new, takeovers') \in Seq(Requests)
    BY <1>2, JobShape
  <2> QED
    BY <1>1, <1>2, <2>1, QueueGrows
<1>4. \A n \in 1 .. keys : JobOf(n, takeovers') = JobOf(n, takeovers)
  BY <1>1, <1>2 DEF JobOf
<1>5. Queued
  BY DEF TypedInv, OnTheWay
<1>6. Queued'
  <2>1. keys' - Len(inputCh') = keys - Len(inputCh)
    BY <1>1, <1>2, <1>3
  <2>2. ASSUME NEW k \in 1 .. Len(inputCh')
        PROVE  inputCh'[k] = JobOf(keys - Len(inputCh) + k, takeovers')
    <3>1. CASE k = Len(inputCh) + 1
      <4>1. keys - Len(inputCh) + k = new
        BY <1>2, <3>1
      <4> QED
        BY <1>3, <3>1, <4>1
    <3>2. CASE k \in 1 .. Len(inputCh)
      <4>1. keys - Len(inputCh) + k \in 1 .. keys
        BY <1>2, <1>5, <3>2 DEF Queued
      <4>2. inputCh[k] = JobOf(keys - Len(inputCh) + k, takeovers)
        BY <1>5, <3>2 DEF Queued
      <4> QED
        BY <1>3, <1>4, <3>2, <4>1, <4>2
    <3> QED
      BY <1>2, <1>3, <3>1, <3>2
  <2>3. writing # <<>> => JobOf(keys - Len(inputCh), takeovers') = JobOf(keys - Len(inputCh), takeovers)
    BY <1>2, <1>4, <1>5 DEF Queued
  <2>4. Len(inputCh') <= keys' /\ (writing' # <<>> => Len(inputCh') < keys')
    BY <1>1, <1>2, <1>3, <1>5 DEF Queued
  <2> QED
    BY <1>1, <1>5, <2>1, <2>2, <2>3, <2>4 DEF Queued
<1>7. \A e \in Ends : Sent(e)' = Sent(e) /\ Sent(e) \in Int
  BY <1>1, <1>2, <1>3 DEF Sent
<1>8. InHand' /\ OnePiece' /\ Joined'
  BY <1>1 DEF TypedInv, OnTheWay, InHand, OnePiece, Joined
<1>9. KeysInOrder'
  BY <1>1 DEF TypedInv, OnTheWay, KeysInOrder, Adjacent
<1>10. Ordered'
  BY <1>1, <1>7 DEF TypedInv, OnTheWay, Ordered
<1>11. \A n : Present(n)' <=> Present(n)
  BY <1>1 DEF Present, Wrote
<1>12. NoGap'
  BY <1>1, <1>7, <1>11 DEF TypedInv, OnTheWay, NoGap, Ends
<1>13. /\ \A i \in DOMAIN up["tui"] : IsText(up["tui"][i]) => up["tui"][i].req # new
       /\ \A i \in DOMAIN hand["tui"] : hand["tui"][i].req # new
       /\ \A i \in DOMAIN written : written[i].from = "tui" => written[i].req # new
       /\ Len(writing) = 1 => writing[1].req # new
  <2>1. Sent("tui") < new /\ Sent("tui") \in Int
    BY <1>2, <1>5 DEF Sent, Queued
  <2>2. Ordered /\ "tui" \in Ends
    BY DEF TypedInv, OnTheWay, Ends
  <2>3. /\ \A i \in DOMAIN up["tui"] : IsText(up["tui"][i]) => up["tui"][i].req \in Nat
        /\ \A i \in DOMAIN hand["tui"] : hand["tui"][i].req \in Nat
        /\ \A i \in DOMAIN written : written[i].req \in Nat
    BY <2>2, NumbersOfKeys DEF TypedInv
  <2>4. Len(writing) = 1 => writing[1].req # new
    <3> SUFFICES ASSUME Len(writing) = 1 PROVE writing[1].req # new
      OBVIOUS
    <3>1. keys - Len(inputCh) \in Nat /\ keys - Len(inputCh) # new
      BY <1>2, <1>5 DEF Queued
    <3>2. writing = <<Text(keys - Len(inputCh), 1)>>
      <4> DEFINE m == keys - Len(inputCh)
      <4>1. Len(<<>>) = 0
        OBVIOUS
      <4>2. writing \in {JobOf(m, takeovers), <<Text(m, 1)>>}
        BY <1>5, <4>1 DEF Queued
      <4>3. CASE m \in takeovers
        <5>1. Len(JobOf(m, takeovers)) = 2
          BY <3>1, <4>3, JobShape
        <5> QED
          BY <4>2, <5>1
      <4>4. CASE m \notin takeovers
        BY <3>1, <4>2, <4>4, JobShape
      <4> QED
        BY <4>3, <4>4
    <3> QED
      BY <3>1, <3>2, RequestShape
  <2> QED
    BY <2>1, <2>2, <2>3, <2>4 DEF Ordered
<1>14. TakeOverFirst'
  BY <1>1, <1>13 DEF TypedInv, OnTheWay, TakeOverFirst
<1>15. Claimed'
  BY <1>1, <1>13 DEF TypedInv, OnTheWay, Claimed, TakesBefore
<1> QED
  BY <1>6, <1>8, <1>9, <1>10, <1>12, <1>14, <1>15 DEF OnTheWay

\* What the writer goroutine has at hand.
LEMMA WritingShape ==
    ASSUME TypedInv, writing # <<>>, NEW c, c = keys - Len(inputCh)
    PROVE  /\ c \in Nat \ {0} /\ c <= keys /\ Sent("tui") = c - 1
           /\ \/ /\ c \in takeovers
                 /\ Head(writing) = Take /\ Tail(writing) = <<Text(c, 1)>>
              \/ /\ writing = <<Text(c, 1)>>
                 /\ Head(writing) = Text(c, 1) /\ Tail(writing) = <<>>
<1>1. /\ keys \in Nat /\ Len(inputCh) \in Nat /\ Queued
  BY TypesOfKeys DEF TypedInv, OnTheWay
<1>2. c \in Nat \ {0} /\ c <= keys /\ Sent("tui") = c - 1
  BY <1>1 DEF Queued, Sent
<1>3. writing \in {JobOf(c, takeovers), <<Text(c, 1)>>}
  BY <1>1 DEF Queued
<1>4. writing \in {<<Take, Text(c, 1)>>, <<Text(c, 1)>>} /\ (writing = <<Take, Text(c, 1)>> => c \in takeovers)
  <2>1. CASE c \in takeovers
    BY <1>2, <1>3, <2>1, JobShape
  <2>2. CASE c \notin takeovers
    <3>1. writing = <<Text(c, 1)>>
      BY <1>2, <1>3, <2>2, JobShape
    <3> QED
      BY <3>1
  <2> QED
    BY <2>1, <2>2
<1>5. /\ Head(<<Take, Text(c, 1)>>) = Take /\ Tail(<<Take, Text(c, 1)>>) = <<Text(c, 1)>>
      /\ Head(<<Text(c, 1)>>) = Text(c, 1) /\ Tail(<<Text(c, 1)>>) = <<>>
  OBVIOUS
<1> QED
  BY <1>2, <1>4, <1>5

\* A request goes out: it is the last on its way.
LEMMA SentOutInOrder ==
    ASSUME TypedInv, NEW e \in Ends, NEW m \in Requests,
           up' = [up EXCEPT ![e] = Append(up[e], m)], UNCHANGED <<hand, written>>,
           \A d \in Ends : Sent(d) \in Int /\ Sent(d)' \in Int /\ Sent(d) <= Sent(d)',
           IsText(m) => Sent(e) < m.req /\ m.req <= Sent(e)'
    PROVE  Ordered'
<1>1. /\ \A d \in Ends \ {e} : up'[d] = up[d]
      /\ up'[e] = Append(up[e], m) /\ up[e] \in Seq(Requests)
  BY DEF TypedInv, InputTypeOK
<1>2. /\ Len(up'[e]) = Len(up[e]) + 1 /\ Len(up[e]) \in Nat
      /\ \A i \in 1 .. Len(up[e]) : up'[e][i] = up[e][i]
      /\ up'[e][Len(up[e]) + 1] = m
      /\ DOMAIN up[e] = 1 .. Len(up[e]) /\ DOMAIN up'[e] = 1 .. Len(up[e]) + 1
  BY <1>1, QueueGrows
<1>3. Ordered
  BY DEF TypedInv, OnTheWay
<1>4. ASSUME NEW d \in Ends
      PROVE  /\ \A i \in DOMAIN hand[d] :
                  /\ hand[d][i].req <= Sent(d)'
                  /\ \A j \in DOMAIN written : written[j].from = d => written[j].req <= hand[d][i].req
             /\ \A i \in DOMAIN written : written[i].from = d => written[i].req <= Sent(d)'
  BY <1>3, NumbersOfKeys DEF Ordered, TypedInv
<1>5. ASSUME NEW d \in Ends, NEW i \in DOMAIN up'[d], IsText(up'[d][i])
      PROVE  /\ up'[d][i].req <= Sent(d)'
             /\ \A j \in 1 .. i - 1 : IsText(up'[d][j]) => up'[d][j].req < up'[d][i].req
             /\ \A j \in DOMAIN hand[d] : hand[d][j].req < up'[d][i].req
             /\ \A j \in DOMAIN written : written[j].from = d => written[j].req < up'[d][i].req
  <2>1. CASE i \in DOMAIN up[d] /\ up'[d][i] = up[d][i]
    <3>1. \A j \in 1 .. i - 1 : j \in DOMAIN up[d] /\ up'[d][j] = up[d][j]
      BY <1>1, <1>2, <2>1, TypesOfKeys DEF TypedInv
    <3> QED
      BY <1>3, <1>5, <2>1, <3>1, NumbersOfKeys DEF Ordered, TypedInv
  <2>2. CASE d = e /\ i = Len(up[e]) + 1
    <3>1. /\ IsText(m) /\ up'[d][i] = m /\ m.req \in Nat
          /\ \A j \in 1 .. i - 1 : j \in DOMAIN up[e] /\ up'[e][j] = up[e][j]
      BY <1>2, <1>5, <2>2, RequestShape DEF IsText
    <3> QED
      BY <1>3, <2>2, <3>1, NumbersOfKeys DEF Ordered, TypedInv
  <2>3. CASE d # e
    BY <1>1, <2>1, <2>3
  <2>4. CASE d = e /\ i \in 1 .. Len(up[e])
    BY <1>2, <2>1, <2>4
  <2>5. d = e => i \in 1 .. Len(up[e]) \/ i = Len(up[e]) + 1
    BY <1>2
  <2> QED
    BY <2>2, <2>3, <2>4, <2>5
<1> QED
  BY <1>4, <1>5 DEF Ordered

\* The writer goroutine sends one request of its job, or loses it.
LEMMA SendRequestKeeps ==
    ASSUME TypedInv, SendRequest
    PROVE  OnTheWay'
<1> DEFINE c == keys - Len(inputCh)
<1>1. /\ writing # <<>> /\ writing' = Tail(writing)
      /\ up' = IF viewOpen THEN [up EXCEPT !["tui"] = Append(up["tui"], Head(writing))] ELSE up
      /\ UNCHANGED <<inputCh, viewOpen, hand, ttyOpen, written, keys, taps, takeovers, granted>>
  BY DEF SendRequest, viewVars, ptyVars
<1>2. /\ c \in Nat \ {0} /\ c <= keys /\ Sent("tui") = c - 1
      /\ \/ /\ c \in takeovers
            /\ Head(writing) = Take /\ Tail(writing) = <<Text(c, 1)>>
         \/ /\ writing = <<Text(c, 1)>>
            /\ Head(writing) = Text(c, 1) /\ Tail(writing) = <<>>
  BY <1>1, WritingShape
<1>3. /\ Queued /\ Ordered /\ OnePiece /\ NoGap /\ Claimed /\ "tui" \in Ends /\ "phone" \in Ends
      /\ Len(inputCh) \in Nat /\ keys \in Nat /\ taps \in Nat
  BY TypesOfKeys DEF TypedInv, OnTheWay, Ends
<1>4. Queued'
  BY <1>1, <1>2, <1>3 DEF Queued
<1>5. InHand' /\ Joined' /\ KeysInOrder' /\ TakeOverFirst'
  BY <1>1 DEF TypedInv, OnTheWay, InHand, Joined, KeysInOrder, TakeOverFirst, Adjacent
<1>6. /\ Sent("phone")' = Sent("phone") /\ Sent("phone") \in Int
      /\ Sent("tui")' \in {c - 1, c} /\ (Sent("tui")' = c <=> Head(writing) # Take)
  <2>1. Take # Text(c, 1) /\ <<Text(c, 1)>> # <<>>
    BY <1>2, RequestShape
  <2> QED
    BY <1>1, <1>2, <1>3, <2>1 DEF Sent
<1>7. CASE ~viewOpen
  <2>1. Ordered' /\ OnePiece'
    BY <1>1, <1>2, <1>3, <1>6, <1>7, NumbersOfKeys DEF Ordered, OnePiece, TypedInv, Ends
  <2>2. \A n : Present(n)' <=> Present(n)
    BY <1>1, <1>7 DEF Present, Wrote
  <2>3. NoGap'
    BY <1>1, <1>3, <1>7, <2>2 DEF NoGap
  <2>4. Claimed'
    BY <1>1, <1>3, <1>7 DEF Claimed, TakesBefore
  <2> QED
    BY <1>4, <1>5, <2>1, <2>3, <2>4 DEF OnTheWay
<1>8. CASE viewOpen
  <2> DEFINE m == Head(writing)
  <2>1. m \in Requests /\ (IsText(m) => m = Text(c, 1) /\ m.req = c /\ m.pieces = 1) /\ (IsText(m) <=> m # Take)
    BY <1>2, RequestShape DEF IsText
  <2>2. /\ up' = [up EXCEPT !["tui"] = Append(up["tui"], m)]
        /\ up["tui"] \in Seq(Requests) /\ DOMAIN up = Ends
    BY <1>1, <1>8 DEF TypedInv, InputTypeOK, Ends
  <2>3. /\ Len(up'["tui"]) = Len(up["tui"]) + 1 /\ Len(up["tui"]) \in Nat
        /\ \A i \in 1 .. Len(up["tui"]) : up'["tui"][i] = up["tui"][i]
        /\ up'["tui"][Len(up["tui"]) + 1] = m
        /\ DOMAIN up["tui"] = 1 .. Len(up["tui"]) /\ DOMAIN up'["tui"] = 1 .. Len(up["tui"]) + 1
    BY <1>3, <2>1, <2>2, QueueGrows
  <2>4. Ordered'
    <3>1. \A d \in Ends : Sent(d) \in Int /\ Sent(d)' \in Int /\ Sent(d) <= Sent(d)'
      BY <1>2, <1>6 DEF Ends
    <3>2. IsText(m) => Sent("tui") < m.req /\ m.req <= Sent("tui")'
      BY <1>2, <1>6, <2>1
    <3> QED
      BY <1>1, <1>3, <2>1, <2>2, <3>1, <3>2, SentOutInOrder
  <2>5. OnePiece'
    BY <1>1, <1>3, <2>1, <2>3 DEF OnePiece
  <2>6. \A n : Present(n)' <=> Present(n) \/ (IsText(m) /\ n = c)
    BY <1>1, <2>1, <2>3 DEF Present, Wrote
  <2>7. NoGap'
    <3> SUFFICES ASSUME ttyOpen PROVE NoGap'
      BY <1>1 DEF NoGap
    <3>1. \A n \in 1 .. c - 1 : Present(n)
      BY <1>2, <1>3, <1>8 DEF NoGap
    <3>2. ASSUME NEW x \in 1 .. MaxKeys, Present(x)' PROVE \A n \in 1 .. x : Present(n)'
      <4>1. CASE Present(x)
        BY <1>3, <2>6, <4>1 DEF NoGap
      <4>2. CASE x = c /\ IsText(m)
        <5>1. ASSUME NEW n \in 1 .. x PROVE Present(n)'
          <6>1. n = c \/ n \in 1 .. c - 1
            BY <1>2, <4>2
          <6> QED
            BY <2>6, <3>1, <4>2, <6>1
        <5> QED
          BY <5>1
      <4> QED
        BY <2>6, <3>2, <4>1, <4>2
    <3>3. ASSUME NEW n \in 1 .. Sent("tui")' PROVE Present(n)'
      <4>1. n \in 1 .. c - 1 \/ (n = c /\ m # Take)
        BY <1>2, <1>6
      <4> QED
        BY <2>1, <2>6, <3>1, <4>1
    <3> QED
      BY <3>2, <3>3 DEF NoGap
  <2>8. Claimed'
    <3> DEFINE q == up["tui"]
               l == Len(up["tui"])
    <3>1. \A i \in 1 .. l + 1 : TakesBefore(up'["tui"], i) <=> TakesBefore(q, i)
      <4> SUFFICES ASSUME NEW i \in 1 .. l + 1, NEW j \in 1 .. i - 1 PROVE up'["tui"][j] = q[j]
        BY DEF TakesBefore
      <4>1. j \in 1 .. l
        BY <2>3
      <4> QED
        BY <2>3, <4>1
    <3>2. TakesBefore(up'["tui"], l + 2) <=> TakesBefore(q, l + 1) \/ m = Take
      <4>1. m.kind = "take" <=> m = Take
        BY <2>1, <1>2, RequestShape DEF IsText
      <4>2. 1 .. (l + 2) - 1 = 1 .. (l + 1) - 1 \cup {l + 1} /\ (l + 1) - 1 = l
        BY <2>3
      <4> QED
        BY <2>3, <4>1, <4>2 DEF TakesBefore
    <3>3. IsText(m) /\ m.req \in takeovers => m.req \in granted \/ TakesBefore(q, l + 1)
      <4> SUFFICES ASSUME IsText(m) PROVE Len(writing) = 1 /\ writing[1] = m
        BY <1>3, <1>8 DEF Claimed
      <4>1. writing = <<Text(c, 1)>>
        BY <1>2, <2>1
      <4> QED
        BY <2>1, <4>1
    <3>4. (Len(writing') = 1 /\ writing'[1].req \in takeovers) => TakesBefore(up'["tui"], Len(up'["tui"]) + 1)
      <4>1. CASE writing' = <<>>
        BY <4>1
      <4>2. CASE m = Take
        BY <2>3, <3>2, <4>2
      <4> QED
        BY <1>1, <1>2, <4>1, <4>2
    <3>5. \A i \in DOMAIN up'["tui"] : IsText(up'["tui"][i]) /\ up'["tui"][i].req \in takeovers =>
            up'["tui"][i].req \in granted \/ TakesBefore(up'["tui"], i)
      <4> SUFFICES ASSUME NEW i \in 1 .. l + 1, IsText(up'["tui"][i]), up'["tui"][i].req \in takeovers
                   PROVE  up'["tui"][i].req \in granted \/ TakesBefore(q, i)
        BY <2>3, <3>1
      <4>1. CASE i = l + 1
        BY <2>3, <3>3, <4>1
      <4>2. CASE i \in 1 .. l
        BY <1>3, <2>3, <4>2 DEF Claimed
      <4> QED
        BY <2>3, <4>1, <4>2
    <3> QED
      BY <1>1, <1>3, <3>4, <3>5 DEF Claimed
  <2> QED
    BY <1>4, <1>5, <2>4, <2>5, <2>7, <2>8 DEF OnTheWay
<1> QED
  BY <1>7, <1>8

\* The phone sends a request.
LEMMA TapKeeps ==
    ASSUME TypedInv, Tap
    PROVE  OnTheWay'
<1>1. PICK m \in {Take, Release} \cup {Text(taps + 1, k) : k \in 0 .. 2} :
        /\ up' = [up EXCEPT !["phone"] = Append(up["phone"], m)]
        /\ taps' = taps + 1
        /\ UNCHANGED <<viewVars, ptyVars, writing, granted>>
  BY DEF Tap
<1>2. taps \in Nat /\ keys \in Nat /\ Len(inputCh) \in Nat
  BY TypesOfKeys DEF TypedInv
<1>3. m \in Requests /\ (IsText(m) => m.req = taps + 1)
  BY <1>1, <1>2, RequestShape DEF IsText
<1>4. /\ Sent("tui")' = Sent("tui") /\ Sent("tui") \in Int
      /\ Sent("phone") = taps /\ Sent("phone")' = taps + 1
  BY <1>1, <1>2 DEF Sent, viewVars
<1>5. Ordered'
  <2>1. \A d \in Ends : Sent(d) \in Int /\ Sent(d)' \in Int /\ Sent(d) <= Sent(d)'
    BY <1>2, <1>4 DEF Ends
  <2>2. "phone" \in Ends /\ (IsText(m) => Sent("phone") < m.req /\ m.req <= Sent("phone")')
    BY <1>2, <1>3, <1>4 DEF Ends
  <2> QED
    BY <1>1, <1>3, <2>1, <2>2, SentOutInOrder DEF ptyVars
<1>6. up'["tui"] = up["tui"]
  BY <1>1 DEF TypedInv, InputTypeOK, Ends
<1>7. Queued' /\ InHand' /\ Joined' /\ KeysInOrder' /\ TakeOverFirst'
  BY <1>1 DEF TypedInv, OnTheWay, Queued, InHand, Joined, KeysInOrder, TakeOverFirst, Adjacent,
              viewVars, ptyVars
<1>8. OnePiece'
  BY <1>1, <1>6 DEF TypedInv, OnTheWay, OnePiece, ptyVars
<1>9. \A n : Present(n)' <=> Present(n)
  BY <1>1, <1>6 DEF Present, Wrote, ptyVars
<1>10. NoGap'
  BY <1>1, <1>4, <1>9 DEF TypedInv, OnTheWay, NoGap, viewVars, ptyVars
<1>11. Claimed'
  BY <1>1, <1>6 DEF TypedInv, OnTheWay, Claimed, TakesBefore, viewVars, ptyVars
<1> QED
  BY <1>5, <1>7, <1>8, <1>10, <1>11 DEF OnTheWay

\* The handler of e takes a request: what both kinds of request have in common.
LEMMA TakenUp ==
    ASSUME TypedInv, NEW e \in Ends, Serve(e)
    PROVE  /\ UNCHANGED <<viewOpen, inputCh, keys, takeovers, ttyOpen, written, writing, taps>>
           /\ hand[e] = <<>> /\ Len(up[e]) \in Nat \ {0} /\ Head(up[e]) = up[e][1]
           /\ \A d \in Ends \ {e} : up'[d] = up[d]
           /\ Len(up'[e]) = Len(up[e]) - 1 /\ DOMAIN up'[e] = 1 .. Len(up[e]) - 1
           /\ \A i \in 1 .. Len(up[e]) - 1 : up'[e][i] = up[e][i + 1]
           /\ \A d \in Ends : Sent(d)' = Sent(d)
<1>1. /\ UNCHANGED <<viewOpen, inputCh, keys, takeovers, ttyOpen, written, writing, taps>>
      /\ hand[e] = <<>> /\ up[e] # <<>> /\ up' = [up EXCEPT ![e] = Tail(up[e])]
  BY DEF Serve, viewVars
<1>2. up[e] \in Seq(Requests) /\ DOMAIN up = Ends
  BY DEF TypedInv, InputTypeOK
<1>3. /\ Tail(up[e]) \in Seq(Requests) /\ Len(up[e]) \in Nat \ {0} /\ Len(Tail(up[e])) = Len(up[e]) - 1
      /\ \A i \in 1 .. Len(up[e]) - 1 : Tail(up[e])[i] = up[e][i + 1]
      /\ Head(up[e]) = up[e][1]
  BY <1>1, <1>2, QueueShrinks
<1>4. up'[e] = Tail(up[e]) /\ \A d \in Ends \ {e} : up'[d] = up[d]
  BY <1>1, <1>2
<1>5. DOMAIN up'[e] = 1 .. Len(up[e]) - 1
  BY <1>3, <1>4
<1>6. \A d \in Ends : Sent(d)' = Sent(d)
  BY <1>1 DEF Sent
<1> QED
  BY <1>1, <1>3, <1>4, <1>5, <1>6

\* Requests that stay on their way stay in order.
LEMMA TakenInOrder ==
    ASSUME TypedInv, NEW e \in Ends, Serve(e),
           NEW d \in Ends, NEW i \in DOMAIN up'[d], IsText(up'[d][i])
    PROVE  /\ up'[d][i].req <= Sent(d)'
           /\ \A j \in 1 .. i - 1 : IsText(up'[d][j]) => up'[d][j].req < up'[d][i].req
           /\ \A j \in DOMAIN written : written[j].from = d => written[j].req < up'[d][i].req
           /\ \A j \in DOMAIN hand[d] : hand[d][j].req < up'[d][i].req
           /\ d = e /\ IsText(up[e][1]) => up[e][1].req < up'[d][i].req
<1>1. Ordered
  BY DEF TypedInv, OnTheWay
<1>2. CASE d # e
  BY <1>1, <1>2, TakenUp DEF Ordered
<1>3. CASE d = e
  <2>1. /\ i \in 1 .. Len(up[e]) - 1 /\ Len(up[e]) \in Nat /\ up'[e][i] = up[e][i + 1]
        /\ i + 1 \in DOMAIN up[e] /\ DOMAIN up[e] = 1 .. Len(up[e])
    <3>1. i \in 1 .. Len(up[e]) - 1 /\ Len(up[e]) \in Nat
      BY <1>3, TakenUp
    <3>2. DOMAIN up[e] = 1 .. Len(up[e])
      BY TypesOfKeys DEF TypedInv
    <3> QED
      BY <3>1, <3>2, TakenUp
  <2>2. \A j \in 1 .. i - 1 : up'[e][j] = up[e][j + 1] /\ j + 1 \in 1 .. (i + 1) - 1
    BY <2>1, TakenUp
  <2>3. 1 \in 1 .. (i + 1) - 1
    BY <2>1
  <2>4. /\ Sent(e)' = Sent(e) /\ hand[e] = <<>> /\ DOMAIN hand[e] = 1 .. Len(hand[e])
    BY TakenUp, TypesOfKeys DEF TypedInv
  <2>5. IsText(up[e][i + 1])
    BY <1>3, <2>1
  <2> DEFINE r == up[e][i + 1].req
  <2>6. /\ r <= Sent(e)
        /\ \A j \in 1 .. (i + 1) - 1 : IsText(up[e][j]) => up[e][j].req < r
        /\ \A j \in DOMAIN written : written[j].from = e => written[j].req < r
    BY <1>1, <2>1, <2>5 DEF Ordered
  <2>7. up'[e][i].req = r /\ Sent(e)' = Sent(e)
    BY <2>1, <2>4
  <2>8. \A j \in DOMAIN hand[e] : FALSE
    BY <2>4
  <2> HIDE DEF r
  <2>9. \A j \in 1 .. i - 1 : IsText(up'[e][j]) => up'[e][j].req < r
    BY <2>2, <2>6
  <2>10. IsText(up[e][1]) => up[e][1].req < r
    BY <2>3, <2>6
  <2> QED
    BY <1>3, <2>6, <2>7, <2>8, <2>9, <2>10
<1> QED
  BY <1>2, <1>3

\* A claim or a release is served.
LEMMA ServeSizeKeeps ==
    ASSUME TypedInv, NEW e \in Ends, Serve(e), ~IsText(Head(up[e]))
    PROVE  OnTheWay'
<1>1. /\ hand' = hand /\ granted \subseteq granted'
      /\ e = "tui" /\ Head(up[e]).kind = "take" => granted' = granted \cup takeovers
  BY DEF Serve, IsText, Own
<1>2. /\ InHand /\ Joined /\ OnePiece /\ NoGap /\ Claimed /\ Ordered
      /\ KeysInOrder /\ TakeOverFirst /\ Queued
  BY DEF TypedInv, OnTheWay
<1>3. "tui" \in Ends /\ DOMAIN up["tui"] = 1 .. Len(up["tui"]) /\ Len(up["tui"]) \in Nat
  BY TypesOfKeys DEF TypedInv, Ends
<1>4. InHand' /\ Joined' /\ KeysInOrder' /\ Queued'
  <2>1. UNCHANGED <<inputCh, keys, takeovers, ttyOpen, written, writing, hand>>
    BY <1>1, TakenUp
  <2>2. InHand' /\ Joined'
    BY <1>2, <2>1 DEF InHand, Joined
  <2>3. KeysInOrder'
    BY <1>2, <2>1 DEF KeysInOrder, Adjacent
  <2>4. Queued'
    BY <1>2, <2>1 DEF Queued
  <2> QED
    BY <2>2, <2>3, <2>4
<1>5. TakeOverFirst'
  BY <1>1, <1>2, TakenUp DEF TakeOverFirst
<1>6. Ordered'
  BY <1>1, <1>2, TakenUp, TakenInOrder DEF Ordered
<1>7. \A i \in DOMAIN up'["tui"] :
        \/ e = "phone" /\ i \in DOMAIN up["tui"] /\ up'["tui"][i] = up["tui"][i]
        \/ e = "tui" /\ i + 1 \in DOMAIN up["tui"] /\ up'["tui"][i] = up["tui"][i + 1]
  <2>1. CASE e = "phone"
    BY <1>3, <2>1, TakenUp
  <2>2. CASE e = "tui"
    BY <1>3, <2>2, TakenUp
  <2> QED
    BY <2>1, <2>2 DEF Ends
<1>8. OnePiece'
  BY <1>1, <1>2, <1>7, TakenUp DEF OnePiece
<1>9. \A n : Present(n)' <=> Present(n)
  <2>1. CASE e = "phone"
    <3>1. up'["tui"] = up["tui"]
      BY <1>3, <2>1, TakenUp
    <3> QED
      BY <1>1, <3>1, TakenUp DEF Present, Wrote
  <2>2. CASE e = "tui"
    <3>1. ASSUME NEW i \in DOMAIN up["tui"], IsText(up["tui"][i])
          PROVE  i - 1 \in DOMAIN up'["tui"] /\ up'["tui"][i - 1] = up["tui"][i]
      <4>1. i # 1
        BY <2>2, <3>1, TakenUp
      <4>2. i - 1 \in 1 .. Len(up["tui"]) - 1 /\ (i - 1) + 1 = i
        BY <1>3, <4>1
      <4> QED
        BY <2>2, <4>2, TakenUp
    <3> QED
      BY <1>1, <1>7, <2>2, <3>1, TakenUp DEF Present, Wrote
  <2> QED
    BY <2>1, <2>2 DEF Ends
<1>10. NoGap'
  BY <1>2, <1>3, <1>9, TakenUp DEF NoGap
<1>11. Claimed'
  <2>1. CASE e = "phone"
    <3>1. up'["tui"] = up["tui"]
      BY <1>3, <2>1, TakenUp
    <3> QED
      BY <1>1, <1>2, <3>1, TakenUp DEF Claimed
  <2>2. CASE e = "tui" /\ Head(up[e]).kind = "take"
    BY <1>1, <2>2, TakenUp DEF Claimed
  <2>3. CASE e = "tui" /\ Head(up[e]).kind # "take"
    <3>1. ASSUME NEW i \in 1 .. Len(up["tui"]), TakesBefore(up["tui"], i + 1)
          PROVE  TakesBefore(up'["tui"], i)
      <4>1. PICK j \in 1 .. i : up["tui"][j].kind = "take"
        BY <3>1 DEF TakesBefore
      <4>2. j # 1
        BY <2>3, <4>1, TakenUp
      <4>3. j - 1 \in 1 .. i - 1 /\ j - 1 \in 1 .. Len(up["tui"]) - 1 /\ (j - 1) + 1 = j
        BY <1>3, <4>2
      <4>4. up'["tui"][j - 1].kind = "take"
        BY <2>3, <4>1, <4>3, TakenUp
      <4> QED
        BY <4>3, <4>4 DEF TakesBefore
    <3>2. ASSUME NEW i \in DOMAIN up'["tui"], IsText(up'["tui"][i]), up'["tui"][i].req \in takeovers
          PROVE  up'["tui"][i].req \in granted' \/ TakesBefore(up'["tui"], i)
      <4>1. i \in 1 .. Len(up["tui"]) /\ i + 1 \in DOMAIN up["tui"] /\ up'["tui"][i] = up["tui"][i + 1]
        BY <1>3, <2>3, <3>2, TakenUp
      <4> QED
        BY <1>1, <1>2, <3>1, <3>2, <4>1 DEF Claimed
    <3>3. TakesBefore(up["tui"], Len(up["tui"]) + 1) => TakesBefore(up'["tui"], Len(up'["tui"]) + 1)
      <4>1. Len(up'["tui"]) + 1 = Len(up["tui"]) /\ Len(up["tui"]) \in 1 .. Len(up["tui"])
        BY <1>3, <2>3, TakenUp
      <4> QED
        BY <3>1, <4>1
    <3> QED
      BY <1>1, <1>2, <3>2, <3>3, TakenUp DEF Claimed
  <2> QED
    BY <2>1, <2>2, <2>3 DEF Ends
<1> QED
  BY <1>4, <1>5, <1>6, <1>8, <1>10, <1>11 DEF OnTheWay

\* A text is taken in hand, piece by piece.
LEMMA ServeTextKeeps ==
    ASSUME TypedInv, NEW e \in Ends, Serve(e), IsText(Head(up[e]))
    PROVE  OnTheWay'
<1> DEFINE msg == up[e][1]
<1>1. /\ UNCHANGED <<viewOpen, inputCh, keys, takeovers, ttyOpen, written, writing, taps>>
      /\ Head(up[e]) = msg /\ hand[e] = <<>> /\ Len(up[e]) \in Nat \ {0}
  BY TakenUp
<1>2. granted' = granted /\ hand' = [hand EXCEPT ![e] = Pieces(e, msg)] /\ DOMAIN hand = Ends
  BY <1>1 DEF Serve, IsText, TypedInv, InputTypeOK
<1>3. /\ InHand /\ Joined /\ OnePiece /\ NoGap /\ Claimed /\ Ordered
      /\ KeysInOrder /\ TakeOverFirst /\ Queued
  BY DEF TypedInv, OnTheWay
<1>4. /\ "tui" \in Ends /\ DOMAIN up[e] = 1 .. Len(up[e]) /\ up[e] \in Seq(Requests)
      /\ 1 \in DOMAIN up[e]
  BY <1>1, TypesOfKeys DEF TypedInv, Ends
<1>5. msg \in Requests /\ msg.kind = "text" /\ msg.req \in Nat /\ msg.pieces \in 0 .. 2 /\ IsText(msg)
  BY <1>1, <1>4, RequestShape, NumbersOfKeys DEF TypedInv, IsText
<1>6. /\ \A d \in Ends \ {e} : hand'[d] = hand[d]
      /\ Len(hand'[e]) = msg.pieces /\ DOMAIN hand'[e] = 1 .. msg.pieces
      /\ hand'[e] = <<>> <=> msg.pieces = 0
      /\ \A i \in 1 .. msg.pieces :
            /\ hand'[e][i].from = e /\ hand'[e][i].req = msg.req
            /\ hand'[e][i].nr = i /\ (hand'[e][i].last <=> i = msg.pieces)
  <2>1. hand'[e] = Pieces(e, msg) /\ \A d \in Ends \ {e} : hand'[d] = hand[d]
    BY <1>2
  <2>2. Pieces(e, msg) \in Seq(PieceType) /\ Len(Pieces(e, msg)) = msg.pieces
    BY <1>5, PiecesShape
  <2>3. Pieces(e, msg) = <<>> <=> msg.pieces = 0
    BY <2>2, <1>5
  <2> QED
    BY <1>5, <2>1, <2>2, <2>3, PiecesShape
<1>7. /\ msg.req <= Sent(e)
      /\ \A j \in DOMAIN written : written[j].from = e => written[j].req < msg.req
  BY <1>3, <1>4, <1>5 DEF Ordered
<1>8. Queued' /\ KeysInOrder' /\ TakeOverFirst'
  BY <1>1, <1>2, <1>3 DEF Queued, KeysInOrder, TakeOverFirst, Adjacent
<1>9. InHand'
  <2> SUFFICES ASSUME NEW d \in Ends, NEW i \in DOMAIN hand'[d]
               PROVE  /\ hand'[d][i].from = d
                      /\ hand'[d][i].req = hand'[d][1].req /\ hand'[d][i].nr = hand'[d][1].nr + i - 1
                      /\ hand'[d][i].last <=> i = Len(hand'[d])
    BY DEF InHand
  <2>1. CASE d # e
    BY <1>3, <1>6, <2>1 DEF InHand
  <2>2. CASE d = e
    <3>1. i \in 1 .. msg.pieces /\ 1 \in 1 .. msg.pieces
      BY <1>5, <1>6, <2>2
    <3>2. hand'[e][1].req = msg.req /\ hand'[e][1].nr = 1 /\ Len(hand'[e]) = msg.pieces
      BY <1>6, <3>1
    <3> QED
      BY <1>6, <2>2, <3>1, <3>2
  <2> QED
    BY <2>1, <2>2
<1>10. Joined'
  <2> SUFFICES ASSUME ttyOpen, NEW i \in DOMAIN written,
                      \A k \in i + 1 .. Len(written) : written[k].from # written[i].from
               PROVE  LET rest == hand'[written[i].from]
                      IN  IF rest = <<>> THEN written[i].last ELSE Follows(written[i], rest[1])
    BY <1>1 DEF Joined
  <2>1. written[i].from \in Ends
    BY NumbersOfKeys DEF TypedInv
  <2>2. CASE written[i].from # e
    BY <1>3, <1>6, <2>1, <2>2 DEF Joined
  <2>3. CASE written[i].from = e
    <3>1. written[i].last
      BY <1>1, <1>3, <2>3 DEF Joined
    <3>2. CASE msg.pieces # 0
      <4>1. hand'[e] # <<>> /\ hand'[e][1].nr = 1 /\ hand'[e][1].req = msg.req /\ msg.req > written[i].req
        BY <1>5, <1>6, <1>7, <2>3, <3>2, NumbersOfKeys DEF TypedInv
      <4> QED
        BY <2>3, <3>1, <4>1 DEF Follows
    <3> QED
      BY <1>6, <2>3, <3>1, <3>2
  <2> QED
    BY <2>2, <2>3
<1>11. Ordered'
  <2>1. ASSUME NEW d \in Ends, NEW i \in DOMAIN up'[d], IsText(up'[d][i])
        PROVE  /\ up'[d][i].req <= Sent(d)'
               /\ \A j \in 1 .. i - 1 : IsText(up'[d][j]) => up'[d][j].req < up'[d][i].req
               /\ \A j \in DOMAIN hand'[d] : hand'[d][j].req < up'[d][i].req
               /\ \A j \in DOMAIN written : written[j].from = d => written[j].req < up'[d][i].req
    <3>1. CASE d = e
      <4>1. msg.req < up'[d][i].req
        BY <1>5, <2>1, <3>1, TakenInOrder
      <4> QED
        BY <1>6, <2>1, <3>1, <4>1, TakenInOrder
    <3>2. CASE d # e
      BY <1>6, <2>1, <3>2, TakenInOrder
    <3> QED
      BY <3>1, <3>2
  <2>2. ASSUME NEW d \in Ends
        PROVE  /\ \A i \in DOMAIN hand'[d] :
                    /\ hand'[d][i].req <= Sent(d)'
                    /\ \A j \in DOMAIN written : written[j].from = d => written[j].req <= hand'[d][i].req
               /\ \A i \in DOMAIN written : written[i].from = d => written[i].req <= Sent(d)'
    <3>1. Sent(d)' = Sent(d)
      BY TakenUp
    <3>2. CASE d = e
      BY <1>3, <1>5, <1>6, <1>7, <3>1, <3>2, NumbersOfKeys DEF Ordered, TypedInv
    <3>3. CASE d # e
      BY <1>3, <1>6, <3>1, <3>3 DEF Ordered
    <3> QED
      BY <3>2, <3>3
  <2> QED
    BY <1>1, <2>1, <2>2 DEF Ordered
<1>12. CASE e = "phone"
  <2>1. up'["tui"] = up["tui"] /\ hand'["tui"] = hand["tui"]
    BY <1>4, <1>6, <1>12, TakenUp
  <2>2. OnePiece' /\ Claimed'
    BY <1>1, <1>2, <1>3, <2>1 DEF OnePiece, Claimed
  <2>3. \A n : Present(n)' <=> Present(n)
    BY <1>1, <2>1 DEF Present, Wrote
  <2>4. NoGap'
    BY <1>1, <1>3, <1>4, <2>3, TakenUp DEF NoGap
  <2> QED
    BY <1>8, <1>9, <1>10, <1>11, <2>2, <2>4 DEF OnTheWay
<1>13. CASE e = "tui"
  <2>1. msg.pieces = 1
    BY <1>3, <1>4, <1>5, <1>13 DEF OnePiece
  <2>2. \A i \in DOMAIN up'["tui"] : /\ i \in 1 .. Len(up["tui"]) - 1
                                     /\ i + 1 \in DOMAIN up["tui"] /\ up'["tui"][i] = up["tui"][i + 1]
    <3>1. /\ DOMAIN up'["tui"] = 1 .. Len(up["tui"]) - 1 /\ DOMAIN up["tui"] = 1 .. Len(up["tui"])
          /\ \A i \in 1 .. Len(up["tui"]) - 1 : up'["tui"][i] = up["tui"][i + 1]
      BY <1>4, <1>13, TakenUp
    <3> QED
      BY <1>1, <1>13, <3>1
  <2>3. OnePiece'
    <3>1. Len(hand'["tui"]) <= 1
      <4>1. Len(hand'["tui"]) = 1
        BY <1>6, <1>13, <2>1
      <4> QED
        BY <4>1
    <3> QED
      BY <1>1, <1>3, <1>6, <1>7, <1>13, <2>2, <3>1 DEF OnePiece
  <2>4. \A n : Present(n)' <=> Present(n)
    <3>1. ASSUME NEW i \in DOMAIN up["tui"]
          PROVE  i # 1 => i - 1 \in DOMAIN up'["tui"] /\ up'["tui"][i - 1] = up["tui"][i]
      <4>1. i # 1 => i - 1 \in 1 .. Len(up["tui"]) - 1 /\ (i - 1) + 1 = i
        BY <1>1, <1>4, <1>13
      <4> QED
        BY <1>4, <1>13, <4>1, TakenUp
    <3>2. DOMAIN hand'["tui"] = {1} /\ hand'["tui"][1].req = msg.req /\ DOMAIN hand["tui"] = {}
      <4>1. 1 .. 1 = {1} /\ 1 .. 0 = {} /\ Len(<<>>) = 0
        OBVIOUS
      <4> QED
        BY <1>1, <1>6, <1>13, <2>1, <4>1, TypesOfKeys DEF TypedInv
    <3> QED
      BY <1>1, <1>4, <1>5, <1>13, <2>2, <3>1, <3>2 DEF Present, Wrote
  <2>5. NoGap'
    BY <1>1, <1>3, <1>4, <2>4, TakenUp DEF NoGap
  <2>6. Claimed'
    <3>1. ~TakesBefore(up["tui"], 1)
      BY DEF TakesBefore
    <3>2. msg.req \in takeovers => msg.req \in granted
      BY <1>3, <1>4, <1>5, <1>13, <3>1 DEF Claimed
    <3>3. ASSUME NEW i \in 1 .. Len(up["tui"]), TakesBefore(up["tui"], i + 1)
          PROVE  TakesBefore(up'["tui"], i)
      <4>1. PICK j \in 1 .. i : up["tui"][j].kind = "take"
        BY <3>3 DEF TakesBefore
      <4>2. j # 1
        BY <1>5, <1>13, <4>1
      <4>3. j - 1 \in 1 .. i - 1 /\ j - 1 \in 1 .. Len(up["tui"]) - 1 /\ (j - 1) + 1 = j
        BY <1>1, <1>13, <4>2
      <4>4. up'["tui"][j - 1].kind = "take"
        BY <1>13, <4>1, <4>3, TakenUp
      <4> QED
        BY <4>3, <4>4 DEF TakesBefore
    <3>4. ASSUME NEW i \in DOMAIN up'["tui"], IsText(up'["tui"][i]), up'["tui"][i].req \in takeovers
          PROVE  up'["tui"][i].req \in granted \/ TakesBefore(up'["tui"], i)
      <4>1. i \in 1 .. Len(up["tui"])
        BY <1>1, <1>13, <2>2
      <4> QED
        BY <1>3, <2>2, <3>3, <3>4, <4>1 DEF Claimed
    <3>5. TakesBefore(up["tui"], Len(up["tui"]) + 1) => TakesBefore(up'["tui"], Len(up'["tui"]) + 1)
      <4>1. Len(up'["tui"]) + 1 = Len(up["tui"]) /\ Len(up["tui"]) \in 1 .. Len(up["tui"])
        BY <1>1, <1>13, TakenUp
      <4> QED
        BY <3>3, <4>1
    <3>6. \A i \in DOMAIN hand'["tui"] : hand'["tui"][i].req = msg.req
      BY <1>6, <1>13
    <3> QED
      BY <1>1, <1>2, <1>3, <3>2, <3>4, <3>5, <3>6 DEF Claimed
  <2> QED
    BY <1>8, <1>9, <1>10, <1>11, <2>3, <2>5, <2>6 DEF OnTheWay
<1> QED
  BY <1>12, <1>13 DEF Ends

\* The next piece goes to the PTY.
LEMMA WriteOpenKeeps ==
    ASSUME TypedInv, NEW e \in Ends, WritePiece(e), ttyOpen
    PROVE  OnTheWay'
<1> DEFINE p == hand[e][1]
           l == Len(written)
<1>1. /\ UNCHANGED <<viewOpen, inputCh, keys, takeovers, ttyOpen, writing, up, taps, granted>>
      /\ hand[e] # <<>> /\ written' = Append(written, Head(hand[e]))
      /\ hand' = [hand EXCEPT ![e] = Tail(hand[e])]
  BY DEF WritePiece, viewVars
<1>2. /\ InHand /\ Joined /\ OnePiece /\ NoGap /\ Claimed /\ Ordered
      /\ KeysInOrder /\ TakeOverFirst /\ Queued
  BY DEF TypedInv, OnTheWay
<1>3. /\ "tui" \in Ends /\ written \in Seq(PieceType) /\ l \in Nat /\ DOMAIN written = 1 .. l
      /\ hand[e] \in Seq(PieceType) /\ DOMAIN hand = Ends
  BY TypesOfKeys DEF TypedInv, InputTypeOK, Ends
<1>4. /\ Len(hand[e]) \in Nat \ {0} /\ DOMAIN hand[e] = 1 .. Len(hand[e]) /\ 1 \in DOMAIN hand[e]
      /\ Head(hand[e]) = p /\ p \in PieceType
      /\ Tail(hand[e]) \in Seq(PieceType) /\ Len(Tail(hand[e])) = Len(hand[e]) - 1
      /\ \A i \in 1 .. Len(hand[e]) - 1 : Tail(hand[e])[i] = hand[e][i + 1]
  BY <1>1, <1>3, QueueShrinks
<1>5. /\ \A d \in Ends \ {e} : hand'[d] = hand[d]
      /\ hand'[e] = Tail(hand[e]) /\ DOMAIN hand'[e] = 1 .. Len(hand[e]) - 1
      /\ Len(hand'[e]) = Len(hand[e]) - 1
      /\ \A i \in 1 .. Len(hand[e]) - 1 :
            hand'[e][i] = hand[e][i + 1] /\ i + 1 \in DOMAIN hand[e]
  BY <1>1, <1>3, <1>4
<1>0. hand'[e] = <<>> <=> Len(hand[e]) = 1
  <2>0. Len(<<>>) = 0
    OBVIOUS
  <2>1. Tail(hand[e]) = <<>> => Len(Tail(hand[e])) = 0
    BY <2>0
  <2>2. Tail(hand[e]) # <<>> => Len(Tail(hand[e])) # 0
    BY <1>4, QueueShrinks
  <2>3. Len(Tail(hand[e])) = 0 <=> Len(hand[e]) = 1
    BY <1>4
  <2> QED
    BY <1>5, <2>1, <2>2, <2>3
<1>6. /\ Len(written') = l + 1 /\ DOMAIN written' = 1 .. l + 1 /\ written'[l + 1] = p
      /\ \A i \in 1 .. l : written'[i] = written[i]
  BY <1>1, <1>3, <1>4, QueueGrows
<1>7. /\ p.from = e /\ p.req \in Nat /\ p.nr \in Nat /\ (p.last <=> Len(hand[e]) = 1)
      /\ p.req <= Sent(e)
      /\ \A i \in DOMAIN hand[e] : hand[e][i].req = p.req /\ hand[e][i].nr = p.nr + i - 1
      /\ \A j \in DOMAIN written : written[j].from = e => written[j].req <= p.req
  BY <1>2, <1>4, NumbersOfKeys DEF InHand, Ordered, TypedInv
<1>8. \A d \in Ends : Sent(d)' = Sent(d)
  BY <1>1 DEF Sent
<1>9. Queued'
  BY <1>1, <1>2 DEF Queued
<1>10. InHand'
  <2> SUFFICES ASSUME NEW d \in Ends, NEW i \in DOMAIN hand'[d]
               PROVE  /\ hand'[d][i].from = d
                      /\ hand'[d][i].req = hand'[d][1].req /\ hand'[d][i].nr = hand'[d][1].nr + i - 1
                      /\ hand'[d][i].last <=> i = Len(hand'[d])
    BY DEF InHand
  <2>1. CASE d # e
    BY <1>2, <1>5, <2>1 DEF InHand
  <2>2. CASE d = e
    <3>1. i \in 1 .. Len(hand[e]) - 1 /\ 1 \in 1 .. Len(hand[e]) - 1
      <4>1. i \in DOMAIN hand'[e]
        BY <2>2
      <4>2. i \in 1 .. Len(hand[e]) - 1
        BY <1>5, <4>1
      <4> QED
        BY <1>4, <4>2
    <3>2. hand'[e][1] = hand[e][2] /\ hand'[e][i] = hand[e][i + 1] /\ i + 1 \in DOMAIN hand[e] /\ 2 \in DOMAIN hand[e]
      BY <1>4, <1>5, <3>1
    <3>3. hand[e][i + 1].from = e /\ (hand[e][i + 1].last <=> i + 1 = Len(hand[e]))
      BY <1>2, <3>2 DEF InHand
    <3>4. /\ hand[e][2].req = p.req /\ hand[e][i + 1].req = p.req
          /\ hand[e][2].nr = p.nr + 2 - 1 /\ hand[e][i + 1].nr = p.nr + (i + 1) - 1
      BY <1>7, <3>2
    <3>5. (i + 1 = Len(hand[e])) <=> (i = Len(hand'[e]))
      BY <1>4, <1>5, <3>1
    <3>6. hand[e][i + 1].nr = hand[e][2].nr + i - 1
      <4>1. p.nr \in Nat /\ i \in Nat
        BY <1>4, <1>7, <3>1
      <4> QED
        BY <3>4, <4>1
    <3> QED
      BY <2>2, <3>2, <3>3, <3>4, <3>5, <3>6
  <2> QED
    BY <2>1, <2>2
<1>11. Joined'
  <2> SUFFICES ASSUME NEW i \in DOMAIN written',
                      \A k \in i + 1 .. Len(written') : written'[k].from # written'[i].from
               PROVE  LET rest == hand'[written'[i].from]
                      IN  IF rest = <<>> THEN written'[i].last ELSE Follows(written'[i], rest[1])
    BY DEF Joined
  <2>1. CASE i = l + 1
    <3>1. CASE hand'[e] = <<>>
      <4>1. Len(hand[e]) = 1
        BY <1>0, <3>1
      <4> QED
        BY <1>6, <1>7, <2>1, <3>1, <4>1
    <3>2. CASE hand'[e] # <<>>
      <4>1. Len(hand[e]) # 1
        BY <1>0, <3>2
      <4>2. hand'[e][1] = hand[e][2] /\ 2 \in DOMAIN hand[e]
        <5>1. 1 \in 1 .. Len(hand[e]) - 1
          <6>1. \A n \in Nat \ {0} : n # 1 => 1 \in 1 .. n - 1
            OBVIOUS
          <6> QED
            BY <1>4, <4>1, <6>1
        <5> QED
          BY <1>5, <5>1
      <4>3. hand[e][2].req = p.req /\ hand[e][2].nr = p.nr + 1
        BY <1>7, <4>2
      <4> QED
        BY <1>6, <1>7, <2>1, <3>2, <4>2, <4>3 DEF Follows
    <3> QED
      BY <3>1, <3>2
  <2>2. CASE i \in 1 .. l
    <3>1. l + 1 \in i + 1 .. Len(written') /\ written'[i] = written[i]
      BY <1>3, <1>6, <2>2
    <3>2. written[i].from # e /\ written[i].from \in Ends
      BY <1>3, <1>6, <1>7, <2>2, <3>1, NumbersOfKeys DEF TypedInv
    <3>3. \A k \in i + 1 .. l : written[k].from # written[i].from
      BY <1>3, <1>6, <2>2, <3>1
    <3> QED
      BY <1>2, <1>3, <1>5, <2>2, <3>1, <3>2, <3>3 DEF Joined
  <2> QED
    BY <1>3, <1>6, <2>1, <2>2
<1>12. Ordered'
  <2>1. \A d \in Ends : \A j \in DOMAIN written' : written'[j].from = d =>
          \/ j \in DOMAIN written /\ written'[j] = written[j] /\ written[j].from = d
          \/ d = e /\ written'[j] = p
    BY <1>3, <1>6, <1>7
  <2>2. \A d \in Ends : \A j \in DOMAIN hand'[d] :
          \E k \in DOMAIN hand[d] : hand'[d][j] = hand[d][k]
    BY <1>5
  <2>3. ASSUME NEW d \in Ends, NEW i \in DOMAIN up[d], IsText(up[d][i])
        PROVE  /\ up[d][i].req <= Sent(d)
               /\ \A j \in 1 .. i - 1 : IsText(up[d][j]) => up[d][j].req < up[d][i].req
               /\ \A j \in DOMAIN hand'[d] : hand'[d][j].req < up[d][i].req
               /\ \A j \in DOMAIN written' : written'[j].from = d => written'[j].req < up[d][i].req
    <3>1. /\ \A j \in DOMAIN hand[d] : hand[d][j].req < up[d][i].req
          /\ \A j \in DOMAIN written : written[j].from = d => written[j].req < up[d][i].req
      BY <1>2, <2>3 DEF Ordered
    <3>2. d = e => p.req < up[d][i].req
      BY <1>4, <3>1
    <3> QED
      BY <1>2, <2>1, <2>2, <2>3, <3>1, <3>2 DEF Ordered
  <2>4. ASSUME NEW d \in Ends, NEW i \in DOMAIN hand'[d]
        PROVE  /\ hand'[d][i].req <= Sent(d)
               /\ \A j \in DOMAIN written' : written'[j].from = d => written'[j].req <= hand'[d][i].req
    <3>1. PICK k \in DOMAIN hand[d] : hand'[d][i] = hand[d][k]
      BY <2>2
    <3>2. d = e => hand[d][k].req = p.req
      BY <1>7
    <3> QED
      BY <1>2, <1>7, <2>1, <3>1, <3>2 DEF Ordered
  <2>5. ASSUME NEW d \in Ends, NEW i \in DOMAIN written', written'[i].from = d
        PROVE  written'[i].req <= Sent(d)
    BY <1>2, <1>7, <2>1, <2>5 DEF Ordered
  <2> QED
    BY <1>1, <1>8, <2>3, <2>4, <2>5 DEF Ordered
<1>13. OnePiece'
  <2>1. Len(hand'["tui"]) <= 1
    <3>1. CASE e = "tui"
      <4>1. Len(hand[e]) <= 1
        BY <1>2, <3>1 DEF OnePiece
      <4>2. Len(hand'[e]) <= 1
        BY <1>4, <1>5, <4>1
      <4> QED
        BY <3>1, <4>2
    <3>2. CASE e # "tui"
      BY <1>2, <1>3, <1>5, <3>2 DEF OnePiece
    <3> QED
      BY <3>1, <3>2
  <2>2. e = "tui" => DOMAIN hand'["tui"] = {}
    <3> SUFFICES ASSUME e = "tui" PROVE DOMAIN hand'["tui"] = {}
      OBVIOUS
    <3>1. Len(hand[e]) <= 1
      BY <1>2 DEF OnePiece
    <3>2. 1 .. Len(hand[e]) - 1 = {}
      BY <1>4, <3>1
    <3> QED
      BY <1>5, <3>2
  <2>3. e # "tui" => hand'["tui"] = hand["tui"]
    BY <1>3, <1>5
  <2>4. ASSUME NEW i \in DOMAIN hand'["tui"], NEW j \in DOMAIN written', written'[j].from = "tui"
        PROVE  written'[j].req < hand'["tui"][i].req
    <3>1. e # "tui" /\ j \in 1 .. l
      BY <1>3, <1>6, <1>7, <2>2, <2>4
    <3> QED
      BY <1>2, <1>3, <1>6, <2>3, <2>4, <3>1 DEF OnePiece
  <2> QED
    BY <1>1, <1>2, <2>1, <2>4 DEF OnePiece
<1>14. \A n : Present(n) => Present(n)'
  <2>1. \A n : Wrote(n) => Wrote(n)'
    BY <1>3, <1>6 DEF Wrote
  <2>2. ASSUME NEW i \in DOMAIN hand["tui"], NEW n, n = hand["tui"][i].req
        PROVE  Wrote(n)' \/ \E k \in DOMAIN hand'["tui"] : hand'["tui"][k].req = n
    <3>1. CASE e = "tui"
      <4>1. n = p.req
        BY <1>7, <2>2, <3>1
      <4>2. l + 1 \in DOMAIN written' /\ written'[l + 1].from = "tui" /\ written'[l + 1].req = p.req
        BY <1>3, <1>6, <1>7, <3>1
      <4> QED
        BY <4>1, <4>2 DEF Wrote
    <3>2. CASE e # "tui"
      BY <1>3, <1>5, <2>2, <3>2
    <3> QED
      BY <3>1, <3>2
  <2> SUFFICES ASSUME NEW n, Present(n) PROVE Present(n)'
    OBVIOUS
  <2>3. CASE Wrote(n)
    BY <2>1, <2>3 DEF Present
  <2>4. CASE \E i \in DOMAIN hand["tui"] : hand["tui"][i].req = n
    BY <2>2, <2>4 DEF Present
  <2>5. CASE \E i \in DOMAIN up["tui"] : IsText(up["tui"][i]) /\ up["tui"][i].req = n
    BY <1>1, <2>5 DEF Present
  <2> QED
    BY <2>3, <2>4, <2>5 DEF Present
<1>15. \A n : Present(n)' => Present(n)
  <2>1. \A n : Wrote(n)' => Wrote(n) \/ (e = "tui" /\ n = p.req)
    BY <1>3, <1>6, <1>7 DEF Wrote
  <2>2. \A k \in DOMAIN hand'["tui"] : \E i \in DOMAIN hand["tui"] : hand'["tui"][k] = hand["tui"][i]
    BY <1>3, <1>5
  <2> QED
    BY <1>1, <1>4, <2>1, <2>2 DEF Present
<1>16. NoGap'
  BY <1>1, <1>2, <1>3, <1>8, <1>14, <1>15 DEF NoGap
<1>17. Claimed'
  <2>1. \A k \in DOMAIN hand'["tui"] : \E i \in DOMAIN hand["tui"] : hand'["tui"][k] = hand["tui"][i]
    BY <1>3, <1>5
  <2> QED
    BY <1>1, <1>2, <2>1 DEF Claimed
<1>18. TakeOverFirst'
  <2>1. e = "tui" /\ p.req \in takeovers => p.req \in granted
    BY <1>2, <1>4 DEF Claimed
  <2> QED
    BY <1>1, <1>2, <1>3, <1>6, <1>7, <2>1 DEF TakeOverFirst
<1>19. KeysInOrder'
  <2>1. ASSUME NEW i \in DOMAIN written', NEW j \in DOMAIN written', Adjacent(i, j)'
        PROVE  Follows(written'[i], written'[j])
    <3>1. i < j /\ i \in 1 .. l /\ written'[i] = written[i]
      BY <1>3, <1>6, <2>1 DEF Adjacent
    <3>2. CASE j \in 1 .. l
      <4>1. written'[j] = written[j] /\ \A k \in i + 1 .. j - 1 : written'[k] = written[k]
        BY <1>3, <1>6, <3>1, <3>2
      <4>2. Adjacent(i, j)
        BY <2>1, <3>1, <4>1 DEF Adjacent
      <4> QED
        BY <1>2, <1>3, <3>1, <3>2, <4>1, <4>2 DEF KeysInOrder
    <3>3. CASE j = l + 1
      <4>1. written[i].from = e
        BY <1>6, <1>7, <2>1, <3>1, <3>3 DEF Adjacent
      <4>2. \A k \in i + 1 .. l : written[k].from # written[i].from
        BY <1>3, <1>6, <2>1, <3>1, <3>3 DEF Adjacent
      <4>3. Follows(written[i], p)
        BY <1>1, <1>2, <1>3, <3>1, <4>1, <4>2 DEF Joined
      <4> QED
        BY <1>6, <3>1, <3>3, <4>3
    <3> QED
      BY <1>3, <1>6, <3>2, <3>3
  <2>2. ASSUME NEW i \in DOMAIN written', NEW j \in DOMAIN written', i < j,
               written'[i].from = "tui", written'[j].from = "tui"
        PROVE  written'[i].req < written'[j].req
    <3>1. i \in 1 .. l /\ written'[i] = written[i]
      BY <1>3, <1>6, <2>2
    <3>2. CASE j \in 1 .. l
      BY <1>2, <1>3, <1>6, <2>2, <3>1, <3>2 DEF KeysInOrder
    <3>3. CASE j = l + 1
      BY <1>2, <1>3, <1>4, <1>6, <1>7, <2>2, <3>1, <3>3 DEF OnePiece
    <3> QED
      BY <1>3, <1>6, <3>2, <3>3
  <2>3. ASSUME NEW i \in DOMAIN written', written'[i].from = "tui", NEW n \in 1 .. written'[i].req
        PROVE  Wrote(n)'
    <3>1. CASE i \in 1 .. l
      <4>1. Wrote(n)
        BY <1>2, <1>3, <1>6, <2>3, <3>1 DEF KeysInOrder, Wrote
      <4> QED
        BY <1>3, <1>6, <4>1 DEF Wrote
    <3>2. CASE i = l + 1
      <4>1. e = "tui" /\ n \in 1 .. p.req /\ n \in Nat
        BY <1>6, <1>7, <2>3, <3>2
      <4>2. p.req \in 1 .. MaxKeys
        <5>1. Sent("tui") <= keys /\ Sent("tui") \in Int /\ keys \in Nat /\ keys <= MaxKeys /\ MaxKeys \in Nat
          BY TypesOfKeys, TypedAssumption DEF TypedInv, Sent
        <5> QED
          BY <1>7, <4>1, <5>1
      <4>3. Present(p.req)
        BY <1>4, <4>1 DEF Present
      <4>4. Present(n)
        BY <1>2, <4>1, <4>2, <4>3 DEF NoGap
      <4>5. \A k \in DOMAIN up["tui"] : IsText(up["tui"][k]) => up["tui"][k].req # n
        BY <1>2, <1>4, <1>7, <4>1, NumbersOfKeys DEF Ordered, TypedInv
      <4>6. n = p.req \/ Wrote(n)
        BY <1>7, <4>1, <4>4, <4>5 DEF Present
      <4>7. Wrote(n) => Wrote(n)'
        BY <1>3, <1>6 DEF Wrote
      <4>8. l + 1 \in DOMAIN written' /\ written'[l + 1].from = "tui" /\ written'[l + 1].req = p.req
        BY <1>3, <1>6, <1>7, <4>1
      <4> QED
        BY <4>6, <4>7, <4>8 DEF Wrote
    <3> QED
      BY <1>3, <1>6, <3>1, <3>2
  <2> QED
    BY <2>1, <2>2, <2>3 DEF KeysInOrder, Wrote
<1> QED
  BY <1>9, <1>10, <1>11, <1>12, <1>13, <1>16, <1>17, <1>18, <1>19 DEF OnTheWay

\* A write that fails ends its request.
LEMMA WriteClosedKeeps ==
    ASSUME TypedInv, NEW e \in Ends, WritePiece(e), ~ttyOpen
    PROVE  OnTheWay'
<1>1. /\ UNCHANGED <<viewOpen, inputCh, keys, takeovers, ttyOpen, written, writing, up, taps, granted>>
      /\ hand' = [hand EXCEPT ![e] = <<>>] /\ DOMAIN hand = Ends /\ "tui" \in Ends
  BY DEF WritePiece, viewVars, TypedInv, InputTypeOK, Ends
<1>2. \A d \in Ends : \/ hand'[d] = hand[d]
                      \/ hand'[d] = <<>> /\ DOMAIN hand'[d] = {} /\ Len(hand'[d]) = 0
  <2>1. DOMAIN <<>> = {} /\ Len(<<>>) = 0
    OBVIOUS
  <2>2. \A d \in Ends : hand'[d] = hand[d] \/ hand'[d] = <<>>
    BY <1>1
  <2> QED
    BY <2>1, <2>2
<1>3. \A d \in Ends : Sent(d)' = Sent(d)
  BY <1>1 DEF Sent
<1>4. Queued' /\ KeysInOrder' /\ TakeOverFirst'
  BY <1>1 DEF TypedInv, OnTheWay, Queued, KeysInOrder, TakeOverFirst, Adjacent
<1>5. Joined' /\ NoGap'
  BY <1>1 DEF Joined, NoGap
<1>6. InHand' /\ Ordered' /\ OnePiece' /\ Claimed'
  <2>1. InHand'
    BY <1>1, <1>2 DEF TypedInv, OnTheWay, InHand
  <2>2. Ordered'
    BY <1>1, <1>2, <1>3 DEF TypedInv, OnTheWay, Ordered
  <2>3. OnePiece'
    BY <1>1, <1>2 DEF TypedInv, OnTheWay, OnePiece
  <2>4. Claimed'
    BY <1>1, <1>2 DEF TypedInv, OnTheWay, Claimed
  <2> QED
    BY <2>1, <2>2, <2>3, <2>4
<1> QED
  BY <1>4, <1>5, <1>6 DEF OnTheWay

\* At the start nothing is on its way.
LEMMA KeysAtFirst == InputInit => TypedInv
<1> SUFFICES ASSUME InputInit PROVE TypedInv
  OBVIOUS
<1>1. Len(<<>>) = 0 /\ DOMAIN <<>> = {} /\ \A S : <<>> \in Seq(S)
  OBVIOUS
<1>2. InputTypeOK
  <2>1. keys \in 0 .. MaxKeys /\ taps \in 0 .. MaxTaps /\ sizeOwner \in Ends \cup {"nobody"}
    BY TypedAssumption DEF InputInit, Ends
  <2>2. up \in [Ends -> Seq(Requests)] /\ hand \in [Ends -> Seq(PieceType)]
    BY <1>1 DEF InputInit
  <2>3. viewOpen \in BOOLEAN /\ parked \in BOOLEAN /\ ttyOpen \in BOOLEAN
    BY DEF InputInit
  <2>4. flags \in Seq(BOOLEAN)
    BY <1>1 DEF InputInit
  <2> QED
    BY <1>1, <2>1, <2>2, <2>3, <2>4 DEF InputInit, InputTypeOK
<1>3. \A e \in Ends : DOMAIN up[e] = {} /\ DOMAIN hand[e] = {} /\ Len(hand[e]) = 0 /\ hand[e] = <<>>
  BY <1>1 DEF InputInit
<1>4. DOMAIN written = {} /\ Len(inputCh) = 0 /\ Len(writing) = 0 /\ keys = 0 /\ writing = <<>>
  BY <1>1 DEF InputInit
<1>5. "tui" \in Ends /\ Sent("tui") = 0
  BY <1>4 DEF Ends, Sent
<1>6. Queued /\ InHand /\ Ordered /\ Joined /\ OnePiece /\ Claimed
  BY <1>3, <1>4, <1>5 DEF Queued, InHand, Ordered, Joined, OnePiece, Claimed
<1>7. NoGap
  BY <1>3, <1>4, <1>5 DEF NoGap, Present, Wrote
<1>8. KeysInOrder /\ TakeOverFirst
  BY <1>4 DEF KeysInOrder, TakeOverFirst
<1> QED
  BY <1>2, <1>6, <1>7, <1>8 DEF TypedInv, OnTheWay

\* The invariant of the keys' way holds of every reachable state.
THEOREM KeysCorrect == InputSpec => []TypedInv
<1>1. TypedInv /\ [InputNext]_inputVars => TypedInv'
  <2> SUFFICES ASSUME TypedInv, [InputNext]_inputVars PROVE OnTheWay'
    BY InputTypesKept DEF TypedInv
  <2>1. CASE PressKey \/ NextJob \/ SendRequest \/ Tap
    BY <2>1, PressKeyKeeps, NextJobKeeps, SendRequestKeeps, TapKeeps
  <2>2. CASE FlagArrives \/ CloseView \/ ViewGone \/ TTYCloses \/ UNCHANGED inputVars
    <3>1. /\ UNCHANGED <<inputCh, writing, up, hand, written, keys, taps, takeovers, granted>>
          /\ (viewOpen' => viewOpen) /\ (ttyOpen' => ttyOpen)
      <4>1. CASE FlagArrives
        BY <4>1 DEF FlagArrives, ptyVars
      <4>2. CASE CloseView
        BY <4>2 DEF CloseView, ptyVars
      <4>3. CASE ViewGone
        BY <4>3 DEF ViewGone, viewVars, ptyVars
      <4>4. CASE TTYCloses
        BY <4>4 DEF TTYCloses, viewVars
      <4>5. CASE UNCHANGED inputVars
        BY <4>5 DEF inputVars, viewVars, ptyVars
      <4> QED
        BY <2>2, <4>1, <4>2, <4>3, <4>4, <4>5
    <3> QED
      BY <3>1, QuietKeeps
  <2>3. ASSUME NEW e \in Ends, Serve(e) PROVE OnTheWay'
    BY <2>3, ServeSizeKeeps, ServeTextKeeps
  <2>4. ASSUME NEW e \in Ends, WritePiece(e) PROVE OnTheWay'
    BY <2>4, WriteOpenKeeps, WriteClosedKeeps
  <2> QED
    BY <2>1, <2>2, <2>3, <2>4 DEF InputNext
<1> QED
  BY <1>1, KeysAtFirst, PTL DEF InputSpec

\* For any number of keys and of the phone's requests: what the agent reads of a
\* client is what it sent, in order, and of the view a prefix of the keys pressed.
THEOREM AgentReadsInOrder == InputSpec => []KeysInOrder
BY KeysCorrect, PTL DEF TypedInv, OnTheWay

\* The claim of a key that takes over is always served before the key.
THEOREM ClaimComesFirst == InputSpec => []TakeOverFirst
BY KeysCorrect, PTL DEF TypedInv, OnTheWay

--------------------------------------------------------------------------------
(* The pads.                                                                    *)

\* What a page can send.
PadRequests == [kind : {"attach", "set_button", "action"}, value : Bindings, excused : BOOLEAN]

IsSet(r) == r.kind = "set_button"

\* What the button is bound to, v, when the requests before the i-th of q are handled.
BoundBefore(q, b, i, v) ==
    \/ v = b /\ \A j \in 1 .. i - 1 : ~IsSet(q[j])
    \/ \E j \in 1 .. i - 1 :
          IsSet(q[j]) /\ q[j].value = v /\ \A k \in j + 1 .. i - 1 : ~IsSet(q[k])

PadShape ==
    /\ PadTypeOK /\ strays \in Seq(PadRequests)
    /\ requests \in [Pages -> Seq(PadRequests)]
    /\ {pushing, pushes} \subseteq [Pages -> Seq(Bindings)]

\* The attach of page p: on its way, in hand, handled.
Attaching(p) ==
    /\ told[p] => linked[p]
    /\ ~linked[p] => requests[p] = <<>>
    /\ ~linked[p] \/ told[p] => pushing[p] = <<>>
    /\ ~told[p] => pushes[p] = <<>>
    /\ Len(pushes[p]) <= 1
    /\ \A i \in DOMAIN requests[p] :
          requests[p][i].kind = "attach" => i = 1 /\ ~told[p] /\ pushing[p] = <<>>
    /\ linked[p] /\ ~told[p] /\ pushing[p] = <<>> =>
          requests[p] # <<>> /\ requests[p][1].kind = "attach"

\* What page p knows, unless it or another page rebound at the wrong time.
Copied(p) ==
    /\ linked[p] /\ ~early[p] /\ ~Pushed(p) =>
          \A i \in DOMAIN requests[p] : ~IsSet(requests[p][i])
    /\ linked[p] /\ ~early[p] /\ ~foreign[p] =>
          /\ pushing[p] # <<>> => pushing[p][1] = binding
          /\ pushes[p] # <<>> => pushes[p][1] = binding
          /\ Pushed(p) => BoundBefore(requests[p], binding, Len(requests[p]) + 1, label[p])

\* A press on its way that has no excuse.
Pressed(p) ==
    \A i \in DOMAIN requests[p] :
        requests[p][i].kind = "action" /\ ~requests[p][i].excused =>
            /\ Certain(p) /\ ~requests[p][i].value.text
            /\ ~foreign[p] => BoundBefore(requests[p], binding, i, requests[p][i].value)

PadPage(p) == Attaching(p) /\ Copied(p) /\ Pressed(p)

PressTells ==
    ~lastPress.excused =>
        /\ ~lastPress.typed
        /\ LET chords == lastPress.meant.keys
           IN  lastPress.bytes = IF chords = <<>> THEN NoBytes ELSE encodeTeaKey(chords[1])

PadInv == PadShape /\ PressTells /\ \A p \in Pages : PadPage(p)

--------------------------------------------------------------------------------
(* What a queue of requests makes of a binding.                                 *)

\* Handling the first request: the later ones find what they found, with the
\* binding that it leaves.
LEMMA BoundShifts ==
    ASSUME NEW q \in Seq(PadRequests), q # <<>>, NEW b, NEW c, NEW i \in Nat \ {0}, NEW v,
           BoundBefore(q, b, i + 1, v), i <= Len(q),
           c = IF IsSet(q[1]) THEN q[1].value ELSE b
    PROVE  BoundBefore(Tail(q), c, i, v)
<1>1. \A j \in 1 .. Len(q) - 1 : Tail(q)[j] = q[j + 1]
  OBVIOUS
<1>2. \A j \in 1 .. i - 1 : j \in 1 .. Len(q) - 1 /\ j + 1 \in 1 .. (i + 1) - 1
  OBVIOUS
<1>3. 1 \in 1 .. (i + 1) - 1
  OBVIOUS
<1>4. CASE v = b /\ \A j \in 1 .. (i + 1) - 1 : ~IsSet(q[j])
  <2>1. c = b /\ \A j \in 1 .. i - 1 : ~IsSet(Tail(q)[j])
    BY <1>1, <1>2, <1>3, <1>4
  <2> QED
    BY <2>1, <1>4 DEF BoundBefore
<1>5. ASSUME NEW j \in 1 .. (i + 1) - 1, IsSet(q[j]), q[j].value = v,
             \A k \in j + 1 .. (i + 1) - 1 : ~IsSet(q[k])
      PROVE  BoundBefore(Tail(q), c, i, v)
  <2>1. CASE j = 1
    <3>1. c = v
      BY <1>5, <2>1
    <3>2. \A k \in 1 .. i - 1 : k + 1 \in j + 1 .. (i + 1) - 1
      BY <2>1
    <3>3. \A k \in 1 .. i - 1 : ~IsSet(Tail(q)[k])
      BY <3>2, <1>5, <1>1, <1>2
    <3> QED
      BY <3>1, <3>3 DEF BoundBefore
  <2>2. CASE j # 1
    <3>1. j - 1 \in 1 .. i - 1 /\ (j - 1) + 1 = j
      BY <2>2
    <3>2. IsSet(Tail(q)[j - 1]) /\ Tail(q)[j - 1].value = v
      BY <3>1, <1>1, <1>2, <1>5
    <3>3. \A k \in (j - 1) + 1 .. i - 1 : k \in 1 .. i - 1 /\ k + 1 \in j + 1 .. (i + 1) - 1
      BY <3>1
    <3>4. \A k \in (j - 1) + 1 .. i - 1 : ~IsSet(Tail(q)[k])
      BY <3>3, <1>5, <1>1, <1>2
    <3> QED
      BY <3>1, <3>2, <3>4 DEF BoundBefore
  <2> QED
    BY <2>1, <2>2
<1> QED
  BY <1>4, <1>5 DEF BoundBefore

\* Sending one more request: those before it, and it, find what they found.
LEMMA BoundStays ==
    ASSUME NEW q \in Seq(PadRequests), NEW r, NEW b, NEW v,
           NEW i \in 1 .. Len(q) + 1, BoundBefore(q, b, i, v)
    PROVE  BoundBefore(Append(q, r), b, i, v)
<1>1. \A j \in 1 .. i - 1 : j \in 1 .. Len(q)
  OBVIOUS
<1>2. \A j \in 1 .. Len(q) : Append(q, r)[j] = q[j]
  OBVIOUS
<1>3. \A j \in 1 .. i - 1 : Append(q, r)[j] = q[j]
  BY <1>1, <1>2
<1>4. \A j \in 1 .. i - 1 : \A k \in j + 1 .. i - 1 : k \in 1 .. i - 1
  OBVIOUS
<1> QED
  BY <1>3, <1>4 DEF BoundBefore

\* What is bound when it has been handled too: its value if it rebinds, else what
\* was bound before.
LEMMA BoundNext ==
    ASSUME NEW q \in Seq(PadRequests), NEW r, NEW b, NEW v,
           IF IsSet(r) THEN v = r.value ELSE BoundBefore(q, b, Len(q) + 1, v)
    PROVE  BoundBefore(Append(q, r), b, Len(Append(q, r)) + 1, v)
<1>1. /\ Len(Append(q, r)) = Len(q) + 1
      /\ Append(q, r)[Len(q) + 1] = r
      /\ \A j \in 1 .. Len(q) : Append(q, r)[j] = q[j]
  OBVIOUS
<1>2. /\ (Len(q) + 1 + 1) - 1 = Len(q) + 1 /\ (Len(q) + 1) - 1 = Len(q)
      /\ Len(q) + 1 \in 1 .. Len(q) + 1
      /\ \A k \in Len(q) + 1 + 1 .. Len(q) + 1 : FALSE
      /\ \A k \in 1 .. Len(q) + 1 : k \in 1 .. Len(q) \/ k = Len(q) + 1
  OBVIOUS
<1>3. CASE IsSet(r)
  BY <1>1, <1>2, <1>3 DEF BoundBefore
<1>4. CASE ~IsSet(r)
  <2>0. BoundBefore(q, b, Len(q) + 1, v)
    BY <1>4
  <2>1. CASE v = b /\ \A j \in 1 .. Len(q) : ~IsSet(q[j])
    BY <1>1, <1>2, <1>4, <2>1 DEF BoundBefore
  <2>2. ASSUME NEW j \in 1 .. Len(q), IsSet(q[j]), q[j].value = v,
               \A k \in j + 1 .. Len(q) : ~IsSet(q[k])
        PROVE  BoundBefore(Append(q, r), b, Len(Append(q, r)) + 1, v)
    <3>1. j \in 1 .. Len(q) + 1
      OBVIOUS
    <3>2. \A k \in j + 1 .. Len(q) + 1 : (k \in j + 1 .. Len(q) /\ k \in 1 .. Len(q)) \/ k = Len(q) + 1
      OBVIOUS
    <3>3. \A k \in j + 1 .. Len(q) + 1 : ~IsSet(Append(q, r)[k])
      BY <3>2, <2>2, <1>1, <1>4
    <3> QED
      BY <3>1, <3>3, <2>2, <1>1, <1>2 DEF BoundBefore
  <2> QED
    BY <2>0, <2>1, <2>2, <1>2 DEF BoundBefore
<1> QED
  BY <1>3, <1>4

--------------------------------------------------------------------------------
(* One page.                                                                    *)

\* What a page has on its way to the daemon can be handled.
LEMMA Sendable ==
    /\ Unbound \in Bindings /\ AttachRequest \in PadRequests
    /\ \A v \in Bindings : SetButton(v) \in PadRequests
    /\ \A v \in Bindings, e \in BOOLEAN : PressRequest(v, e) \in PadRequests
BY DEF Bindings, AttachRequest, SetButton, PressRequest, PadRequests

\* A page that a step leaves alone, unless it changes the binding behind its back.
LEMMA PageKept ==
    ASSUME PadInv, NEW p \in Pages,
           UNCHANGED <<label[p], linked[p], told[p], early[p], requests[p], pushing[p], pushes[p]>>,
           (binding' = binding /\ (foreign'[p] <=> foreign[p])) \/ foreign'[p]
    PROVE  PadPage(p)'
<1>1. PadPage(p)
  BY DEF PadInv
<1>2. Attaching(p)'
  BY <1>1 DEF PadPage, Attaching
<1>3. CASE binding' = binding /\ (foreign'[p] <=> foreign[p])
  <2>1. Copied(p)'
    BY <1>1, <1>3 DEF PadPage, Copied, Pushed
  <2>2. Pressed(p)'
    BY <1>1, <1>3 DEF PadPage, Pressed, Certain, Pushed
  <2> QED
    BY <1>2, <2>1, <2>2 DEF PadPage
<1>4. CASE foreign'[p]
  <2>1. Copied(p)'
    BY <1>1, <1>4 DEF PadPage, Copied, Pushed
  <2>2. Pressed(p)'
    BY <1>1, <1>4 DEF PadPage, Pressed, Certain, Pushed
  <2> QED
    BY <1>2, <2>1, <2>2 DEF PadPage
<1> QED
  BY <1>3, <1>4

\* A page sends a request r: it rebinds, or asks for what its label says.
LEMMA PageSends ==
    ASSUME PadInv, NEW p \in Pages, linked[p], NEW r \in PadRequests,
           UNCHANGED <<binding, linked[p], told[p], pushing[p], pushes[p], foreign[p]>>,
           requests'[p] = Append(requests[p], r),
           r.kind # "attach",
           label'[p] = IF IsSet(r) THEN r.value ELSE label[p],
           early'[p] <=> early[p] \/ (IsSet(r) /\ ~Pushed(p)),
           r.kind = "action" /\ ~r.excused => Certain(p) /\ r.value = label[p] /\ ~r.value.text
    PROVE  PadPage(p)'
<1> DEFINE q == requests[p]
<1>1. PadPage(p) /\ q \in Seq(PadRequests)
  BY DEF PadInv, PadShape
<1>2. /\ Len(Append(q, r)) = Len(q) + 1 /\ Append(q, r) # <<>>
      /\ DOMAIN Append(q, r) = 1 .. Len(q) + 1 /\ DOMAIN q = 1 .. Len(q)
      /\ Append(q, r)[Len(q) + 1] = r
      /\ \A i \in 1 .. Len(q) : Append(q, r)[i] = q[i]
      /\ \A i \in 1 .. Len(q) + 1 : i \in 1 .. Len(q) \/ i = Len(q) + 1
      /\ q # <<>> => 1 \in 1 .. Len(q)
  BY <1>1
<1>3. Attaching(p)'
  <2>1. \A i \in DOMAIN requests'[p] : requests'[p][i].kind = "attach" => i \in DOMAIN q /\ q[i].kind = "attach"
    BY <1>2
  <2>2. \A i \in DOMAIN requests'[p] : requests'[p][i].kind = "attach" => i = 1 /\ ~told'[p] /\ pushing'[p] = <<>>
    BY <2>1, <1>1 DEF PadPage, Attaching
  <2>3. linked'[p] /\ ~told'[p] /\ pushing'[p] = <<>> =>
           requests'[p] # <<>> /\ requests'[p][1].kind = "attach"
    BY <1>1, <1>2 DEF PadPage, Attaching
  <2> QED
    BY <2>2, <2>3, <1>1 DEF PadPage, Attaching
<1>4. Pushed(p)' <=> Pushed(p)
  BY DEF Pushed
<1>5. Copied(p)'
  <2>1. ASSUME linked'[p], ~early'[p], ~Pushed(p)'
        PROVE  \A i \in DOMAIN requests'[p] : ~IsSet(requests'[p][i])
    BY <2>1, <1>1, <1>2, <1>4 DEF PadPage, Copied
  <2>2. ASSUME linked'[p], ~early'[p], ~foreign'[p]
        PROVE  /\ pushing'[p] # <<>> => pushing'[p][1] = binding'
               /\ pushes'[p] # <<>> => pushes'[p][1] = binding'
    BY <2>2, <1>1 DEF PadPage, Copied
  <2>3. ASSUME linked'[p], ~early'[p], ~foreign'[p], Pushed(p)'
        PROVE  BoundBefore(requests'[p], binding', Len(requests'[p]) + 1, label'[p])
    <3>1. BoundBefore(q, binding, Len(q) + 1, label[p])
      BY <2>3, <1>1, <1>4 DEF PadPage, Copied
    <3>2. IF IsSet(r) THEN label'[p] = r.value ELSE BoundBefore(q, binding, Len(q) + 1, label'[p])
      BY <3>1
    <3> QED
      BY <3>2, <1>1, BoundNext
  <2> QED
    BY <2>1, <2>2, <2>3 DEF Copied
<1>6. Pressed(p)'
  <2> SUFFICES ASSUME NEW i \in DOMAIN requests'[p], requests'[p][i].kind = "action", ~requests'[p][i].excused
               PROVE  /\ Certain(p)' /\ ~requests'[p][i].value.text
                      /\ ~foreign'[p] => BoundBefore(requests'[p], binding', i, requests'[p][i].value)
    BY DEF Pressed
  <2>1. i \in 1 .. Len(q) + 1
    BY <1>2
  <2>2. CASE i \in 1 .. Len(q)
    <3>1. requests'[p][i] = q[i] /\ i \in DOMAIN q
      BY <2>2, <1>2
    <3>2. /\ Certain(p) /\ ~q[i].value.text
          /\ ~foreign[p] => BoundBefore(q, binding, i, q[i].value)
      BY <3>1, <1>1 DEF PadPage, Pressed
    <3>3. ~foreign[p] => BoundBefore(Append(q, r), binding, i, q[i].value)
      BY <3>2, <2>1, <1>1, BoundStays
    <3>4. Certain(p)'
      BY <3>2, <1>4 DEF Certain
    <3> QED
      BY <3>1, <3>2, <3>3, <3>4
  <2>3. CASE i = Len(q) + 1
    <3>1. requests'[p][i] = r
      BY <2>3, <1>2
    <3>2. Certain(p) /\ r.value = label[p] /\ ~r.value.text /\ ~IsSet(r)
      BY <3>1 DEF IsSet
    <3>3. ~foreign[p] => BoundBefore(q, binding, Len(q) + 1, label[p])
      BY <3>2, <1>1 DEF PadPage, Copied, Certain
    <3>4. ~foreign[p] => BoundBefore(Append(q, r), binding, i, label[p])
      BY <3>3, <2>1, <2>3, <1>1, BoundStays
    <3>5. Certain(p)'
      BY <3>2, <1>4 DEF Certain
    <3> QED
      BY <3>1, <3>2, <3>4, <3>5
  <2> QED
    BY <2>1, <2>2, <2>3, <1>2
<1> QED
  BY <1>3, <1>5, <1>6 DEF PadPage

\* A request of a page is handled that is not its attach.
LEMMA PageServed ==
    ASSUME PadInv, NEW p \in Pages, requests[p] # <<>>, requests[p][1].kind # "attach", pushing[p] = <<>>,
           UNCHANGED <<label[p], linked[p], told[p], early[p], pushing[p], pushes[p], foreign[p]>>,
           requests'[p] = Tail(requests[p]),
           binding' = IF IsSet(requests[p][1]) THEN requests[p][1].value ELSE binding
    PROVE  PadPage(p)'
<1> DEFINE q == requests[p]
<1>1. PadPage(p) /\ q \in Seq(PadRequests)
  BY DEF PadInv, PadShape
<1>2. /\ Len(Tail(q)) + 1 = Len(q) /\ Len(q) \in Nat \ {0} /\ Len(Tail(q)) + 1 = Len(q)
      /\ DOMAIN Tail(q) = 1 .. Len(q) - 1 /\ DOMAIN q = 1 .. Len(q) /\ 1 \in 1 .. Len(q)
      /\ \A i \in 1 .. Len(q) - 1 : /\ Tail(q)[i] = q[i + 1] /\ i + 1 \in 1 .. Len(q)
                                    /\ i \in Nat \ {0} /\ i <= Len(q) /\ i + 1 # 1
  BY <1>1
<1>3. linked[p] /\ told[p]
  BY <1>1 DEF PadPage, Attaching
<1>4. Attaching(p)'
  <2>1. \A i \in DOMAIN requests'[p] : requests'[p][i].kind # "attach"
    BY <1>1, <1>2 DEF PadPage, Attaching
  <2> QED
    BY <2>1, <1>1, <1>3 DEF PadPage, Attaching
<1>5. Pushed(p)' <=> Pushed(p)
  BY DEF Pushed
<1>6. ASSUME ~early[p], IsSet(q[1]) PROVE Pushed(p)
  BY <1>6, <1>1, <1>2, <1>3 DEF PadPage, Copied
<1>7. Copied(p)'
  <2>1. ASSUME ~early'[p], ~Pushed(p)'
        PROVE  \A i \in DOMAIN requests'[p] : ~IsSet(requests'[p][i])
    BY <2>1, <1>1, <1>2, <1>3, <1>5 DEF PadPage, Copied
  <2>2. ASSUME ~early'[p], ~foreign'[p], pushes'[p] # <<>>
        PROVE  pushes'[p][1] = binding'
    BY <2>2, <1>1, <1>3, <1>6 DEF PadPage, Copied, Pushed
  <2>3. ASSUME ~early'[p], ~foreign'[p], Pushed(p)'
        PROVE  BoundBefore(requests'[p], binding', Len(requests'[p]) + 1, label'[p])
    <3>1. BoundBefore(q, binding, Len(q) + 1, label[p])
      BY <2>3, <1>1, <1>3, <1>5 DEF PadPage, Copied
    <3>2. BoundBefore(Tail(q), binding', Len(q), label[p])
      BY <3>1, <1>1, <1>2, BoundShifts
    <3> QED
      BY <3>2, <1>2
  <2> QED
    BY <2>1, <2>2, <2>3 DEF Copied
<1>8. Pressed(p)'
  <2> SUFFICES ASSUME NEW i \in DOMAIN requests'[p], requests'[p][i].kind = "action", ~requests'[p][i].excused
               PROVE  /\ Certain(p)' /\ ~requests'[p][i].value.text
                      /\ ~foreign'[p] => BoundBefore(requests'[p], binding', i, requests'[p][i].value)
    BY DEF Pressed
  <2>1. requests'[p][i] = q[i + 1] /\ i + 1 \in DOMAIN q
    BY <1>2
  <2>2. /\ Certain(p) /\ ~q[i + 1].value.text
        /\ ~foreign[p] => BoundBefore(q, binding, i + 1, q[i + 1].value)
    BY <2>1, <1>1 DEF PadPage, Pressed
  <2>3. ~foreign[p] => BoundBefore(Tail(q), binding', i, q[i + 1].value)
    BY <2>2, <1>1, <1>2, BoundShifts
  <2>4. Certain(p)'
    BY <2>2, <1>5 DEF Certain
  <2> QED
    BY <2>1, <2>2, <2>3, <2>4
<1> QED
  BY <1>4, <1>7, <1>8 DEF PadPage

--------------------------------------------------------------------------------
(* The keys.                                                                    *)

\* The two tables agree on every chord that the desk passes on and both know.
LEMMA TablesAgree ==
    ASSUME NEW mods \in SUBSET {"Ctrl", "Alt", "Shift"},
           NEW base \in {Named(k) : k \in DOMAIN NamedKeys} \cup {Char(n) : n \in 33 .. 126},
           DeskKnows(Chord(mods, base))
    PROVE  encodeKey(Chord(mods, base)) = encodeTeaKey(Chord(mods, base))
<1> DEFINE c == Chord(mods, base)
<1>1. c.mods = mods /\ c.base = base
  BY DEF Chord
<1>2. ASSUME NEW k \in DOMAIN NamedKeys, base = Named(k)
      PROVE  base.name = k /\ k # "char" /\ k \in DOMAIN NamedKeys /\ k \notin DOMAIN DeskKeys
  BY <1>2 DEF Named, NamedKeys, DeskKeys
<1>3. CASE c = Chord({"Shift"}, Named("Tab"))
  <2>2. mods = {"Shift"} /\ mods # {} /\ base.name = "Tab" /\ base.name # "char"
    BY <1>3, <1>1 DEF Chord, Named
  <2>1. encodeKey(c) = BackTab
    BY <1>1, <1>3, <2>2 DEF encodeKey
  <2>3. mods \ {"Alt"} = {"Shift"}
    BY <2>2
  <2>4. encodeTeaKey(c) = BackTab
    BY <1>1, <2>2, <2>3 DEF encodeTeaKey
  <2> QED
    BY <2>1, <2>4
<1>4. CASE c # Chord({"Shift"}, Named("Tab")) /\ base.name # "char"
  <2>1. mods = {}
    BY <1>1, <1>4 DEF DeskKnows
  <2>5. base.name \in DOMAIN NamedKeys /\ base.name \notin DOMAIN DeskKeys
    BY <1>2, <1>4 DEF Char
  <2>2. encodeKey(c) = NamedKeys[base.name]
    BY <2>1, <2>5, <1>1, <1>4 DEF encodeKey
  <2>3. mods \ {"Alt"} = {} /\ mods \ {"Alt"} # {"Shift"}
    BY <2>1
  <2>4. encodeTeaKey(c) = NamedKeys[base.name]
    BY <1>1, <1>4, <2>3, <2>5 DEF encodeTeaKey, KeyBytes
  <2> QED
    BY <2>2, <2>4
<1>5. CASE c # Chord({"Shift"}, Named("Tab")) /\ base.name = "char"
  <2>1. PICK n \in 33 .. 126 : base = Char(n)
    BY <1>5, <1>2
  <2>2. base.name = "char" /\ base.code = n /\ base.name \in ChordBases
    BY <2>1 DEF Char, ChordBases
  <2>3. "Alt" \notin mods /\ (mods = {} \/ IsLower(Lower(n)))
    BY <1>1, <1>5, <2>2 DEF DeskKnows
  <2>4. ~(c.base = Plus /\ c.mods # {})
    <3>1. Plus.code = 43 /\ ~IsLower(Lower(43))
      BY DEF Plus, Char, IsLower, Lower
    <3> QED
      BY <1>1, <2>2, <2>3, <3>1
  <2>5. mods \ {"Alt"} = mods
    BY <2>3
  <2>6. encodeKey(c) = encodeChord(c)
    <3>1. "char" \notin DOMAIN NamedKeys
      BY DEF NamedKeys
    <3> QED
      BY <1>1, <1>5, <3>1 DEF encodeKey
  <2> DEFINE shifted == IF "Shift" \in mods THEN Upper(n) ELSE n
  <2>7. encodeTeaKey(c) = IF "Ctrl" \in mods
                            THEN IF IsLower(Lower(n)) THEN <<Lower(n) - 96>> ELSE NoBytes
                            ELSE <<shifted>>
    BY <1>1, <2>2, <2>5 DEF encodeTeaKey
  <2>8. CASE "Ctrl" \in mods
    <3>1. IsLower(Lower(n)) /\ Lower(shifted) = Lower(n)
      BY <2>3, <2>8 DEF IsLower, Lower, Upper
    <3>2. shifted \notin {32, 64}
      BY <3>1 DEF IsLower, Lower
    <3>3. encodeChord(c) = <<Lower(shifted) - 96>>
      BY <1>1, <2>2, <2>3, <2>4, <2>8, <3>1, <3>2 DEF encodeChord
    <3> QED
      BY <2>6, <2>7, <2>8, <3>1, <3>3
  <2>9. CASE "Ctrl" \notin mods
    <3>1. encodeChord(c) = <<shifted>>
      BY <1>1, <2>2, <2>3, <2>4, <2>9 DEF encodeChord
    <3> QED
      BY <2>6, <2>7, <2>9, <3>1
  <2> QED
    BY <2>8, <2>9
<1> QED
  BY <1>3, <1>4, <1>5

\* Home and End are none of the keys of encodeKey's switch, and no base of encodeChord.
LEMMA DeskOnly ==
    ASSUME NEW mods \in SUBSET {"Ctrl", "Alt", "Shift"}, NEW k \in DOMAIN DeskKeys
    PROVE  encodeKey(Chord(mods, Named(k))) = TypedName
<1> DEFINE c == Chord(mods, Named(k))
<1>1. c.base = Named(k) /\ c.base.name = k
  BY DEF Chord, Named
<1>2. k \notin DOMAIN NamedKeys /\ k \notin ChordBases /\ k # "Tab"
  BY DEF DeskKeys, NamedKeys, ChordBases
<1>3. c # Chord({"Shift"}, Named("Tab"))
  BY <1>1, <1>2 DEF Chord, Named
<1>4. encodeKey(c) = encodeChord(c)
  BY <1>1, <1>2, <1>3 DEF encodeKey
<1>5. encodeChord(c) = TypedName
  BY <1>1, <1>2 DEF encodeChord
<1> QED
  BY <1>4, <1>5

LEMMA DeskAndPad == DeskAndPadAgree
<1> SUFFICES ASSUME NEW c \in Chords, DeskKnows(c)
             PROVE  encodeKey(c) = IF c.base.name \in DOMAIN DeskKeys THEN TypedName ELSE encodeTeaKey(c)
  BY DEF DeskAndPadAgree
<1> DEFINE M == SUBSET {"Ctrl", "Alt", "Shift"}
           B == {Named(k) : k \in DOMAIN NamedKeys} \cup {Char(n) : n \in 33 .. 126}
           D == {Named(k) : k \in DOMAIN DeskKeys}
<1>1. c \in {Chord(mods, base) : mods \in M, base \in B \cup D}
  BY DEF Chords
<1> HIDE DEF M, B, D
<1>2. PICK mods \in M, base \in B \cup D : c = Chord(mods, base)
  BY <1>1
<1>3. c.base = base
  BY <1>2 DEF Chord
<1>4. CASE base \in B
  <2>1. base.name \notin DOMAIN DeskKeys
    BY <1>4 DEF B, Named, Char, NamedKeys, DeskKeys
  <2> QED
    BY <1>2, <1>3, <1>4, <2>1, TablesAgree DEF M, B
<1>5. CASE base \in D
  <2>1. PICK k \in DOMAIN DeskKeys : base = Named(k)
    BY <1>5 DEF D
  <2>2. base.name = k
    BY <2>1 DEF Named
  <2> QED
    BY <1>2, <1>3, <2>1, <2>2, DeskOnly DEF M
<1> QED
  BY <1>4, <1>5

\* A button's key is one that both know.
LEMMA ButtonsAgree ==
    ASSUME NEW b \in Bindings, b.keys # <<>>
    PROVE  encodeKey(b.keys[1]) = encodeTeaKey(b.keys[1])
<1> DEFINE ctrlK == Chord({"Ctrl"}, Char(75))
           shiftTab == Chord({"Shift"}, Named("Tab"))
<1>1. b.keys[1] = ctrlK \/ b.keys[1] = shiftTab
  BY DEF Bindings, Unbound, Compact, Key
<1>2. encodeKey(ctrlK) = encodeTeaKey(ctrlK)
  <2>1. "Alt" \notin {"Ctrl"} /\ {"Ctrl"} \in SUBSET {"Ctrl", "Alt", "Shift"}
    OBVIOUS
  <2>2. Char(75).name = "char" /\ IsLower(Lower(Char(75).code))
    BY DEF Char, IsLower, Lower
  <2>3. DeskKnows(ctrlK)
    BY <2>1, <2>2 DEF DeskKnows, Chord
  <2>4. Char(75) \in {Char(n) : n \in 33 .. 126}
    OBVIOUS
  <2> QED
    BY <2>1, <2>3, <2>4, TablesAgree
<1>3. encodeKey(shiftTab) = encodeTeaKey(shiftTab)
  <2>1. DeskKnows(shiftTab) /\ {"Shift"} \in SUBSET {"Ctrl", "Alt", "Shift"}
    BY DEF DeskKnows
  <2>2. Named("Tab") \in {Named(k) : k \in DOMAIN NamedKeys}
    BY DEF NamedKeys
  <2> QED
    BY <2>1, <2>2, TablesAgree
<1> QED
  BY <1>1, <1>2, <1>3

--------------------------------------------------------------------------------
(* The steps.                                                                   *)

LEMMA PadAtFirst == PadInit => PadInv
<1> SUFFICES ASSUME PadInit PROVE PadInv
  OBVIOUS
<1>1. PadTypeOK
  BY PadAssumption, Sendable DEF PadInit, PadTypeOK, Bindings
<1>2. PadShape
  BY <1>1 DEF PadInit, PadShape
<1>3. PressTells
  BY DEF PadInit, PressTells, NoPress
<1>4. \A p \in Pages : PadPage(p)
  BY DEF PadInit, PadPage, Attaching, Copied, Pressed, Pushed
<1> QED
  BY <1>2, <1>3, <1>4 DEF PadInv

LEMMA Queues ==
    ASSUME NEW S
    PROVE  /\ <<>> \in Seq(S) /\ Len(<<>>) <= 1
           /\ \A x \in S : <<x>> \in Seq(S) /\ Len(<<x>>) <= 1
           /\ \A q \in Seq(S) : q # <<>> => Tail(q) \in Seq(S) /\ Head(q) \in S
           /\ \A q \in Seq(S), x \in S : Append(q, x) \in Seq(S)
           /\ \A q, r \in Seq(S) : q \o r \in Seq(S)
<1>1. Len(<<>>) = 0 /\ \A x \in S : Len(<<x>>) = 1
  OBVIOUS
<1>2. <<>> \in Seq(S) /\ \A x \in S : <<x>> \in Seq(S)
  OBVIOUS
<1>3. \A q \in Seq(S) : q # <<>> => Tail(q) \in Seq(S) /\ Head(q) \in S
  OBVIOUS
<1>4. \A q \in Seq(S), x \in S : Append(q, x) \in Seq(S)
  OBVIOUS
<1>5. \A q, r \in Seq(S) : q \o r \in Seq(S)
  OBVIOUS
<1> QED
  BY <1>1, <1>2, <1>3, <1>4, <1>5

\* No step puts anything but bindings and requests where they belong.
LEMMA PadShapeKept ==
    ASSUME PadInv, PadNext
    PROVE  PadShape'
<1> USE DEF PadShape, PadTypeOK, pageSide, padBounds
<1>0. PadShape /\ MaxRebinds \in Nat /\ MaxPresses \in Nat /\ MaxLinks \in Nat
  BY PadAssumption DEF PadInv
<1>q. \A S \in {PadRequests, Bindings} :
         /\ <<>> \in Seq(S) /\ Len(<<>>) <= 1
         /\ \A x \in S : <<x>> \in Seq(S) /\ Len(<<x>>) <= 1
         /\ \A q \in Seq(S) : q # <<>> => Tail(q) \in Seq(S) /\ Head(q) \in S
         /\ \A q \in Seq(S), x \in S : Append(q, x) \in Seq(S)
         /\ \A q, r \in Seq(S) : q \o r \in Seq(S)
  BY Queues
<1>r. \A r \in PadRequests : r.value \in Bindings
  BY DEF PadRequests
<1>1. ASSUME NEW p \in Pages, AttachPad(p) PROVE PadShape'
  <2>1. requests' \in [Pages -> Seq(PadRequests)]
    BY <1>0, <1>q, <1>r, <1>1, Sendable DEF AttachPad
  <2>2. {linked', told', early', foreign'} \subseteq [Pages -> BOOLEAN]
    BY <1>0, <1>1 DEF AttachPad
  <2>3. links' \in 0 .. MaxLinks
    BY <1>0, <1>1 DEF AttachPad
  <2> QED
    BY <1>0, <1>1, <2>1, <2>2, <2>3 DEF AttachPad
<1>2. ASSUME NEW p \in Pages, LosePad(p) PROVE PadShape'
  <2>1. requests' \in [Pages -> Seq(PadRequests)] /\ strays' \in Seq(PadRequests)
    BY <1>0, <1>q, <1>r, <1>2 DEF LosePad
  <2>2. {pushing', pushes'} \subseteq [Pages -> Seq(Bindings)] /\ \A q \in Pages : Len(pushing'[q]) <= 1
    BY <1>0, <1>q, <1>r, <1>2 DEF LosePad
  <2>3. {linked', told', early', foreign'} \subseteq [Pages -> BOOLEAN]
    BY <1>0, <1>2 DEF LosePad
  <2>4. UNCHANGED <<binding, label, rebinds, presses, links>>
    BY <1>2 DEF LosePad
  <2> QED
    BY <1>0, <2>1, <2>2, <2>3, <2>4
<1>3. ASSUME NEW p \in Pages, Rebind(p) PROVE PadShape'
  <2>1. requests' \in [Pages -> Seq(PadRequests)] /\ label' \in [Pages -> Bindings]
    BY <1>0, <1>q, <1>r, <1>3, Sendable DEF Rebind, SendUp
  <2>2. early' \in [Pages -> BOOLEAN]
    BY <1>0, <1>3 DEF Rebind
  <2>3. rebinds' \in 0 .. MaxRebinds
    BY <1>0, <1>3 DEF Rebind
  <2>4. UNCHANGED <<binding, linked, pushing, pushes, strays, presses, links, told, foreign>>
    BY <1>3 DEF Rebind
  <2> QED
    BY <1>0, <2>1, <2>2, <2>3, <2>4
<1>4. ASSUME NEW p \in Pages, PressButton(p) PROVE PadShape'
  <2>0. PressRequest(label[p], ~Certain(p)) \in PadRequests
    <3>1. label[p] \in Bindings /\ (~Certain(p)) \in BOOLEAN
      BY <1>0, <1>4
    <3> QED
      BY <3>1, Sendable
  <2>1. requests' \in [Pages -> Seq(PadRequests)]
    BY <1>0, <1>q, <1>r, <1>4, <2>0 DEF PressButton, SendUp
  <2>3. presses' \in 0 .. MaxPresses
    BY <1>0, <1>4 DEF PressButton
  <2>4. UNCHANGED <<binding, label, linked, told, early, pushing, pushes, strays, rebinds, links, foreign>>
    BY <1>4 DEF PressButton
  <2> QED
    BY <1>0, <2>1, <2>3, <2>4
<1>5. ASSUME NEW p \in Pages, PushedLabel(p) PROVE PadShape'
  BY <1>0, <1>q, <1>r, <1>5 DEF PushedLabel
<1>6. ASSUME NEW p \in Pages, ReadBinding(p) PROVE PadShape'
  BY <1>0, <1>q, <1>r, <1>6 DEF ReadBinding, TakeRequest
<1>7. ASSUME NEW p \in Pages, PushBinding(p) PROVE PadShape'
  BY <1>0, <1>q, <1>r, <1>7 DEF PushBinding
<1>8. ASSUME NEW p \in Pages, SetCustom(p) PROVE PadShape'
  <2>1. requests' \in [Pages -> Seq(PadRequests)] /\ binding' \in Bindings
    BY <1>0, <1>q, <1>r, <1>8 DEF SetCustom, TakeRequest
  <2>2. foreign' \in [Pages -> BOOLEAN]
    BY <1>0, <1>8 DEF SetCustom
  <2>3. UNCHANGED <<label, linked, told, early, pushing, pushes, strays, rebinds, presses, links>>
    BY <1>8 DEF SetCustom
  <2> QED
    BY <1>0, <2>1, <2>2, <2>3
<1>9. ASSUME NEW p \in Pages, DoAction(p) PROVE PadShape'
  BY <1>0, <1>q, <1>r, <1>9 DEF DoAction, TakeRequest
<1>10. CASE SetCustomLate
  <2>1. strays' \in Seq(PadRequests) /\ binding' \in Bindings /\ foreign' \in [Pages -> BOOLEAN]
    BY <1>0, <1>q, <1>r, <1>10 DEF SetCustomLate
  <2>2. UNCHANGED <<label, linked, told, early, requests, pushing, pushes, rebinds, presses, links>>
    BY <1>10 DEF SetCustomLate
  <2> QED
    BY <1>0, <2>1, <2>2
<1> QED
  BY <1>1, <1>2, <1>3, <1>4, <1>5, <1>6, <1>7, <1>8, <1>9, <1>10 DEF PadNext

\* An attach is sent, the connection is lost, the push comes: nothing is bound.
LEMMA AttachPadKeeps ==
    ASSUME PadInv, NEW p \in Pages, AttachPad(p)
    PROVE  \A x \in Pages : PadPage(x)'
<1>1. PadShape /\ PadPage(p)
  BY DEF PadInv
<1>2. ASSUME NEW x \in Pages \ {p} PROVE PadPage(x)'
  BY <1>1, <1>2, PageKept DEF PadShape, PadTypeOK, AttachPad
<1>3. /\ linked'[p] /\ ~told'[p] /\ ~early'[p] /\ requests'[p] = <<AttachRequest>>
      /\ UNCHANGED <<pushing, pushes, binding, foreign, label>>
  BY <1>1 DEF PadShape, PadTypeOK, AttachPad
<1>4. pushing[p] = <<>> /\ pushes[p] = <<>> /\ Len(pushes[p]) <= 1
  BY <1>1 DEF AttachPad, PadPage, Attaching
<1>5. /\ DOMAIN requests'[p] = {1} /\ requests'[p] # <<>>
      /\ requests'[p][1].kind = "attach"
  BY <1>3 DEF AttachRequest
<1>6. Attaching(p)'
  BY <1>3, <1>4, <1>5 DEF Attaching
<1>7. Copied(p)'
  BY <1>3, <1>4, <1>5 DEF Copied, Pushed, IsSet
<1>8. Pressed(p)'
  BY <1>5 DEF Pressed
<1> QED
  BY <1>2, <1>6, <1>7, <1>8 DEF PadPage

LEMMA LosePadKeeps ==
    ASSUME PadInv, NEW p \in Pages, LosePad(p)
    PROVE  \A x \in Pages : PadPage(x)'
<1>1. PadShape /\ PadPage(p)
  BY DEF PadInv
<1>2. ASSUME NEW x \in Pages \ {p} PROVE PadPage(x)'
  BY <1>1, <1>2, PageKept DEF PadShape, PadTypeOK, LosePad
<1>3. /\ ~linked'[p] /\ ~told'[p] /\ requests'[p] = <<>>
      /\ pushing'[p] = <<>> /\ pushes'[p] = <<>>
  BY <1>1 DEF PadShape, PadTypeOK, LosePad
<1>4. DOMAIN requests'[p] = {} /\ Len(pushes'[p]) <= 1
  BY <1>3
<1>5. Attaching(p)' /\ Copied(p)' /\ Pressed(p)'
  BY <1>3, <1>4 DEF Attaching, Copied, Pressed
<1> QED
  BY <1>2, <1>5 DEF PadPage

LEMMA PushedLabelKeeps ==
    ASSUME PadInv, NEW p \in Pages, PushedLabel(p)
    PROVE  \A x \in Pages : PadPage(x)'
<1>1. PadShape /\ PadPage(p)
  BY DEF PadInv
<1>2. ASSUME NEW x \in Pages \ {p} PROVE PadPage(x)'
  BY <1>1, <1>2, PageKept DEF PadShape, PadTypeOK, PushedLabel
<1>3. /\ pushes[p] # <<>> /\ pushes[p] \in Seq(Bindings) /\ Len(pushes[p]) <= 1
      /\ label'[p] = Head(pushes[p]) /\ pushes'[p] = Tail(pushes[p])
      /\ UNCHANGED <<binding, linked, told, early, requests, pushing, foreign>>
  BY <1>1 DEF PadShape, PadTypeOK, PushedLabel, PadPage, Attaching
<1>4. label'[p] = pushes[p][1] /\ pushes'[p] = <<>> /\ Len(pushes'[p]) <= 1
  BY <1>3
<1>5. ~Pushed(p) /\ told[p] /\ linked[p] /\ pushing[p] = <<>>
  BY <1>1, <1>3 DEF Pushed, PadPage, Attaching
<1>6. Attaching(p)'
  BY <1>1, <1>3, <1>4 DEF PadPage, Attaching
<1>7. Copied(p)'
  <2> SUFFICES ASSUME ~early[p] PROVE Copied(p)'
    BY <1>3 DEF Copied
  <2>1. \A i \in DOMAIN requests[p] : ~IsSet(requests[p][i])
    BY <1>1, <1>5 DEF PadPage, Copied
  <2>2. BoundBefore(requests[p], binding, Len(requests[p]) + 1, binding)
    BY <1>1, <2>1 DEF PadShape, BoundBefore
  <2>3. ~foreign[p] => label'[p] = binding
    BY <1>1, <1>3, <1>4, <1>5 DEF PadPage, Copied
  <2> QED
    BY <1>3, <1>4, <1>5, <2>1, <2>2, <2>3 DEF Copied
<1>8. Pressed(p)'
  BY <1>1, <1>3, <1>5 DEF PadPage, Pressed, Certain
<1> QED
  BY <1>2, <1>6, <1>7, <1>8 DEF PadPage

\* The attach is read, and answered.
LEMMA ReadBindingKeeps ==
    ASSUME PadInv, NEW p \in Pages, ReadBinding(p)
    PROVE  \A x \in Pages : PadPage(x)'
<1>1. PadShape /\ PadPage(p)
  BY DEF PadInv
<1>2. ASSUME NEW x \in Pages \ {p} PROVE PadPage(x)'
  BY <1>1, <1>2, PageKept DEF PadShape, PadTypeOK, ReadBinding, TakeRequest, pageSide
<1>3. /\ requests[p] \in Seq(PadRequests) /\ requests[p] # <<>> /\ Head(requests[p]).kind = "attach"
      /\ pushing[p] = <<>> /\ requests'[p] = Tail(requests[p])
      /\ pushing'[p] = <<binding>> /\ ~foreign'[p]
      /\ UNCHANGED <<binding, label, linked, told, early, pushes>>
  BY <1>1 DEF PadShape, PadTypeOK, ReadBinding, TakeRequest, pageSide
<1>4. /\ requests[p][1].kind = "attach" /\ 1 \in DOMAIN requests[p]
      /\ \A i \in DOMAIN Tail(requests[p]) :
            /\ Tail(requests[p])[i] = requests[p][i + 1]
            /\ i + 1 \in DOMAIN requests[p] /\ i + 1 # 1
  BY <1>3
<1>5. ~told[p] /\ linked[p] /\ pushes[p] = <<>> /\ Len(pushes[p]) <= 1
  BY <1>1, <1>3, <1>4 DEF PadPage, Attaching
<1>6. pushing'[p] # <<>> /\ pushing'[p][1] = binding
  BY <1>3
<1>7. Attaching(p)'
  BY <1>1, <1>3, <1>4, <1>5, <1>6 DEF PadPage, Attaching
<1>8. ~Pushed(p) /\ ~Pushed(p)'
  BY <1>3, <1>5 DEF Pushed
<1>9. Copied(p)'
  BY <1>1, <1>3, <1>4, <1>5, <1>6, <1>8 DEF PadPage, Copied
<1>10. Pressed(p)'
  BY <1>1, <1>3, <1>4, <1>8 DEF PadPage, Pressed, Certain
<1> QED
  BY <1>2, <1>7, <1>9, <1>10 DEF PadPage

LEMMA PushBindingKeeps ==
    ASSUME PadInv, NEW p \in Pages, PushBinding(p)
    PROVE  \A x \in Pages : PadPage(x)'
<1>1. PadShape /\ PadPage(p)
  BY DEF PadInv
<1>2. ASSUME NEW x \in Pages \ {p} PROVE PadPage(x)'
  BY <1>1, <1>2, PageKept DEF PadShape, PadTypeOK, PushBinding
<1>3. /\ pushing[p] # <<>> /\ pushing[p] \in Seq(Bindings) /\ Len(pushing[p]) <= 1
      /\ pushes[p] \in Seq(Bindings) /\ pushes'[p] = pushes[p] \o pushing[p]
      /\ pushing'[p] = <<>> /\ told'[p]
      /\ UNCHANGED <<binding, label, linked, early, requests, foreign>>
  BY <1>1 DEF PadShape, PadTypeOK, PushBinding
<1>4. ~told[p] /\ linked[p] /\ pushes[p] = <<>>
  BY <1>1, <1>3 DEF PadPage, Attaching
<1>5. pushes'[p] = pushing[p] /\ pushes'[p] # <<>> /\ Len(pushes'[p]) <= 1
  BY <1>3, <1>4
<1>6. ~Pushed(p) /\ ~Pushed(p)'
  BY <1>4, <1>5 DEF Pushed
<1>7. Attaching(p)'
  BY <1>1, <1>3, <1>4, <1>5 DEF PadPage, Attaching
<1>8. Copied(p)'
  BY <1>1, <1>3, <1>4, <1>5, <1>6 DEF PadPage, Copied
<1>9. Pressed(p)'
  BY <1>1, <1>3, <1>6 DEF PadPage, Pressed, Certain
<1> QED
  BY <1>2, <1>7, <1>8, <1>9 DEF PadPage

\* The page rebinds, or asks for what its label says.
LEMMA RebindKeeps ==
    ASSUME PadInv, NEW p \in Pages, Rebind(p)
    PROVE  \A x \in Pages : PadPage(x)'
<1>1. PadShape /\ PadPage(p)
  BY DEF PadInv
<1>2. ASSUME NEW x \in Pages \ {p} PROVE PadPage(x)'
  BY <1>1, <1>2, PageKept DEF PadShape, PadTypeOK, Rebind, SendUp
<1>3. PICK value \in Bindings : /\ SendUp(p, SetButton(value))
                                /\ label' = [label EXCEPT ![p] = value]
  BY DEF Rebind
<1>4. /\ early'[p] <=> early[p] \/ ~Pushed(p)
      /\ label'[p] = value
      /\ UNCHANGED <<binding, linked, told, pushing, pushes, foreign>>
  BY <1>1, <1>3 DEF PadShape, PadTypeOK, Rebind
<1>5. CASE linked[p]
  <2>1. requests'[p] = Append(requests[p], SetButton(value))
    BY <1>1, <1>3, <1>5 DEF PadShape, SendUp
  <2>2. /\ SetButton(value) \in PadRequests /\ IsSet(SetButton(value))
        /\ SetButton(value).kind = "set_button" /\ SetButton(value).value = value
    BY Sendable DEF SetButton, IsSet
  <2>3. PadPage(p)'
    BY <1>4, <1>5, <2>1, <2>2, PageSends
  <2> QED
    BY <1>2, <2>3
<1>6. CASE ~linked[p]
  <2>1. ~told[p] /\ early'[p] /\ requests' = requests /\ requests[p] = <<>> /\ pushing[p] = <<>>
    BY <1>1, <1>3, <1>4, <1>6 DEF PadPage, Attaching, Pushed, SendUp
  <2>2. Attaching(p)' /\ Copied(p)'
    BY <1>1, <1>4, <1>6, <2>1 DEF PadPage, Attaching, Copied
  <2>3. DOMAIN requests'[p] = {}
    BY <2>1
  <2>4. Pressed(p)'
    BY <2>3 DEF Pressed
  <2> QED
    BY <1>2, <2>2, <2>4 DEF PadPage
<1> QED
  BY <1>5, <1>6

LEMMA PressButtonKeeps ==
    ASSUME PadInv, NEW p \in Pages, PressButton(p)
    PROVE  \A x \in Pages : PadPage(x)'
<1>1. PadShape /\ PadPage(p)
  BY DEF PadInv
<1>2. ASSUME NEW x \in Pages \ {p} PROVE PadPage(x)'
  BY <1>1, <1>2, PageKept DEF PadShape, PadTypeOK, PressButton, SendUp, pageSide
<1> DEFINE r == PressRequest(label[p], ~Certain(p))
<1>3. /\ ~label[p].text /\ SendUp(p, r) /\ label[p] \in Bindings
      /\ UNCHANGED <<binding, label, linked, told, early, pushing, pushes, foreign>>
  BY <1>1 DEF PadShape, PadTypeOK, PressButton, pageSide
<1>4. CASE linked[p]
  <2>1. requests'[p] = Append(requests[p], r)
    BY <1>1, <1>3, <1>4 DEF PadShape, SendUp
  <2>2. (~Certain(p)) \in BOOLEAN
    BY <1>1 DEF PadShape, PadTypeOK
  <2>3. r \in PadRequests
    BY <1>3, <2>2, Sendable
  <2>4. r.kind = "action" /\ r.kind # "attach" /\ ~IsSet(r) /\ r.value = label[p] /\ (r.excused <=> ~Certain(p))
    BY DEF PressRequest, IsSet
  <2> HIDE DEF r
  <2>5. PadPage(p)'
    BY <1>3, <1>4, <2>1, <2>3, <2>4, PageSends
  <2> QED
    BY <1>2, <2>5
<1>5. CASE ~linked[p]
  <2>1. requests' = requests
    BY <1>3, <1>5 DEF SendUp
  <2> QED
    BY <1>2, <1>3, <2>1, PageKept
<1> QED
  BY <1>4, <1>5

\* The daemon handles what a page sent, or what a lost connection had sent.
LEMMA SetCustomKeeps ==
    ASSUME PadInv, NEW p \in Pages, SetCustom(p)
    PROVE  \A x \in Pages : PadPage(x)'
<1>1. PadShape
  BY DEF PadInv
<1>2. ASSUME NEW x \in Pages \ {p} PROVE PadPage(x)'
  BY <1>1, <1>2, PageKept DEF PadShape, PadTypeOK, SetCustom, TakeRequest, pageSide
<1>3. /\ requests[p] # <<>> /\ Head(requests[p]).kind = "set_button" /\ pushing[p] = <<>>
      /\ requests[p] \in Seq(PadRequests) /\ requests'[p] = Tail(requests[p])
      /\ binding' = Head(requests[p]).value /\ (foreign'[p] <=> foreign[p])
      /\ UNCHANGED <<label, linked, told, early, pushing, pushes>>
  BY <1>1 DEF PadShape, PadTypeOK, SetCustom, TakeRequest, pageSide
<1>4. Head(requests[p]) = requests[p][1]
  BY <1>3
<1>5. foreign'[p] = foreign[p]
  BY <1>1 DEF PadShape, PadTypeOK, SetCustom
<1>6. PadPage(p)'
  BY <1>3, <1>4, <1>5, PageServed DEF IsSet
<1> QED
  BY <1>2, <1>6

LEMMA SetCustomLateKeeps ==
    ASSUME PadInv, SetCustomLate
    PROVE  \A x \in Pages : PadPage(x)'
<1>1. PadShape
  BY DEF PadInv
<1>2. \A x \in Pages : (binding' = binding /\ (foreign'[x] <=> foreign[x])) \/ foreign'[x]
  BY <1>1 DEF PadShape, PadTypeOK, SetCustomLate
<1> QED
  BY <1>2, PageKept DEF SetCustomLate, pageSide

LEMMA DoActionKeeps ==
    ASSUME PadInv, NEW p \in Pages, DoAction(p)
    PROVE  PressTells' /\ \A x \in Pages : PadPage(x)'
<1>1. PadShape /\ PadPage(p)
  BY DEF PadInv
<1>2. ASSUME NEW x \in Pages \ {p} PROVE PadPage(x)'
  BY <1>1, <1>2, PageKept DEF PadShape, PadTypeOK, DoAction, TakeRequest, pageSide
<1> DEFINE press == Head(requests[p])
<1>3. /\ requests[p] # <<>> /\ press.kind = "action" /\ pushing[p] = <<>>
      /\ requests[p] \in Seq(PadRequests) /\ requests'[p] = Tail(requests[p])
      /\ UNCHANGED <<binding, label, linked, told, early, pushing, pushes, foreign>>
  BY <1>1 DEF PadShape, PadTypeOK, DoAction, TakeRequest, pageSide
<1>4. press = requests[p][1] /\ 1 \in DOMAIN requests[p]
  BY <1>3
<1>5. PadPage(p)'
  <2>1. press.kind # "attach" /\ ~IsSet(press)
    BY <1>3 DEF IsSet
  <2> QED
    BY <1>3, <1>4, <2>1, PageServed
<1>6. /\ lastPress'.meant = press.value /\ lastPress'.typed = binding.text
      /\ lastPress'.bytes = IF binding.keys = <<>> THEN NoBytes ELSE encodeKey(binding.keys[1])
      /\ lastPress'.excused <=> press.excused \/ foreign[p]
  BY DEF DoAction
<1>7. ASSUME ~lastPress'.excused
      PROVE  press.value = binding /\ ~binding.text
  <2>1. ~press.value.text /\ BoundBefore(requests[p], binding, 1, press.value)
    BY <1>1, <1>3, <1>4, <1>6, <1>7 DEF PadPage, Pressed
  <2> QED
    BY <2>1 DEF BoundBefore
<1>8. binding.keys # <<>> => encodeKey(binding.keys[1]) = encodeTeaKey(binding.keys[1])
  BY <1>1, ButtonsAgree DEF PadShape, PadTypeOK
<1>9. PressTells'
  BY <1>6, <1>7, <1>8 DEF PressTells
<1> QED
  BY <1>2, <1>5, <1>9

LEMMA PadInductive ==
    PadInv /\ [PadNext]_padVars => PadInv'
<1> SUFFICES ASSUME PadInv, [PadNext]_padVars PROVE PadInv'
  OBVIOUS
<1> USE DEF PadInv
<1>0. ASSUME UNCHANGED lastPress PROVE PressTells'
  BY <1>0 DEF PressTells
<1>1. CASE UNCHANGED padVars
  <2>1. PadShape'
    BY <1>1 DEF padVars, pageSide, padBounds, PadShape, PadTypeOK
  <2>2. \A x \in Pages : PadPage(x)'
    BY <1>1, PageKept DEF padVars, pageSide
  <2> QED
    BY <1>0, <1>1, <2>1, <2>2 DEF padVars
<1>2. CASE PadNext
  <2>1. PadShape'
    BY <1>2, PadShapeKept
  <2>2. ASSUME NEW p \in Pages, AttachPad(p) PROVE PadInv'
    BY <1>0, <2>1, <2>2, AttachPadKeeps DEF AttachPad
  <2>3. ASSUME NEW p \in Pages, LosePad(p) PROVE PadInv'
    BY <1>0, <2>1, <2>3, LosePadKeeps DEF LosePad
  <2>4. ASSUME NEW p \in Pages, Rebind(p) PROVE PadInv'
    BY <1>0, <2>1, <2>4, RebindKeeps DEF Rebind
  <2>5. ASSUME NEW p \in Pages, PressButton(p) PROVE PadInv'
    BY <1>0, <2>1, <2>5, PressButtonKeeps DEF PressButton
  <2>6. ASSUME NEW p \in Pages, PushedLabel(p) PROVE PadInv'
    BY <1>0, <2>1, <2>6, PushedLabelKeeps DEF PushedLabel
  <2>7. ASSUME NEW p \in Pages, ReadBinding(p) PROVE PadInv'
    BY <1>0, <2>1, <2>7, ReadBindingKeeps DEF ReadBinding
  <2>8. ASSUME NEW p \in Pages, PushBinding(p) PROVE PadInv'
    BY <1>0, <2>1, <2>8, PushBindingKeeps DEF PushBinding
  <2>9. ASSUME NEW p \in Pages, SetCustom(p) PROVE PadInv'
    BY <1>0, <2>1, <2>9, SetCustomKeeps DEF SetCustom
  <2>10. ASSUME NEW p \in Pages, DoAction(p) PROVE PadInv'
    BY <2>1, <2>10, DoActionKeeps
  <2>11. CASE SetCustomLate
    BY <1>0, <2>1, <2>11, SetCustomLateKeeps DEF SetCustomLate
  <2> QED
    BY <1>2, <2>2, <2>3, <2>4, <2>5, <2>6, <2>7, <2>8, <2>9, <2>10, <2>11 DEF PadNext
<1> QED
  BY <1>1, <1>2

\* PadInv holds of every behaviour of the pads, whatever pages there are and however
\* often they attach, rebind and press.
THEOREM PadsCorrect == PadSpec => []PadInv
<1>1. PadInit => PadInv
  BY PadAtFirst
<1> QED
  BY <1>1, PadInductive, PTL DEF PadSpec

\* A page's button shows what the session's is bound to as soon as its attach was
\* answered, and what a press writes is what the key on the label is at the desk.
THEOREM PadIsTrue == PadSpec => []PadTellsBinding
<1>1. PadInv => PadTellsBinding
  <2> SUFFICES ASSUME PadInv PROVE PadTellsBinding
    OBVIOUS
  <2>1. ASSUME NEW p \in Pages, linked[p], Certain(p), ~foreign[p], requests[p] = <<>>
        PROVE  label[p] = binding
    <3>1. BoundBefore(<<>>, binding, Len(<<>>) + 1, label[p])
      BY <2>1 DEF PadInv, PadPage, Copied, Certain
    <3>2. \A j \in 1 .. (Len(<<>>) + 1) - 1 : FALSE
      OBVIOUS
    <3> QED
      BY <3>1, <3>2 DEF BoundBefore
  <2> QED
    BY <2>1, DeskAndPad DEF PadTellsBinding, PadInv, PressTells
<1> QED
  BY <1>1, PadsCorrect, PTL

--------------------------------------------------------------------------------
(* Side by side.                                                                *)

\* A step of one model is a step of it and of no other.
LEMMA OneMoves ==
    [SideNext]_sideVars =>
        /\ [Next]_vars /\ [InputNext]_inputVars /\ [RpcNext]_rpcVars
        /\ [TitlesNext]_titlesVars /\ [PadNext]_padVars
<1> SUFFICES ASSUME [SideNext]_sideVars
             PROVE  /\ [Next]_vars /\ [InputNext]_inputVars /\ [RpcNext]_rpcVars
                    /\ [TitlesNext]_titlesVars /\ [PadNext]_padVars
  OBVIOUS
<1>1. CASE UNCHANGED sideVars
  BY <1>1 DEF sideVars
<1>2. ASSUME NEW s \in Starters,
             \/ StartupDoes(Begin(s)) \/ StartupDoes(CheckWeb(s))
             \/ StartupDoes(EnsureDaemon(s)) \/ StartupDoes(WaitDaemon(s))
             \/ StartupDoes(EnsureWeb(s)) \/ StartupDoes(ProbeWeb(s))
             \/ StartupDoes(PortTaken(s)) \/ StartupDoes(RespawnWeb(s))
             \/ StartupDoes(WaitWeb(s)) \/ StartupDoes(TimeOut(s))
             \/ StartupDoes(Unlink(s)) \/ StartupDoes(Bind(s))
             \/ StartupDoes(CloseListener(s)) \/ StartupDoes(DaemonDies(s))
             \/ StartupDoes(WebBinds(s)) \/ StartupDoes(WritesInfo(s))
             \/ StartupDoes(WebDies(s))
      PROVE  StartupDoes(Next)
  BY <1>2 DEF StartupDoes, Next
<1>3. ASSUME \/ StartupDoes(NetworkMoves) \/ StartupDoes(StopDaemons)
             \/ StartupDoes(StopWebs) \/ StartupDoes(RemoveInfo)
      PROVE  StartupDoes(Next)
  BY <1>3 DEF StartupDoes, Next
<1>4. ASSUME \/ \E e \in Ends : InputDoes(Serve(e)) \/ InputDoes(WritePiece(e))
             \/ InputDoes(PressKey) \/ InputDoes(FlagArrives) \/ InputDoes(CloseView)
             \/ InputDoes(NextJob) \/ InputDoes(SendRequest) \/ InputDoes(Tap)
             \/ InputDoes(ViewGone) \/ InputDoes(TTYCloses)
      PROVE  InputDoes(InputNext)
  BY <1>4 DEF InputDoes, InputNext
<1>5. ASSUME \/ \E g \in Callers : \/ RpcDoes(Roundtrip(g)) \/ RpcDoes(Kill(g))
                                   \/ RpcDoes(Receive(g)) \/ RpcDoes(ReadFails(g))
             \/ RpcDoes(Answer) \/ RpcDoes(Lose)
      PROVE  RpcDoes(RpcNext)
  BY <1>5 DEF RpcDoes, RpcNext
<1>6. ASSUME \/ \E v \in Viewers :
                  \/ TitlesDo(ListArrives(v)) \/ TitlesDo(Enter(v))
                  \/ TitlesDo(Subscribed(v)) \/ TitlesDo(Leave(v)) \/ TitlesDo(Reconnect(v))
                  \/ TitlesDo(PushArrives(v))
             \/ TitlesDo(AgentChanges) \/ TitlesDo(Tick) \/ TitlesDo(Scan)
             \/ TitlesDo(Compare) \/ TitlesDo(Snapshot) \/ TitlesDo(Push)
      PROVE  TitlesDo(TitlesNext)
  BY <1>6 DEF TitlesDo, TitlesNext, Watcher
<1>7. ASSUME \/ \E p \in Pages :
                  \/ PadDoes(AttachPad(p)) \/ PadDoes(LosePad(p)) \/ PadDoes(Rebind(p))
                  \/ PadDoes(PressButton(p)) \/ PadDoes(PushedLabel(p)) \/ PadDoes(ReadBinding(p))
                  \/ PadDoes(PushBinding(p)) \/ PadDoes(SetCustom(p)) \/ PadDoes(DoAction(p))
             \/ PadDoes(SetCustomLate)
      PROVE  PadDoes(PadNext)
  BY <1>7 DEF PadDoes, PadNext
<1>8. \/ UNCHANGED sideVars
      \/ StartupDoes(Next) \/ InputDoes(InputNext) \/ RpcDoes(RpcNext)
      \/ TitlesDo(TitlesNext) \/ PadDoes(PadNext)
  BY <1>2, <1>3, <1>4, <1>5, <1>6, <1>7 DEF SideNext
<1> QED
  BY <1>1, <1>8 DEF StartupDoes, InputDoes, RpcDoes, TitlesDo, PadDoes

\* What the run checks side by side are the five models as they are alone: every
\* theorem about one of them holds of the run's behaviours, for any constants.
THEOREM SideBySideIsEach ==
    SideSpec => Spec /\ InputSpec /\ RpcSpec /\ TitlesSpec /\ PadSpec
<1>1. SideInit => Init /\ InputInit /\ RpcInit /\ TitlesInit /\ PadInit
  BY DEF SideInit
<1> QED
  BY <1>1, OneMoves, PTL DEF SideSpec, Spec, InputSpec, RpcSpec, TitlesSpec, PadSpec

\* The values of all five are what their code can give them.
THEOREM SideTypes == SideSpec => []SideTypeOK
<1>1. TypeOK /\ TypedInv /\ RpcInv /\ TitlesInv /\ PadInv => SideTypeOK
  BY DEF SideTypeOK, TypedInv, RpcInv, TitlesInv, PadInv, PadShape
<1> QED
  BY <1>1, SideBySideIsEach, StartupTypes, KeysCorrect, RpcCorrect, TitlesCorrect, PadsCorrect, PTL
================================================================================
