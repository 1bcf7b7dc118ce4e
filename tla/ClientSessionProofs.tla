------------------------- MODULE ClientSessionProofs -------------------------
(* Proofs about the session: whom the initial message goes to and what it  *)
(* precedes, that a queued result is in one place, and what is left of the *)
(* session when Run has returned.                                          *)
EXTENDS ClientSession, SequenceTheorems, TLAPS

\* What the loop has behind it on the current connection.  A proof was signed
\* with the identity's key, the server has accepted it, the initial message is
\* out: each is needed to take the next step, and none is in InitialFirst.
Progress ==
  /\ run = "dial" => dialed < MaxConns
  /\ run \notin {"top", "dial", "backoff", "exit", "returned"} => dialed \in Conns
  /\ run \in {"proof", "ok", "initial"} => signer[dialed] = "bound"
  /\ run = "initial" => dialed \in accepted
  /\ run = "publish" => dialed \in greeted

Inv == InitialFirst /\ QueuedOnce /\ Progress

\* The channel and the messages, which most steps leave alone.
queueVars == <<pending, hand, msg>>

\* Nothing is dialled and nothing queued.
LEMMA InitInv == Init => Inv
<1> SUFFICES ASSUME Init PROVE Inv
  OBVIOUS
<1>1. TypeOK
  <2>1. pending \in Seq(Results) /\ Len(pending) = 0
    BY EmptySeq DEF Init
  <2>2. dialed \in 0..MaxConns /\ connection \in 0..MaxConns /\ snap \in [Messages -> 0..MaxConns]
        /\ Len(pending) \in 0..PendingSize
    BY <2>1, SessionAssumption DEF Init
  <2> QED BY <2>1, <2>2 DEF Init, TypeOK, Keys
<1>2. InitialFirst /\ Progress
  BY <1>1 DEF Init, InitialFirst, Progress
<1>3. QueuedOnce
  BY SessionAssumption DEF Init, QueuedOnce, Messages
<1> QED BY <1>2, <1>3 DEF Inv

\* Where nothing is queued, taken, sent or dropped, results stay where they are.
LEMMA QueueIdle == ASSUME QueuedOnce, UNCHANGED queueVars PROVE QueuedOnce'
BY DEF QueuedOnce, queueVars

\* What the channel holds after a message was put into it.
LEMMA QueueGrows ==
  ASSUME TypeOK
  PROVE  \A r \in Results : Len(pending) < PendingSize /\ pending' = Append(pending, r) =>
           /\ pending' \in Seq(Results)
           /\ Len(pending) \in Nat /\ Len(pending') = Len(pending) + 1
           /\ Len(pending') \in 0..PendingSize
           /\ pending'[Len(pending) + 1] = r
           /\ \A i \in 1..Len(pending) : pending'[i] = pending[i]
<1> SUFFICES ASSUME NEW r \in Results,
                    Len(pending) < PendingSize /\ pending' = Append(pending, r)
             PROVE  /\ pending' \in Seq(Results)
                    /\ Len(pending) \in Nat /\ Len(pending') = Len(pending) + 1
                    /\ Len(pending') \in 0..PendingSize
                    /\ pending'[Len(pending) + 1] = r
                    /\ \A i \in 1..Len(pending) : pending'[i] = pending[i]
  OBVIOUS
<1>1. pending \in Seq(Results) /\ Len(pending) \in 0..PendingSize /\ PendingSize \in Nat
  BY SessionAssumption DEF TypeOK
<1>2. /\ Append(pending, r) \in Seq(Results)
      /\ Len(Append(pending, r)) = Len(pending) + 1
      /\ \A i \in 1..Len(pending) : Append(pending, r)[i] = pending[i]
      /\ Append(pending, r)[Len(pending) + 1] = r
  BY <1>1, AppendProperties
<1> QED BY <1>1, <1>2

\* A new message in the channel, which was in neither place, is there once.
LEMMA QueuedNew ==
  ASSUME TypeOK, QueuedOnce
  PROVE  \A r \in Results :
           /\ Len(pending) < PendingSize /\ pending' = Append(pending, r)
           /\ hand' \in {hand, None} /\ hand' # r
           /\ \A i \in 1..Len(pending) : pending[i] # r
           /\ \A s \in Results : msg'[s] = "queued" <=> msg[s] = "queued" \/ s = r
           /\ hand' = hand \/ hand = r
           => QueuedOnce'
<1> SUFFICES ASSUME NEW r \in Results,
                    Len(pending) < PendingSize /\ pending' = Append(pending, r),
                    hand' \in {hand, None} /\ hand' # r,
                    \A i \in 1..Len(pending) : pending[i] # r,
                    \A s \in Results : msg'[s] = "queued" <=> msg[s] = "queued" \/ s = r,
                    hand' = hand \/ hand = r
             PROVE  QueuedOnce'
  OBVIOUS
<1>1. /\ Len(pending) \in Nat /\ Len(pending') = Len(pending) + 1
      /\ pending'[Len(pending) + 1] = r
      /\ \A i \in 1..Len(pending) : pending'[i] = pending[i]
  BY QueueGrows
<1>2. \A i \in 1..Len(pending') : i \in 1..Len(pending) \/ i = Len(pending')
  BY <1>1
<1>3. /\ \A i \in 1..Len(pending) : i \in 1..Len(pending')
      /\ Len(pending') \in 1..Len(pending')
  BY <1>1
<1>4. \A i, j \in 1..Len(pending') : pending'[i] = pending'[j] => i = j
  BY <1>1, <1>2 DEF QueuedOnce
<1>5. \A s \in Results : (\E i \in 1..Len(pending') : pending'[i] = s)
                         <=> (\E i \in 1..Len(pending) : pending[i] = s) \/ s = r
  BY <1>1, <1>2, <1>3
<1>6. r # None /\ None \notin Results
  BY SessionAssumption DEF Messages
<1>7. ASSUME NEW s \in Results
      PROVE  msg'[s] = "queued" <=> (\E i \in 1..Len(pending') : pending'[i] = s) \/ hand' = s
  BY <1>5, <1>6, <1>7 DEF QueuedOnce
<1>8. hand' # None => \A i \in 1..Len(pending') : pending'[i] # hand'
  BY <1>1, <1>2, <1>6 DEF QueuedOnce
<1> QED BY <1>4, <1>7, <1>8 DEF QueuedOnce

\* A manager's call: what it read under the lock it may write to.
LEMMA SendKeeps ==
  ASSUME Inv, NEW m \in Messages, sendDownloadEvent(m) PROVE Inv'
<1> USE DEF Inv, InitialFirst, loopVars, authVars
<1>1. CASE SendStart(m)
  <2>1. msg'[m] \in {"refused", "queue", "write"} /\ msg[m] = "new"
        /\ \A n \in Messages \ {m} : msg'[n] = msg[n] /\ snap'[n] = snap[n]
    BY <1>1 DEF SendStart, TypeOK
  <2>2. TypeOK'
    BY <1>1, SessionAssumption DEF SendStart, TypeOK
  <2>3. msg'[m] = "write" => snap'[m] = connection /\ connection # 0
    BY <1>1 DEF SendStart, TypeOK
  <2>4. InitialFirst'
    BY <1>1, <2>1, <2>2, <2>3 DEF SendStart
  <2>5. QueuedOnce'
    BY <1>1, <2>1 DEF SendStart, QueuedOnce, Messages
  <2> QED BY <1>1, <2>4, <2>5 DEF SendStart, Progress
<1>2. CASE SendWrite(m)
  <2>1. msg'[m] \in {"sent", "queue"} /\ msg[m] = "write"
        /\ \A n \in Messages \ {m} : msg'[n] = msg[n]
    BY <1>2 DEF SendWrite, TypeOK
  <2>2. TypeOK'
    BY <1>2 DEF SendWrite, TypeOK
  <2>3. InitialFirst'
    BY <1>2, <2>1, <2>2 DEF SendWrite
  <2>4. QueuedOnce'
    BY <1>2, <2>1 DEF SendWrite, QueuedOnce, Messages
  <2> QED BY <1>2, <2>3, <2>4 DEF SendWrite, Progress
<1>3. CASE SendQueue(m)
  <2>1. msg'[m] \in {"queued", "dropped"} /\ msg[m] = "queue"
        /\ \A n \in Messages \ {m} : msg'[n] = msg[n]
    BY <1>3 DEF SendQueue, TypeOK
  <2>2. TypeOK'
    BY <1>3, QueueGrows DEF SendQueue, TypeOK
  <2>3. InitialFirst'
    BY <1>3, <2>1, <2>2 DEF SendQueue
  <2>4. QueuedOnce'
    <3>1. CASE m \in Results /\ Len(pending) < PendingSize
      <4>1. /\ pending' = Append(pending, m) /\ msg'[m] = "queued" /\ hand' = hand /\ hand # m
            /\ \A i \in 1..Len(pending) : pending[i] # m
        BY <1>3, <2>1, <3>1 DEF SendQueue, QueuedOnce, TypeOK
      <4>2. \A s \in Results : msg'[s] = "queued" <=> msg[s] = "queued" \/ s = m
        BY <2>1, <4>1 DEF Messages
      <4> QED BY <3>1, <4>1, <4>2, QueuedNew
    <3>2. CASE ~(m \in Results /\ Len(pending) < PendingSize)
      <4>1. pending' = pending /\ hand' = hand /\ msg'[m] = "dropped"
        BY <1>3, <3>2 DEF SendQueue, TypeOK
      <4>2. \A s \in Results : msg'[s] = "queued" <=> msg[s] = "queued"
        BY <2>1, <4>1 DEF Messages
      <4> QED BY <4>1, <4>2 DEF QueuedOnce
    <3> QED BY <3>1, <3>2
  <2> QED BY <1>3, <2>3, <2>4 DEF SendQueue, Progress
<1> QED BY <1>1, <1>2, <1>3 DEF sendDownloadEvent

\* From the dial to the publication.
LEMMA ConnectKeeps ==
  ASSUME Inv, Dial \/ Authenticate \/ WriteInitial \/ PublishConnection PROVE Inv'
<1> USE DEF Inv, InitialFirst, Progress, sendVars, authVars
<1>1. QueuedOnce'
  BY QueueIdle DEF Dial, Authenticate, SendAuth, Sign, ReadAuth, AuthFails, WriteInitial,
                   PublishConnection, queueVars
<1>2. dialed \in Nat /\ MaxConns \in Nat
  BY SessionAssumption DEF TypeOK
<1>3. CASE Dial
  <2>1. TypeOK'
    <3>1. dialed' \in 0..MaxConns /\ run' \in {"hello", "backoff"}
      BY <1>2, <1>3 DEF Dial, Abort, TypeOK
    <3>2. net' \in [Conns -> {"none", "up", "stale", "down"}]
      BY <1>3 DEF Dial, Abort, TypeOK
    <3> QED BY <1>3, <3>1, <3>2 DEF Dial, TypeOK
  <2>2. dialed' \in 0..MaxConns /\ (run' = "hello" => dialed' \in Conns) /\ run' \in {"hello", "backoff"}
    BY <1>2, <1>3 DEF Dial, Abort, Conns, TypeOK
  <2> QED BY <1>1, <1>3, <2>1, <2>2 DEF Dial
<1>4. CASE Authenticate
  <2>1. CASE SendAuth
    BY <1>1, <2>1 DEF SendAuth, AuthStep, TypeOK
  <2>2. CASE Sign
    <3>1. CASE disk = "bound"
      <4>1. TypeOK' /\ dialed \in Conns /\ signer'[dialed] = "bound" /\ run' = "proof" /\ dialed' = dialed
            /\ \A n \in Conns \ {dialed} : signer'[n] = signer[n]
        BY <2>2, <3>1 DEF Sign, AuthStep, TypeOK, Keys
      <4> QED BY <1>1, <2>2, <3>1, <4>1 DEF Sign, TypeOK
    <3>2. CASE disk # "bound"
      BY <1>1, <2>2, <3>2 DEF Sign, Abort, TypeOK
    <3> QED BY <3>1, <3>2
  <2>3. CASE \E kind \in {"challenge", "ok", "other"} : ReadAuth(kind)
    <3>1. PICK kind \in {"challenge", "ok", "other"} : ReadAuth(kind)
      BY <2>3
    <3>2. TypeOK'
      BY <3>1 DEF ReadAuth, AuthStep, Abort, TypeOK
    <3> QED BY <1>1, <3>1, <3>2 DEF ReadAuth, AuthStep, Abort
  <2>4. CASE AuthFails /\ UNCHANGED <<authVars, dialed, greeted, hand, connection, sendVars, closer, ctx>>
    BY <1>1, <2>4 DEF AuthFails, Abort, TypeOK
  <2> QED BY <1>4, <2>1, <2>2, <2>3, <2>4 DEF Authenticate
<1>5. CASE WriteInitial
  <2>1. TypeOK'
    BY <1>5 DEF WriteInitial, Abort, TypeOK
  <2> QED BY <1>1, <1>5, <2>1 DEF WriteInitial, Abort
<1>6. CASE PublishConnection
  BY <1>1, <1>6 DEF PublishConnection, At, TypeOK
<1> QED BY <1>3, <1>4, <1>5, <1>6

\* The flush moves a result from the channel to the hand, out of it or back.
LEMMA FlushKeeps ==
  ASSUME Inv, FlushTake \/ FlushWrite PROVE Inv'
<1> USE DEF Inv, InitialFirst, Progress, authVars
<1>1. None \notin Results /\ Results \subseteq Messages /\ pending \in Seq(Results)
  BY SessionAssumption DEF Messages, TypeOK
<1>2. CASE FlushTake
  <2>1. CASE pending = <<>>
    BY <1>2, <2>1 DEF FlushTake, QueuedOnce, TypeOK
  <2>2. CASE pending # <<>>
    <3>1. /\ Len(pending) \in Nat \ {0} /\ Head(pending) = pending[1] /\ Head(pending) \in Results
          /\ Tail(pending) \in Seq(Results) /\ Len(Tail(pending)) = Len(pending) - 1
          /\ \A i \in 1..Len(Tail(pending)) : Tail(pending)[i] = pending[i + 1]
      <4>1. Len(pending) \in Nat /\ Len(pending) # 0
        BY <1>1, <2>2, EmptySeq, LenProperties
      <4>2. Tail(pending) \in Seq(Results) /\ Len(Tail(pending)) = Len(pending) - 1
            /\ Head(pending) \in Results /\ Head(pending) = pending[1]
            /\ \A i \in 1..Len(Tail(pending)) : Tail(pending)[i] = pending[i + 1]
        BY <1>1, <2>2, <4>1, HeadTailProperties
      <4> QED BY <4>1, <4>2
    <3>2. /\ hand = None /\ hand' = pending[1] /\ hand' \in Results
          /\ pending' \in Seq(Results) /\ Len(pending') = Len(pending) - 1
          /\ \A i \in 1..Len(pending') : pending'[i] = pending[i + 1]
      BY <1>2, <2>2, <3>1 DEF FlushTake
    <3>3. \A i \in 1..Len(pending') : i + 1 \in 1..Len(pending) /\ i + 1 # 1
      BY <3>1, <3>2
    <3>4. \A i \in 1..Len(pending) : i = 1 \/ (i - 1 \in 1..Len(pending') /\ (i - 1) + 1 = i)
      BY <3>1, <3>2
    <3>5. 1 \in 1..Len(pending)
      BY <3>1
    <3>6. TypeOK'
      <4>1. Len(pending') \in 0..PendingSize
        BY <3>1, <3>2, SessionAssumption DEF TypeOK
      <4> QED BY <1>2, <2>2, <3>2, <4>1 DEF FlushTake, TypeOK
    <3>7. \A s \in Results : (\E i \in 1..Len(pending) : pending[i] = s)
                             <=> (\E i \in 1..Len(pending') : pending'[i] = s) \/ s = hand'
      <4>1. ASSUME NEW s \in Results, NEW i \in 1..Len(pending), pending[i] = s, s # hand'
            PROVE  \E j \in 1..Len(pending') : pending'[j] = s
        <5>1. i - 1 \in 1..Len(pending') /\ (i - 1) + 1 = i
          BY <3>2, <3>4, <4>1
        <5>2. pending'[i - 1] = s
          BY <3>2, <4>1, <5>1
        <5> QED BY <5>1, <5>2
      <4>2. ASSUME NEW i \in 1..Len(pending')
            PROVE  \E j \in 1..Len(pending) : pending[j] = pending'[i]
        BY <3>2, <3>3, <4>2
      <4>3. \E i \in 1..Len(pending) : pending[i] = hand'
        BY <3>2, <3>5
      <4> QED BY <4>1, <4>2, <4>3
    <3>8. \A i, j \in 1..Len(pending') : pending'[i] = pending'[j] => i = j
      <4>1. ASSUME NEW i \in 1..Len(pending'), NEW j \in 1..Len(pending'), pending'[i] = pending'[j]
            PROVE  i = j
        <5>1. i + 1 = j + 1
          BY <3>2, <3>3, <4>1 DEF QueuedOnce
        <5>2. i \in Int /\ j \in Int
          BY <4>1
        <5> QED BY <5>1, <5>2
      <4> QED BY <4>1
    <3>9. \A i \in 1..Len(pending') : pending'[i] # hand'
      BY <3>2, <3>3, <3>5 DEF QueuedOnce
    <3>10. msg' = msg /\ run' = run /\ UNCHANGED <<authVars, dialed, greeted, connection, snap>>
      BY <1>2, <2>2 DEF FlushTake
    <3>11. QueuedOnce'
      <4>1. ASSUME NEW s \in Results
            PROVE  msg'[s] = "queued" <=> (\E i \in 1..Len(pending') : pending'[i] = s) \/ hand' = s
        BY <1>1, <3>2, <3>7, <3>10, <4>1 DEF QueuedOnce
      <4> QED BY <3>8, <3>9, <4>1 DEF QueuedOnce
    <3> QED BY <3>6, <3>10, <3>11
  <2> QED BY <2>1, <2>2
<1>3. CASE FlushWrite
  <2>1. /\ hand \in Results /\ hand \in Messages /\ hand' = None /\ run = "flush" /\ run' \in {"flush", "serve"}
        /\ UNCHANGED <<authVars, dialed, greeted, connection, snap, net, closer, ctx>>
        /\ msg[hand] = "queued" /\ \A i \in 1..Len(pending) : pending[i] # hand
    BY <1>1, <1>3 DEF FlushWrite, QueuedOnce, TypeOK
  <2>2. CASE UNCHANGED pending
    <3>1. /\ msg'[hand] \in {"sent", "dropped"} /\ \A n \in Messages \ {hand} : msg'[n] = msg[n]
          /\ msg' \in [Messages -> {"new", "write", "queue", "queued", "sent", "dropped", "refused"}]
      <4>1. pending # Append(pending, hand)
        <5>1. Len(Append(pending, hand)) = Len(pending) + 1 /\ Len(pending) \in Nat
          BY <1>1, <2>1, AppendProperties, LenProperties
        <5> QED BY <5>1
      <4> QED BY <1>3, <2>1, <2>2, <4>1 DEF FlushWrite, TypeOK
    <3>2. TypeOK'
      BY <2>1, <2>2, <3>1 DEF TypeOK
    <3>3. QueuedOnce'
      <4>1. ASSUME NEW s \in Results
            PROVE  msg'[s] = "queued" <=> (\E i \in 1..Len(pending') : pending'[i] = s) \/ hand' = s
        BY <1>1, <2>1, <2>2, <3>1, <4>1 DEF QueuedOnce
      <4> QED BY <2>1, <2>2, <4>1 DEF QueuedOnce
    <3> QED BY <2>1, <3>1, <3>2, <3>3
  <2>3. CASE Len(pending) < PendingSize /\ pending' = Append(pending, hand) /\ msg' = msg
    <3>1. TypeOK'
      BY <2>1, <2>3, QueueGrows DEF TypeOK
    <3>2. QueuedOnce'
      BY <1>1, <2>1, <2>3, QueuedNew
    <3> QED BY <2>1, <2>3, <3>1, <3>2
  <2> QED BY <1>3, <2>2, <2>3 DEF FlushWrite
<1> QED BY <1>2, <1>3

\* Everything else: the rest of the loop, Close and the environment.
LEMMA OthersKeep ==
  ASSUME Inv,
         \/ LoopHead \/ ServeEnds \/ Unpublish \/ BackoffEnds \/ RunReturns
         \/ Close \/ Cancel \/ ChangeKey \/ Heartbeat \/ UNCHANGED vars
         \/ \E n \in Conns : Break(n)
  PROVE  Inv'
<1> USE DEF Inv, InitialFirst, Progress, loopVars, authVars, sendVars
<1>1. QueuedOnce'
  BY QueueIdle DEF LoopHead, ServeEnds, Unpublish, BackoffEnds, RunReturns, Close, Cancel,
                   ChangeKey, Heartbeat, Break, vars, queueVars
<1>2. CASE LoopHead \/ BackoffEnds \/ RunReturns
  BY <1>1, <1>2 DEF LoopHead, BackoffEnds, RunReturns, At, TypeOK
<1>3. CASE ServeEnds
  BY <1>1, <1>3 DEF ServeEnds, At, TypeOK
<1>4. CASE Unpublish
  <2>1. connection' \in {0, connection} /\ 0 \in 0..MaxConns
    BY <1>4, SessionAssumption DEF Unpublish
  <2> QED BY <1>1, <1>4, <2>1 DEF Unpublish, At, TypeOK
<1>5. CASE Close
  <2>1. TypeOK'
    BY <1>5 DEF Close, TypeOK
  <2> QED BY <1>1, <1>5, <2>1 DEF Close
<1>6. CASE Cancel \/ ChangeKey \/ UNCHANGED vars
  BY <1>1, <1>6 DEF Cancel, ChangeKey, vars, TypeOK, Keys
<1>7. CASE Heartbeat
  BY <1>1, <1>7 DEF Heartbeat, TypeOK
<1>8. CASE \E n \in Conns : Break(n)
  <2>1. PICK n \in Conns : Break(n)
    BY <1>8
  <2>2. net' \in [Conns -> {"none", "up", "stale", "down"}]
    BY <2>1 DEF Break, TypeOK
  <2> QED BY <1>1, <2>1, <2>2 DEF Break, TypeOK
<1> QED BY <1>2, <1>3, <1>4, <1>5, <1>6, <1>7, <1>8

\* The invariant is inductive.
LEMMA SpecInv == Spec => []Inv
<1>1. Inv /\ [Next]_vars => Inv'
  BY SendKeeps, ConnectKeeps, FlushKeeps, OthersKeep DEF Next, Run, Stopped
<1> QED BY InitInv, <1>1, PTL DEF Spec

\* The initial message comes before everything else on a connection, and goes
\* only to a server that accepted the identity loaded at startup, for any number
\* of connections and messages (client.go:207, runtime.go:194).
THEOREM InitialComesFirst == Spec => []InitialFirst
<1>1. Inv => InitialFirst
  BY DEF Inv
<1> QED BY SpecInv, <1>1, PTL

\* A queued result is in the channel or in the flusher's hand, once, for any
\* number of results and any capacity of the channel (client.go:97-114).
THEOREM ResultsQueuedOnce == Spec => []QueuedOnce
<1>1. Inv => QueuedOnce
  BY DEF Inv
<1> QED BY SpecInv, <1>1, PTL

-----------------------------------------------------------------------------
(* The end of the session.                                                 *)

\* Where the loop has no connection of its own, or has hung it up.
HungUp == {"top", "dial", "teardown", "backoff", "exit", "returned"}

\* Only the last connection can be open, and only while the loop uses it; only it
\* can be published, until the loop withdraws it.
Connected ==
  /\ \A n \in Conns : net[n] \in {"none", "down"} \/ (n = dialed /\ run \notin HungUp)
  /\ connection # 0 => connection = dialed /\ run \in {"flush", "serve", "teardown"}

\* Close has joined the managers for good, and Run has waited for Close.
Joined ==
  /\ closer = "joined" => \A m \in Messages : msg[m] \notin {"write", "queue"}
  /\ run = "returned" => closer = "joined"

\* A manager's call hangs up at most, and none begins once Close has joined them.
LEMMA SendEnds ==
  ASSUME TypeOK, Connected, Joined, NEW m \in Messages, sendDownloadEvent(m)
  PROVE  Connected' /\ Joined'
<1>1. UNCHANGED <<run, dialed, connection, closer>>
  BY DEF sendDownloadEvent, SendStart, SendWrite, SendQueue, loopVars
<1>2. closer # "joined"
  BY DEF sendDownloadEvent, SendStart, SendWrite, SendQueue, Joined
<1>3. \A n \in Conns : net'[n] \in {net[n], "down"}
  BY DEF sendDownloadEvent, SendStart, SendWrite, SendQueue, TypeOK
<1> QED BY <1>1, <1>2, <1>3 DEF Connected, Joined

\* The loop opens a connection after it has hung up the one before.
LEMMA LoopEnds ==
  ASSUME TypeOK, Progress, Connected, Joined, Run PROVE Connected' /\ Joined'
<1> USE DEF Connected, Joined, HungUp, Progress, At
<1>1. dialed \in Nat /\ dialed + 1 # dialed
  BY SessionAssumption DEF TypeOK
<1>2. CASE LoopHead \/ BackoffEnds \/ RunReturns
  BY <1>2 DEF LoopHead, BackoffEnds, RunReturns, sendVars
<1>3. CASE Dial
  <2>1. /\ msg' = msg /\ closer' = closer /\ connection' = connection /\ connection = 0
        /\ \A n \in Conns : net[n] \in {"none", "down"}
    BY <1>3 DEF Dial, sendVars
  <2>2. CASE run' = "hello"
    BY <1>1, <1>3, <2>1, <2>2 DEF Dial, Abort, TypeOK
  <2>3. CASE run' = "backoff"
    BY <1>3, <2>1, <2>3 DEF Dial, Abort
  <2> QED BY <1>3, <2>2, <2>3 DEF Dial, Abort
<1>4. CASE Authenticate \/ WriteInitial
  <2>1. /\ UNCHANGED <<dialed, connection, closer, msg>> /\ connection = 0
        /\ run \notin HungUp
        /\ \/ net' = net /\ run' \notin HungUp
           \/ run' = "backoff" /\ net' = [net EXCEPT ![dialed] = "down"]
    BY <1>4 DEF Authenticate, SendAuth, Sign, ReadAuth, AuthFails, AuthStep, WriteInitial,
                Abort, sendVars
  <2>2. \A n \in Conns : net'[n] = net[n] \/ (n = dialed /\ net'[n] = "down")
    BY <2>1 DEF TypeOK
  <2>3. run' = "backoff" /\ net' = [net EXCEPT ![dialed] = "down"]
        => \A n \in Conns : net'[n] \in {"none", "down"}
    BY DEF TypeOK
  <2> QED BY <2>1, <2>2, <2>3
<1>5. CASE PublishConnection \/ FlushTake \/ FlushWrite
  <2>1. UNCHANGED <<dialed, net, closer>> /\ run \notin HungUp /\ run' \in {"flush", "serve"}
        /\ connection' \in {connection, dialed}
    BY <1>5 DEF PublishConnection, FlushTake, FlushWrite
  <2>2. \A m \in Messages : msg'[m] \in {msg[m], "sent", "dropped"}
    BY <1>5 DEF PublishConnection, FlushTake, FlushWrite, sendVars, TypeOK
  <2> QED BY <2>1, <2>2
<1>6. CASE ServeEnds
  <2>1. /\ UNCHANGED <<dialed, connection, closer, msg>> /\ run = "serve" /\ run' = "teardown"
        /\ \A n \in Conns : net'[n] = IF n = dialed THEN "down" ELSE net[n]
    BY <1>6 DEF ServeEnds, sendVars, TypeOK
  <2> QED BY <2>1
<1>7. CASE Unpublish
  BY <1>7 DEF Unpublish, sendVars
<1> QED BY <1>2, <1>3, <1>4, <1>5, <1>6, <1>7 DEF Run

\* Close hangs up and joins; the environment opens nothing.
LEMMA OthersEnd ==
  ASSUME TypeOK, Connected, Joined,
         \/ Close \/ Cancel \/ ChangeKey \/ Heartbeat \/ UNCHANGED vars
         \/ \E n \in Conns : Break(n)
  PROVE  Connected' /\ Joined'
<1>1. UNCHANGED <<run, dialed, connection, msg>>
  BY DEF Close, Cancel, ChangeKey, Heartbeat, Break, vars, loopVars, sendVars
<1>2. \A n \in Conns : net'[n] \in {net[n], "down"}
                       \/ (net[n] \notin {"none", "down"})
  BY DEF Close, Cancel, ChangeKey, Heartbeat, Break, vars, TypeOK
<1>3. closer' = "joined" => closer = "joined" \/ InFlight = {}
  BY DEF Close, Cancel, ChangeKey, Heartbeat, Break, vars
<1>4. closer = "joined" => closer' = "joined"
  BY DEF Close, Cancel, ChangeKey, Heartbeat, Break, vars
<1> QED BY <1>1, <1>2, <1>3, <1>4 DEF Connected, Joined, InFlight

\* When Run has returned, for any number of connections and messages, no
\* connection is open or published and no manager's goroutine is still sending,
\* wherever the cancellation met them (client.go:136, 166-184): the safety half
\* of RunTerminates.
THEOREM ReturnsQuiet == Spec => [](run = "returned" => Quiet)
<1>1. Init => Connected /\ Joined
  BY DEF Init, Connected, Joined
<1>2. Inv /\ Connected /\ Joined /\ [Next]_vars => Connected' /\ Joined'
  BY SendEnds, LoopEnds, OthersEnd DEF Inv, InitialFirst, Next, Stopped
<1>3. Connected /\ Joined => (run = "returned" => Quiet)
  BY DEF Connected, Joined, HungUp, Quiet, InFlight
<1> QED BY SpecInv, <1>1, <1>2, <1>3, PTL DEF Spec
=============================================================================
