---------------------------- MODULE ClientSession ----------------------------
(***************************************************************************)
(* client/client.go: the reconnecting WebSocket session and the delivery   *)
(* of events produced by the download and scan managers.                   *)
(*                                                                         *)
(* Three kinds of goroutine meet here: the loop of Run, the one that       *)
(* executes Close, and the managers' goroutines that call                  *)
(* sendDownloadEvent, one per message.  They share `connection' (guarded   *)
(* by connectionMu, read and used after the unlock), the bounded channel   *)
(* pendingResults and the contexts.                                        *)
(***************************************************************************)
EXTENDS Naturals, Sequences

CONSTANTS Results,      \* final results: FILE_DOWNLOAD_RESULT, virus_scan_result
          Transients,   \* progress and status messages
          None,         \* no message
          PendingSize,  \* capacity of pendingResults (32 in the source)
          MaxConns      \* bound: connections dialled in a behaviour

Messages == Results \cup Transients
Conns == 1..MaxConns
Keys == {"bound", "changed"}

ASSUME SessionAssumption ==
  /\ Results \cap Transients = {}
  /\ None \notin Messages
  /\ PendingSize \in Nat \ {0}
  /\ MaxConns \in Nat \ {0}

VARIABLES
  run,         \* control point of Run, runConnection and authenticate
  dialed,      \* connections dialled so far; the last one is the current one
  net,         \* each connection: none, up, stale (peer gone), down
  connection,  \* the published connection, 0 for nil
  disk,        \* the private key on disk: the identity's loaded at startup, or another
  signer,      \* history: the key that signed the proof sent on each connection
  accepted,    \* history: connections on which the server accepted the proof
  greeted,     \* connections that carried the initial message
  pending,     \* pendingResults
  hand,        \* the message flushPending has taken from pending
  msg,         \* each message: new, write, queue, queued, sent, dropped, refused
  snap,        \* the connection a sender read before writing
  closer,      \* progress of Close
  ctx          \* Run's context: live or done

sendVars == <<pending, msg, snap>>
authVars == <<disk, signer, accepted>>
loopVars == <<run, dialed, greeted, hand, authVars>>
vars == <<loopVars, net, connection, sendVars, closer, ctx>>

\* stopping is set by the first step of Close, eventCtx is done after the second.
stopping == closer # "idle"
eventDone == closer \notin {"idle", "stopping"}

InFlight == {m \in Messages : msg[m] \in {"write", "queue"}}

TypeOK ==
  /\ run \in {"top", "dial", "hello", "challenge", "sign", "proof", "ok", "initial", "publish", "flush", "serve",
              "teardown", "backoff", "exit", "returned"}
  /\ dialed \in 0..MaxConns
  /\ net \in [Conns -> {"none", "up", "stale", "down"}]
  /\ connection \in 0..MaxConns
  /\ disk \in Keys /\ signer \in [Conns -> Keys \cup {"none"}] /\ accepted \in SUBSET Conns
  /\ greeted \in SUBSET Conns
  /\ pending \in Seq(Results) /\ Len(pending) \in 0..PendingSize
  /\ hand \in Results \cup {None}
  /\ msg \in [Messages -> {"new", "write", "queue", "queued", "sent", "dropped", "refused"}]
  /\ snap \in [Messages -> 0..MaxConns]
  /\ closer \in {"idle", "stopping", "cancelled", "hungup", "joined"}
  /\ ctx \in {"live", "done"}

Init ==
  /\ run = "top"
  /\ dialed = 0
  /\ net = [n \in Conns |-> "none"]
  /\ connection = 0
  /\ greeted = {} /\ accepted = {}
  /\ disk = "bound" /\ signer = [n \in Conns |-> "none"]
  /\ pending = <<>>
  /\ hand = None
  /\ msg = [m \in Messages |-> "new"]
  /\ snap = [m \in Messages |-> 0]
  /\ closer = "idle"
  /\ ctx = "live"

-----------------------------------------------------------------------------
(* sendDownloadEvent, called by a goroutine of a manager.                  *)

\* Refused while stopping, otherwise `connection' is read under the lock.
SendStart(m) ==
  /\ msg[m] = "new"
  /\ closer # "joined"
  /\ snap' = [snap EXCEPT ![m] = IF stopping THEN 0 ELSE connection]
  /\ msg' = [msg EXCEPT ![m] = IF stopping THEN "refused"
                               ELSE IF connection = 0 THEN "queue" ELSE "write"]
  /\ UNCHANGED <<loopVars, net, connection, pending, closer, ctx>>

\* writeJSON on the connection that was read.  A stale one swallows the message
\* or lets the write time out; a failed write leaves the connection closed.
SendWrite(m) ==
  /\ msg[m] = "write"
  /\ \/ /\ net[snap[m]] \in {"up", "stale"}
        /\ ~eventDone
        /\ msg' = [msg EXCEPT ![m] = "sent"]
        /\ UNCHANGED net
     \/ /\ net[snap[m]] \in {"stale", "down"} \/ eventDone
        /\ msg' = [msg EXCEPT ![m] = "queue"]
        /\ net' = [net EXCEPT ![snap[m]] = "down"]
  /\ UNCHANGED <<loopVars, connection, pending, snap, closer, ctx>>

\* A final result goes to pendingResults unless that is full; the rest is dropped.
SendQueue(m) ==
  /\ msg[m] = "queue"
  /\ IF m \in Results /\ Len(pending) < PendingSize
     THEN pending' = Append(pending, m) /\ msg' = [msg EXCEPT ![m] = "queued"]
     ELSE pending' = pending /\ msg' = [msg EXCEPT ![m] = "dropped"]
  /\ UNCHANGED <<loopVars, net, connection, snap, closer, ctx>>

sendDownloadEvent(m) == SendStart(m) \/ SendWrite(m) \/ SendQueue(m)

-----------------------------------------------------------------------------
(* Run and runConnection.                                                  *)

At(from, to) == run = from /\ run' = to

\* The head of the loop looks at ctx; the bound stands for "not yet redialled".
LoopHead ==
  /\ \/ ctx = "done" /\ At("top", "exit")
     \/ ctx = "live" /\ dialed < MaxConns /\ At("top", "dial")
  /\ UNCHANGED <<authVars, dialed, greeted, hand, net, connection, sendVars, closer, ctx>>

\* runConnection ends without having published: the raw connection is closed.
Abort ==
  /\ run' = "backoff"
  /\ net' = IF run = "dial" THEN net ELSE [net EXCEPT ![dialed] = "down"]

\* websocket.Dial succeeds, or runConnection returns its error.
Dial ==
  /\ run = "dial"
  /\ \/ /\ ctx = "live"
        /\ run' = "hello"
        /\ dialed' = dialed + 1
        /\ net' = [net EXCEPT ![dialed + 1] = "up"]
     \/ Abort /\ UNCHANGED dialed
  /\ UNCHANGED <<authVars, greeted, hand, connection, sendVars, closer, ctx>>

\* A step of authenticate, on a live connection and before its deadline; every
\* step may also fail, and ends the connection.
AuthStep(from, to) ==
  /\ run = from /\ net[dialed] = "up" /\ ctx = "live"
  /\ run' = to /\ UNCHANGED net

AuthFails == run \in {"hello", "challenge", "sign", "proof", "ok"} /\ Abort

\* auth_hello and auth_proof are written.
SendAuth ==
  /\ AuthStep("hello", "challenge") \/ AuthStep("proof", "ok")
  /\ UNCHANGED <<authVars, dialed, greeted, hand, connection, sendVars, closer, ctx>>

\* The server sends a challenge, an acceptance or something else at any time;
\* only the message whose turn it is, well-formed and of this version, is taken.
ReadAuth(kind) ==
  /\ \/ kind = "challenge" /\ AuthStep("challenge", "sign") /\ UNCHANGED accepted
     \/ kind = "ok" /\ AuthStep("ok", "initial") /\ accepted' = accepted \cup {dialed}
     \/ run = "challenge" /\ kind # "challenge" /\ Abort /\ UNCHANGED accepted
     \/ run = "ok" /\ kind # "ok" /\ Abort /\ UNCHANGED accepted
  /\ UNCHANGED <<disk, signer, dialed, greeted, hand, connection, sendVars, closer, ctx>>

\* Mutant: The key on disk is used whatever it is.
SignUnbound ==
  /\ AuthStep("sign", "proof") /\ signer' = [signer EXCEPT ![dialed] = disk]
  /\ UNCHANGED <<disk, accepted, dialed, greeted, hand, connection, sendVars, closer, ctx>>

\* The key is loaded from disk for this one signature; another one than that of
\* the identity loaded at startup is refused.
Sign ==
  /\ IF disk = "bound"
     THEN AuthStep("sign", "proof") /\ signer' = [signer EXCEPT ![dialed] = disk]
     ELSE run = "sign" /\ Abort /\ UNCHANGED signer
  /\ UNCHANGED <<disk, accepted, dialed, greeted, hand, connection, sendVars, closer, ctx>>

Authenticate ==
  \/ SendAuth \/ Sign \/ \E kind \in {"challenge", "ok", "other"} : ReadAuth(kind)
  \/ AuthFails
     /\ UNCHANGED <<authVars, dialed, greeted, hand, connection, sendVars, closer, ctx>>

\* The initial message is written before the connection is published.
WriteInitial ==
  /\ run = "initial"
  /\ \/ /\ net[dialed] \in {"up", "stale"} /\ ctx = "live"
        /\ greeted' = greeted \cup {dialed}
        /\ run' = "publish" /\ UNCHANGED net
     \/ Abort /\ UNCHANGED greeted
  /\ UNCHANGED <<authVars, dialed, hand, connection, sendVars, closer, ctx>>

\* c.connection = conn.
PublishConnection ==
  /\ At("publish", "flush")
  /\ connection' = dialed
  /\ UNCHANGED <<authVars, dialed, greeted, hand, net, sendVars, closer, ctx>>

\* flushPending takes the next message, or ends when the channel is empty.
FlushTake ==
  /\ run = "flush"
  /\ hand = None
  /\ IF pending = <<>>
     THEN run' = "serve" /\ UNCHANGED <<hand, pending>>
     ELSE run' = run /\ hand' = Head(pending) /\ pending' = Tail(pending)
  /\ UNCHANGED <<authVars, dialed, greeted, net, connection, msg, snap, closer, ctx>>

\* Mutant: A message that could not be flushed is not put back.
FlushWriteLoses ==
  /\ run = "flush"
  /\ hand # None
  /\ hand' = None
  /\ \/ /\ net[dialed] \in {"up", "stale"} /\ ctx = "live"
        /\ msg' = [msg EXCEPT ![hand] = "sent"]
        /\ UNCHANGED run
     \/ /\ net[dialed] = "down" \/ ctx = "done"
        /\ run' = "serve"
        /\ UNCHANGED msg
  /\ UNCHANGED <<authVars, dialed, greeted, net, connection, pending, snap, closer, ctx>>

\* It writes the message; on an error it puts it back, if there is room, and ends.
FlushWrite ==
  /\ run = "flush"
  /\ hand # None
  /\ hand' = None
  /\ \/ /\ net[dialed] \in {"up", "stale"} /\ ctx = "live"
        /\ msg' = [msg EXCEPT ![hand] = "sent"]
        /\ UNCHANGED <<run, pending>>
     \/ /\ net[dialed] = "down" \/ ctx = "done"
        /\ run' = "serve"
        /\ IF Len(pending) < PendingSize
           THEN pending' = Append(pending, hand) /\ msg' = msg
           ELSE pending' = pending /\ msg' = [msg EXCEPT ![hand] = "dropped"]
  /\ UNCHANGED <<authVars, dialed, greeted, net, connection, snap, closer, ctx>>

\* Mutant: Only the connection ends the read loop, not the context.
ServeEndsOnError ==
  /\ At("serve", "teardown")
  /\ net[dialed] = "down"
  /\ UNCHANGED <<authVars, dialed, greeted, hand, net, connection, sendVars, closer, ctx>>

\* The read loop ends on a dead connection or a cancelled context; the deferred
\* calls cancel runCtx, hang up and join the connection's goroutines ...
ServeEnds ==
  /\ At("serve", "teardown")
  /\ net[dialed] = "down" \/ ctx = "done"
  /\ net' = [net EXCEPT ![dialed] = "down"]
  /\ UNCHANGED <<authVars, dialed, greeted, hand, connection, sendVars, closer, ctx>>

\* ... and then withdraw the connection.
Unpublish ==
  /\ At("teardown", "backoff")
  /\ connection' = IF connection = dialed THEN 0 ELSE connection
  /\ UNCHANGED <<authVars, dialed, greeted, hand, net, sendVars, closer, ctx>>

\* The look at ctx after runConnection and retry.Wait.
BackoffEnds ==
  /\ At("backoff", IF ctx = "done" THEN "exit" ELSE "top")
  /\ UNCHANGED <<authVars, dialed, greeted, hand, net, connection, sendVars, closer, ctx>>

\* The deferred c.Close: Run returns when the one execution of Close is over.
RunReturns ==
  /\ At("exit", "returned")
  /\ closer = "joined"
  /\ UNCHANGED <<authVars, dialed, greeted, hand, net, connection, sendVars, closer, ctx>>

Run == LoopHead \/ Dial \/ Authenticate \/ WriteInitial \/ PublishConnection
       \/ FlushTake \/ FlushWrite \/ ServeEnds \/ Unpublish \/ BackoffEnds \/ RunReturns

-----------------------------------------------------------------------------
(* Close, and the environment.                                             *)

\* Close step by step: stopping, eventCancel, hang up, join the managers.
Close ==
  /\ \/ /\ closer = "idle" /\ ctx = "done"
        /\ closer' = "stopping" /\ UNCHANGED net
     \/ /\ closer = "stopping"
        /\ closer' = "cancelled" /\ UNCHANGED net
     \/ /\ closer = "cancelled"
        /\ closer' = "hungup"
        /\ net' = IF connection = 0 THEN net ELSE [net EXCEPT ![connection] = "down"]
     \/ /\ closer = "hungup"
        /\ InFlight = {}
        /\ closer' = "joined" /\ UNCHANGED net
  /\ UNCHANGED <<loopVars, connection, sendVars, ctx>>

\* The runtime stops: Run's context is cancelled (context.AfterFunc starts Close).
Cancel ==
  /\ ctx = "live"
  /\ ctx' = "done"
  /\ UNCHANGED <<loopVars, net, connection, sendVars, closer>>

\* The network loses a connection, noticed or not, or notices it later.
Break(n) ==
  /\ net[n] \in {"up", "stale"}
  /\ \E s \in {"stale", "down"} \ {net[n]} : net' = [net EXCEPT ![n] = s]
  /\ UNCHANGED <<loopVars, connection, sendVars, closer, ctx>>

\* An administrator changes the key on disk while the agent runs.
ChangeKey ==
  /\ disk = "bound" /\ disk' = "changed"
  /\ UNCHANGED <<run, dialed, greeted, hand, signer, accepted, net, connection, sendVars,
                 closer, ctx>>

\* heartbeat, which runs beside the read loop: a ping without an answer closes
\* the connection.
Heartbeat ==
  /\ run = "serve"
  /\ net[dialed] = "stale"
  /\ net' = [net EXCEPT ![dialed] = "down"]
  /\ UNCHANGED <<loopVars, connection, sendVars, closer, ctx>>

Stopped == run = "returned" /\ UNCHANGED vars

Next ==
  \/ Run \/ Close \/ Cancel \/ ChangeKey \/ Heartbeat \/ Stopped
  \/ \E n \in Conns : Break(n)
  \/ \E m \in Messages : sendDownloadEvent(m)

Spec == Init /\ [][Next]_vars

\* The writes of the initial message and of the flush have no timeout, and the
\* heartbeat does not run yet: on a stale connection they may block.
Blocked ==
  /\ run \in {"initial", "flush"}
  /\ net[dialed] = "stale"
  /\ ctx = "live"

\* Goroutines are scheduled; dials, authentication, events and pings have
\* timeouts and retry.Wait ends, so every other step of Run and Close is taken.
\* A manager that has begun a call finishes it.  Neither the network's failures
\* nor the end of the runtime is assumed.
Fairness ==
  /\ WF_vars(~Blocked /\ Run) /\ WF_vars(Close) /\ WF_vars(Heartbeat)
  /\ \A m \in Messages : WF_vars(SendWrite(m) \/ SendQueue(m))

FairSpec == Spec /\ Fairness

-----------------------------------------------------------------------------
(* Properties.                                                             *)

\* "Initial metadata must precede asynchronous queued job results"
\* (client.go:207): no sender, and not the flush, holds a connection on which
\* the initial message was not written.  And that message goes only to a server
\* that accepted a proof made with the identity loaded at startup, "even if an
\* administrator changes the on-disk key" (runtime.go:194).
InitialFirst ==
  /\ TypeOK
  /\ \A n \in greeted : n \in accepted /\ signer[n] = "bound"
  /\ connection # 0 => connection \in greeted
  /\ \A m \in Messages : msg[m] = "write" => snap[m] \in greeted
  /\ run = "flush" => dialed \in greeted

\* A queued result is in exactly one place, the channel or the flusher's hand,
\* once: it is neither forgotten nor sent twice by the agent's own doing, even
\* when flushPending fails half way and puts a message back (client.go:107-114).
QueuedOnce ==
  /\ \A i, j \in 1..Len(pending) : pending[i] = pending[j] => i = j
  /\ \A r \in Results :
       msg[r] = "queued" <=> (\E i \in 1..Len(pending) : pending[i] = r) \/ hand = r
  /\ hand # None => \A i \in 1..Len(pending) : pending[i] # hand

\* Nothing of the session is left: no published or open connection, and no
\* manager goroutine still sending.
Quiet ==
  /\ connection = 0
  /\ \A n \in Conns : net[n] \in {"none", "down"}
  /\ InFlight = {}

\* Cancelling the runtime's context always makes Run return, wherever the loop,
\* Close and the senders were: Close reading a nil connection just before it is
\* published, or a sender writing to a connection just hung up, blocks nobody.
\* And when it has returned it has joined them all (client.go:136, 166-184).
RunTerminates ==
  /\ ctx = "done" ~> run = "returned"
  /\ [](run = "returned" => Quiet)

\* The read loop runs on a working connection.
Serving == run = "serve" /\ net[dialed] = "up"

\* "... the final result is kept in the in-memory queue and sent after
\* reconnecting" (docs/virus-scan.md:59): a result that is queued while a
\* connection is up leaves the queue, unless that connection is lost or the
\* runtime stops.
QueuedIsSent ==
  \A r \in Results :
    (msg[r] = "queued" /\ Serving) ~> (msg[r] # "queued" \/ ~Serving \/ ctx = "done")
=============================================================================
