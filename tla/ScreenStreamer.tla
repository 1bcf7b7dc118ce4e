--------------------------- MODULE ScreenStreamer ---------------------------
(***************************************************************************)
(* client/screen.go: the screen stream of one connection.                  *)
(*                                                                         *)
(* Start and Stop are called by the WebSocket reader, which is also the    *)
(* goroutine that tears the connection down; every Start that finds no     *)
(* stream spawns a capture goroutine (a generation), which may end by      *)
(* itself when a frame cannot be written.                                  *)
(***************************************************************************)
EXTENDS Naturals

CONSTANT MaxStarts   \* bound: generations on one connection

Generations == 1..MaxStarts

VARIABLES
  streaming,  \* s.streaming: "no" or "yes"
  done,       \* s.done and s.cancel: the generation they belong to, or 0
  cancelled,  \* generations whose context is cancelled
  gpc,        \* each capture goroutine
  reader,     \* idle, waiting in Stop, tearing down, or gone
  waiting,    \* the done channel Stop waits on, or 0
  conn,       \* the connection: up or down
  want        \* history: the last command the reader has completed

vars == <<streaming, done, cancelled, gpc, reader, waiting, conn, want>>

\* Goroutines that still may touch the screen or the connection.
Capturing == {"select", "capture", "write"}

TypeOK ==
  /\ streaming \in {"no", "yes"}
  /\ done \in Generations \cup {0}
  /\ cancelled \subseteq Generations
  /\ gpc \in [Generations -> Capturing \cup {"none", "leave", "close", "gone"}]
  /\ reader \in {"idle", "stop", "teardown", "join", "gone"}
  /\ waiting \in Generations \cup {0}
  /\ conn \in {"up", "down"}
  /\ want \in {"start", "stop"}

Init ==
  /\ streaming = "no" /\ done = 0 /\ cancelled = {}
  /\ gpc = [g \in Generations |-> "none"]
  /\ reader = "idle" /\ waiting = 0
  /\ conn = "up" /\ want = "stop"

-----------------------------------------------------------------------------
(* The reader.                                                             *)

\* Mutant: Start is not idempotent.
StartAgain ==
  /\ reader = "idle"
  /\ want' = "start"
  /\ \E g \in Generations :
       /\ gpc[g] = "none" /\ \A h \in 1..(g - 1) : gpc[h] # "none"
       /\ streaming' = "yes" /\ done' = g
       /\ gpc' = [gpc EXCEPT ![g] = "select"]
  /\ UNCHANGED <<cancelled, reader, waiting, conn>>

Start ==
  /\ reader = "idle"
  /\ want' = "start"
  /\ \/ streaming = "yes" /\ UNCHANGED <<streaming, done, gpc>>
     \/ /\ streaming = "no"
        /\ \E g \in Generations :
             /\ gpc[g] = "none" /\ \A h \in 1..(g - 1) : gpc[h] # "none"
             /\ streaming' = "yes" /\ done' = g
             /\ gpc' = [gpc EXCEPT ![g] = "select"]
  /\ UNCHANGED <<cancelled, reader, waiting, conn>>

\* Stop: the handles are read under the mutex, then cancelled and waited for.
Stop(next) ==
  \/ /\ streaming = "no"
     /\ reader' = (IF next = "stop" THEN "idle" ELSE "gone")
     /\ want' = "stop"
     /\ UNCHANGED <<cancelled, waiting>>
  \/ /\ streaming = "yes"
     /\ cancelled' = cancelled \cup {done}
     /\ waiting' = done
     /\ reader' = next
     /\ UNCHANGED want

StopCommand ==
  /\ reader = "idle"
  /\ Stop("stop")
  /\ UNCHANGED <<streaming, done, gpc, conn>>

\* runConnection's deferred function: cancel, CloseNow, then Stop.
Teardown ==
  /\ reader = "idle"
  /\ reader' = "teardown"
  /\ cancelled' = Generations
  /\ conn' = "down"
  /\ UNCHANGED <<streaming, done, gpc, waiting, want>>

TeardownStop ==
  /\ reader = "teardown"
  /\ Stop("join")
  /\ UNCHANGED <<streaming, done, gpc, conn>>

\* Mutant: Stop cancels and does not wait.
StopUnjoined ==
  /\ reader \in {"stop", "join"}
  /\ reader' = IF reader = "stop" THEN "idle" ELSE "gone"
  /\ waiting' = 0
  /\ want' = "stop"
  /\ UNCHANGED <<streaming, done, cancelled, gpc, conn>>

\* <-done.
StopReturns ==
  /\ reader \in {"stop", "join"}
  /\ gpc[waiting] = "gone"
  /\ reader' = IF reader = "stop" THEN "idle" ELSE "gone"
  /\ waiting' = 0
  /\ want' = "stop"
  /\ UNCHANGED <<streaming, done, cancelled, gpc, conn>>

-----------------------------------------------------------------------------
(* The capture goroutine.                                                  *)

Goto(g, label) == gpc' = [gpc EXCEPT ![g] = label]

\* select between the ticker and the context; both may be ready.
Tick(g) ==
  /\ gpc[g] = "select"
  /\ \/ Goto(g, "capture")
     \/ g \in cancelled /\ Goto(g, "leave")
  /\ UNCHANGED <<streaming, done, cancelled, reader, waiting, conn, want>>

\* A capture takes no context; a failed one is retried at the next tick.
Capture(g) ==
  /\ gpc[g] = "capture"
  /\ Goto(g, "write") \/ Goto(g, "select")
  /\ UNCHANGED <<streaming, done, cancelled, reader, waiting, conn, want>>

\* A frame that cannot be written ends the goroutine.
Write(g) ==
  /\ gpc[g] = "write"
  /\ \/ conn = "up" /\ g \notin cancelled /\ Goto(g, "select")
     \/ Goto(g, "leave")
  /\ UNCHANGED <<streaming, done, cancelled, reader, waiting, conn, want>>

\* The deferred function: the handles are cleared under the mutex ...
Leave(g) ==
  /\ gpc[g] = "leave"
  /\ IF done = g
     THEN streaming' = "no" /\ done' = 0
     ELSE UNCHANGED <<streaming, done>>
  /\ Goto(g, "close")
  /\ UNCHANGED <<cancelled, reader, waiting, conn, want>>

\* ... and the channel is closed after it.
CloseDone(g) ==
  /\ gpc[g] = "close"
  /\ Goto(g, "gone")
  /\ UNCHANGED <<streaming, done, cancelled, reader, waiting, conn, want>>

run(g) == Tick(g) \/ Capture(g) \/ Write(g) \/ Leave(g) \/ CloseDone(g)

\* The socket breaks under the stream.
Break ==
  /\ conn = "up"
  /\ conn' = "down"
  /\ UNCHANGED <<streaming, done, cancelled, gpc, reader, waiting, want>>

\* runCtx, the parent of every generation's context, is cancelled from above.
CancelRun ==
  /\ cancelled # Generations
  /\ cancelled' = Generations
  /\ UNCHANGED <<streaming, done, gpc, reader, waiting, conn, want>>

Next ==
  \/ Start \/ StopCommand \/ Teardown \/ TeardownStop \/ StopReturns \/ Break \/ CancelRun
  \/ \E g \in Generations : run(g)

Spec == Init /\ [][Next]_vars

-----------------------------------------------------------------------------
(* Properties.                                                             *)

\* One capture goroutine at a time ("Start is idempotent"), known to the
\* streamer while it runs: a Start that races the end of the old goroutine
\* never loses the handles of the new one.
OneStream ==
  /\ TypeOK
  /\ \A g \in Generations : gpc[g] \in Capturing \cup {"leave"} =>
       /\ streaming = "yes" /\ done = g
       /\ \A h \in Generations \ {g} : gpc[h] \notin Capturing \cup {"leave"}

\* "Stop cancels capture/encoding/writes and waits": once Stop has returned,
\* in answer to a command or in the teardown, nothing captures or writes.
StopMeansStopped ==
  want = "stop" \/ reader = "gone" => \A g \in Generations : gpc[g] \notin Capturing
=============================================================================
