----------------------------- MODULE ServiceHost -----------------------------
(***************************************************************************)
(* internal/servicehost/host_windows.go: the handler that the Windows      *)
(* Service Control Manager (SCM) runs around the agent runtime.            *)
(*                                                                         *)
(* The handler's select loop, the runtime goroutine, the SCM and the two   *)
(* timers interleave freely; with several cases ready select takes any of  *)
(* them.  The runtime may hang in an operating-system call for ever.       *)
(***************************************************************************)
EXTENDS Naturals

CONSTANT MaxRequests   \* bound: control requests waiting

VARIABLES
  status,     \* the last status reported to the SCM
  stopping,   \* beginStop has run: "no" or "yes"
  readyCh,    \* the channel ready: open, closed, or nil once taken
  startTimer, \* startupDeadline: armed, fired, taken or stopped
  stopTimer,  \* stopDeadline: none, armed or fired
  requests,   \* Stop and Shutdown requests not yet taken
  channel,    \* the channel of requests: open, closed, or nil
  runtime,    \* starting, ready, or returned: "ok" or "error"
  doneCh,     \* the channel done: empty or full
  exit        \* how the process ended: none, 0, 1 or 2, or a crash

timers == <<startTimer, stopTimer>>
scm == <<requests, channel>>
agent == <<runtime, doneCh>>
vars == <<status, stopping, readyCh, timers, scm, agent, exit>>

Codes == {"none", "0", "1", "2", "crash"}

TypeOK ==
  /\ status \in {"StartPending", "Running", "StopPending", "Stopped"}
  /\ stopping \in {"no", "yes"}
  /\ readyCh \in {"open", "closed", "nil"}
  /\ startTimer \in {"armed", "fired", "taken", "stopped"}
  /\ stopTimer \in {"none", "armed", "fired"}
  /\ requests \in 0..MaxRequests
  /\ channel \in {"open", "closed", "nil"}
  /\ runtime \in {"starting", "ready", "ok", "error"}
  /\ doneCh \in {"empty", "full"}
  /\ exit \in Codes

Init ==
  /\ status = "StartPending" /\ stopping = "no" /\ readyCh = "open"
  /\ startTimer = "armed" /\ stopTimer = "none"
  /\ requests = 0 /\ channel = "open"
  /\ runtime = "starting" /\ doneCh = "empty"
  /\ exit = "none"

\* The handler's timers and channels are those of a new process, or of none.
Fresh ==
  /\ readyCh' = "open" /\ startTimer' = "armed" /\ stopTimer' = "none"
  /\ requests' = 0 /\ channel' = "open"
  /\ doneCh' = "empty"

\* Execute returns the code, or the process dies; what it owned goes with it.
Ends(code) ==
  /\ exit' = code /\ status' = "Stopped"
  /\ Fresh
  /\ UNCHANGED <<stopping, runtime>>

-----------------------------------------------------------------------------
(* The runtime goroutine: agent.Run under the handler's context.           *)

\* ready() closes the channel once local initialization is complete.
RuntimeReady ==
  /\ runtime = "starting"
  /\ runtime' = "ready"
  /\ readyCh' = "closed"
  /\ UNCHANGED <<status, stopping, timers, scm, doneCh, exit>>

\* agent.Run returns; what it returns is the runtime's affair.
RuntimeReturns(result) ==
  /\ runtime \in {"starting", "ready"}
  /\ runtime' = result
  /\ doneCh' = "full"
  /\ UNCHANGED <<status, stopping, readyCh, timers, scm, exit>>

-----------------------------------------------------------------------------
(* The SCM and the clock.                                                  *)

\* Stop and Shutdown are delivered only to a service that accepts them.
\* Interrogate, which only repeats the status, is left out.
Control ==
  /\ exit = "none" /\ channel = "open" /\ requests < MaxRequests
  /\ status = "Running"
  /\ requests' = requests + 1
  /\ UNCHANGED <<status, stopping, readyCh, timers, channel, agent, exit>>

CloseRequests ==
  /\ exit = "none" /\ channel = "open"
  /\ channel' = "closed"
  /\ UNCHANGED <<status, stopping, readyCh, timers, requests, agent, exit>>

StartTimerFires ==
  /\ exit = "none" /\ startTimer = "armed"
  /\ startTimer' = "fired"
  /\ UNCHANGED <<status, stopping, readyCh, stopTimer, scm, agent, exit>>

StopTimerFires ==
  /\ exit = "none" /\ stopTimer = "armed"
  /\ stopTimer' = "fired"
  /\ UNCHANGED <<status, stopping, readyCh, startTimer, scm, agent, exit>>

-----------------------------------------------------------------------------
(* Execute: one action per case of the select.                             *)

\* Mutant: The stop deadline is not armed.
BeginStopUnbounded ==
  IF stopping = "yes"
  THEN UNCHANGED <<stopping, status, stopTimer>>
  ELSE stopping' = "yes" /\ status' = "StopPending" /\ UNCHANGED stopTimer

\* Idempotent: reports StopPending, cancels the context, arms the deadline.
beginStop ==
  IF stopping = "yes"
  THEN UNCHANGED <<stopping, status, stopTimer>>
  ELSE stopping' = "yes" /\ status' = "StopPending" /\ stopTimer' = "armed"

\* A timer stopped after it fired delivers nothing (Go 1.23 and later).
TakeReady ==
  /\ exit = "none" /\ readyCh = "closed"
  /\ readyCh' = "nil"
  /\ startTimer' = IF startTimer = "taken" THEN "taken" ELSE "stopped"
  /\ status' = IF stopping = "no" THEN "Running" ELSE status
  /\ UNCHANGED <<stopping, stopTimer, scm, agent, exit>>

TakeRequest ==
  /\ exit = "none" /\ channel # "nil" /\ requests > 0
  /\ requests' = requests - 1
  /\ beginStop
  /\ UNCHANGED <<readyCh, startTimer, channel, agent, exit>>

RequestsClosed ==
  /\ exit = "none" /\ channel = "closed" /\ requests = 0
  /\ channel' = "nil"
  /\ beginStop
  /\ UNCHANGED <<readyCh, startTimer, requests, agent, exit>>

StartupDeadline ==
  /\ exit = "none" /\ startTimer = "fired"
  /\ startTimer' = "taken"
  /\ beginStop
  /\ UNCHANGED <<readyCh, scm, agent, exit>>

\* The runtime is joined; its error decides the exit code.
TakeDone ==
  /\ exit = "none" /\ doneCh = "full"
  /\ Ends(IF runtime = "ok" THEN "0" ELSE "1")

\* Mutant: An abandoned runtime is reported as a clean stop.
StopDeadlineClean ==
  /\ exit = "none" /\ stopTimer = "fired"
  /\ Ends("0")

\* The last resort: the process exits without the runtime.
StopDeadline ==
  /\ exit = "none" /\ stopTimer = "fired"
  /\ Ends("2")

Execute == TakeReady \/ TakeRequest \/ RequestsClosed \/ StartupDeadline \/ TakeDone

-----------------------------------------------------------------------------
(* The process.                                                            *)

\* The process dies; the SCM sees it gone.
Crash ==
  /\ exit = "none"
  /\ Ends("crash")

\* The SCM starts the service again, for an administrator or as a recovery action.
Start ==
  /\ exit # "none" /\ exit' = "none"
  /\ status' = "StartPending" /\ stopping' = "no" /\ runtime' = "starting"
  /\ Fresh

Environment ==
  \/ Control \/ CloseRequests \/ StartTimerFires \/ StopTimerFires

Next ==
  \/ RuntimeReady \/ \E result \in {"ok", "error"} : RuntimeReturns(result)
  \/ Environment \/ Execute \/ StopDeadline
  \/ Crash \/ Start

Spec == Init /\ [][Next]_vars

-----------------------------------------------------------------------------
(* Properties.                                                             *)

\* What the SCM is told is true.  "Local initialization completes before SCM
\* Running", and a start that has been abandoned is not announced: Running means
\* ready, not cancelled, and no startup deadline left that could still stop the
\* service (host_windows.go:67).  Exit code 0 means that the runtime returned
\* without error: one abandoned at the deadline is not a clean stop.
StatusTruthful ==
  /\ TypeOK
  /\ status = "Running" =>
       /\ runtime # "starting" /\ readyCh = "nil"
       /\ stopping = "no"
       /\ startTimer = "stopped"
  /\ exit = "0" => runtime = "ok"

\* "Local startup is bounded at 30 seconds" and "SCM shutdown at 20 seconds": a
\* pending status does not last, whatever the runtime does: a hanging start becomes
\* a stop, and a hanging stop an end (host_windows.go:87, 101).
Pending == status \in {"StartPending", "StopPending"}
DeadlinesBind == Pending ~> ~Pending
=============================================================================
