--------------------------- MODULE PowerController ---------------------------
(***************************************************************************)
(* client/power.go and service/power_windows.go: remote shutdown.          *)
(*                                                                         *)
(* Every command runs in a goroutine of its own bound to the connection it *)
(* came from.  The controller accepts one shutdown at a time and executes  *)
(* it after a delay in a goroutine that outlives the connection but not    *)
(* Close, which may come at any moment.                                    *)
(***************************************************************************)
EXTENDS FiniteSets, Naturals

CONSTANTS Requests,   \* power commands with a valid request_id
          NoRequest   \* controller.cancel before the first accepted command

ASSUME PowerAssumption == NoRequest \notin Requests

VARIABLES
  hpc,        \* handler goroutine of each command
  ctx,        \* its runCtx: none, live or done
  answer,     \* what Shutdown returned to the handler
  scheduled,  \* controller.scheduled: "no" or "yes"
  latest,     \* the command whose powerCtx controller.cancel cancels
  cancelled,  \* commands whose powerCtx is cancelled
  tpc,        \* shutdown goroutine of each accepted command
  tried,      \* history: commands whose goroutine got to run shutdown.exe
  shut,       \* history: commands for which a shutdown.exe process started
  closer      \* "open", then "closing" (Close waits), then "closed"

controller == <<scheduled, latest, cancelled>>
handlers == <<hpc, ctx, answer>>
timers == <<tpc, tried, shut>>
vars == <<handlers, controller, timers, closer>>

\* Goroutines that Close has to wait for.
Pending == {"timer", "exec", "start", "running", "failed"}

TypeOK ==
  /\ hpc \in [Requests -> {"none", "begin", "check", "lock", "reply", "done"}]
  /\ ctx \in [Requests -> {"none", "live", "done"}]
  /\ answer \in [Requests -> {"none", "accepted", "refused"}]
  /\ scheduled \in {"no", "yes"}
  /\ latest \in Requests \cup {NoRequest}
  /\ cancelled \in SUBSET Requests
  /\ tpc \in [Requests -> Pending \cup {"none", "gone"}]
  /\ tried \in SUBSET Requests
  /\ shut \in SUBSET Requests
  /\ closer \in {"open", "closing", "closed"}

Init ==
  /\ hpc = [r \in Requests |-> "none"]
  /\ ctx = [r \in Requests |-> "none"]
  /\ answer = [r \in Requests |-> "none"]
  /\ scheduled = "no"
  /\ latest = NoRequest
  /\ cancelled = {}
  /\ tpc = [r \in Requests |-> "none"]
  /\ tried = {}
  /\ shut = {}
  /\ closer = "open"

-----------------------------------------------------------------------------
(* The handler of one command.                                             *)

\* The reader starts the handler on the current connection.
Receive(r) ==
  /\ hpc[r] = "none"
  /\ hpc' = [hpc EXCEPT ![r] = "begin"]
  /\ ctx' = [ctx EXCEPT ![r] = "live"]
  /\ UNCHANGED <<answer, controller, timers, closer>>

\* The connection ends: runCtx of every handler started on it is cancelled.
Disconnect ==
  /\ \E r \in Requests : ctx[r] = "live"
  /\ ctx' = [r \in Requests |-> IF ctx[r] = "live" THEN "done" ELSE ctx[r]]
  /\ UNCHANGED <<hpc, answer, controller, timers, closer>>

\* handlePowerCommand looks at its context before anything else.
handlePowerCommand(r) ==
  /\ hpc[r] = "begin"
  /\ hpc' = [hpc EXCEPT ![r] = IF ctx[r] = "live" THEN "check" ELSE "done"]
  /\ UNCHANGED <<ctx, answer, controller, timers, closer>>

Refuse(r) ==
  /\ hpc' = [hpc EXCEPT ![r] = "reply"]
  /\ answer' = [answer EXCEPT ![r] = "refused"]
  /\ UNCHANGED <<ctx, controller, timers, closer>>

\* Shutdown, before the mutex: the context again, and the system directory.
ShutdownCheck(r) ==
  /\ hpc[r] = "check"
  /\ \/ /\ ctx[r] = "live"
        /\ hpc' = [hpc EXCEPT ![r] = "lock"]
        /\ UNCHANGED <<ctx, answer, controller, timers, closer>>
     \/ Refuse(r)

\* Mutant: Neither closing nor scheduled is looked at.
ShutdownUnguarded(r) ==
  /\ hpc[r] = "lock"
  /\ scheduled' = "yes"
  /\ latest' = r
  /\ tpc' = [tpc EXCEPT ![r] = "timer"]
  /\ hpc' = [hpc EXCEPT ![r] = "reply"]
  /\ answer' = [answer EXCEPT ![r] = "accepted"]
  /\ UNCHANGED <<ctx, cancelled, tried, shut, closer>>

\* Shutdown, under the mutex.
Shutdown(r) ==
  /\ hpc[r] = "lock"
  /\ \/ /\ closer # "open" \/ scheduled = "yes"
        /\ Refuse(r)
     \/ /\ closer = "open" /\ scheduled = "no"
        /\ scheduled' = "yes"
        /\ latest' = r
        /\ tpc' = [tpc EXCEPT ![r] = "timer"]
        /\ hpc' = [hpc EXCEPT ![r] = "reply"]
        /\ answer' = [answer EXCEPT ![r] = "accepted"]
        /\ UNCHANGED <<ctx, cancelled, tried, shut, closer>>

\* The result is written to the connection of the request, or lost with it.
Reply(r) ==
  /\ hpc[r] = "reply"
  /\ hpc' = [hpc EXCEPT ![r] = "done"]
  /\ UNCHANGED <<ctx, answer, controller, timers, closer>>

-----------------------------------------------------------------------------
(* The goroutine of an accepted shutdown.                                  *)

\* Mutant: The goroutine is bound to the connection as well.
StoppedByConnection(r) == r \in cancelled \/ ctx[r] = "done"

\* The context whose cancellation the goroutine sees: its own, not runCtx.
Stopped(r) == r \in cancelled

\* select between powerCtx and the timer; both may be ready.
Delay(r) ==
  /\ tpc[r] = "timer"
  /\ \/ /\ Stopped(r)
        /\ tpc' = [tpc EXCEPT ![r] = "gone"]
     \/ tpc' = [tpc EXCEPT ![r] = "exec"]
  /\ UNCHANGED <<handlers, controller, tried, shut, closer>>

\* exec.Cmd looks at its context ...
RunCheck(r) ==
  /\ tpc[r] = "exec"
  /\ tried' = tried \cup {r}
  /\ tpc' = [tpc EXCEPT ![r] = IF Stopped(r) THEN "failed" ELSE "start"]
  /\ UNCHANGED <<handlers, controller, shut, closer>>

\* ... and then starts the process, or fails to.
RunStart(r) ==
  /\ tpc[r] = "start"
  /\ \/ /\ shut' = shut \cup {r}
        /\ tpc' = [tpc EXCEPT ![r] = "running"]
     \/ /\ tpc' = [tpc EXCEPT ![r] = "failed"]
        /\ UNCHANGED shut
  /\ UNCHANGED <<handlers, controller, tried, closer>>

\* shutdown.exe exits, with success or not, or is killed by the context.
RunWait(r) ==
  /\ tpc[r] = "running"
  /\ tpc' \in {[tpc EXCEPT ![r] = pc] : pc \in {"gone", "failed"}}
  /\ UNCHANGED <<handlers, controller, tried, shut, closer>>

\* Mutant: scheduled stays set after a failure.
FailedForGood(r) ==
  /\ tpc[r] = "failed"
  /\ tpc' = [tpc EXCEPT ![r] = "gone"]
  /\ UNCHANGED <<handlers, controller, tried, shut, closer>>

\* A failed attempt may be repeated.
Failed(r) ==
  /\ tpc[r] = "failed"
  /\ scheduled' = "no"
  /\ tpc' = [tpc EXCEPT ![r] = "gone"]
  /\ UNCHANGED <<handlers, latest, cancelled, tried, shut, closer>>

-----------------------------------------------------------------------------
\* Close: no more commands, the scheduled one is cancelled ...
Close ==
  /\ closer = "open"
  /\ closer' = "closing"
  /\ cancelled' = cancelled \cup ({latest} \ {NoRequest})
  /\ UNCHANGED <<handlers, scheduled, latest, timers>>

\* ... and joined.
CloseReturns ==
  /\ closer = "closing"
  /\ \A r \in Requests : tpc[r] \notin Pending
  /\ closer' = "closed"
  /\ UNCHANGED <<handlers, controller, timers>>

Handler(r) == handlePowerCommand(r) \/ ShutdownCheck(r) \/ Shutdown(r) \/ Reply(r)
Timer(r) == Delay(r) \/ RunCheck(r) \/ RunStart(r) \/ RunWait(r) \/ Failed(r)

Next ==
  \/ \E r \in Requests : Receive(r) \/ Handler(r) \/ Timer(r)
  \/ Disconnect \/ Close \/ CloseReturns

Spec == Init /\ [][Next]_vars

-----------------------------------------------------------------------------
(* Properties.                                                             *)

\* At most one shutdown is in progress, the controller knows that it is, and
\* controller.cancel is the cancel function of that one and of no other: what
\* Close cancels is what is running (power_windows.go:59).  Conversely, a command
\* refused as "already scheduled" is backed by a shutdown that is in progress or
\* was handed to Windows: after a failure the next command is taken.
OnePending ==
  /\ TypeOK
  /\ \A r \in Requests :
       tpc[r] \in Pending =>
         /\ scheduled = "yes"
         /\ latest = r
         /\ \A s \in Requests \ {r} : tpc[s] \notin Pending
  /\ scheduled = "yes" => tpc[latest] \in Pending \/ latest \in shut \/ closer # "open"

\* "Accepted power operations survive a network disconnect, but never a
\* legitimate runtime Stop": a goroutine that ended without trying shutdown.exe
\* was cancelled by Close, and the server was told "accepted" for no other.
SurvivesDisconnect ==
  \A r \in Requests : tpc[r] = "gone" => r \in tried \/ closer # "open"

\* Once Close has returned no shutdown.exe starts, although handlers of the
\* ending connection may still be on their way into Shutdown.
NoShutdownAfterClose == [][closer = "closed" => UNCHANGED <<shut, tpc>>]_vars

=============================================================================
