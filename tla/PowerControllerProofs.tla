----------------------- MODULE PowerControllerProofs -----------------------
(* Proofs about the power controller: one shutdown at a time, which only   *)
(* Close takes back, and none after Close.                                 *)
EXTENDS PowerController, TLAPS

\* How a shutdown came to where it is.
History ==
  /\ scheduled = "yes" => latest \in Requests
  /\ cancelled # {} => closer # "open"
  /\ \A r \in Requests :
       /\ tpc[r] \in {"start", "running", "failed"} => r \in tried
       /\ tpc[r] = "running" => r \in shut

\* When Close has returned there is nothing to join.
Joined == closer = "closed" => \A r \in Requests : tpc[r] \notin Pending

Inv == OnePending /\ SurvivesDisconnect /\ History /\ Joined

\* The controller starts with nothing accepted.
LEMMA InitInv == Init => Inv
BY PowerAssumption DEF Init, Inv, OnePending, TypeOK, SurvivesDisconnect, History, Joined, Pending

\* A handler on its way to Shutdown, and back.
LEMMA HandlerKeeps ==
  ASSUME Inv, NEW r \in Requests, Receive(r) \/ Handler(r)
  PROVE  Inv'
<1> USE DEF Inv, OnePending, TypeOK, SurvivesDisconnect, History, Joined
<1>1. CASE Receive(r) \/ handlePowerCommand(r) \/ ShutdownCheck(r) \/ Reply(r)
  BY <1>1 DEF Receive, handlePowerCommand, ShutdownCheck, Refuse, Reply, controller, timers
<1>2. CASE Shutdown(r)
  <2>1. CASE Refuse(r)
    BY <2>1 DEF Refuse, controller, timers
  <2>2. CASE /\ closer = "open" /\ scheduled = "no"
             /\ scheduled' = "yes" /\ latest' = r
             /\ tpc' = [tpc EXCEPT ![r] = "timer"]
             /\ hpc' = [hpc EXCEPT ![r] = "reply"]
             /\ answer' = [answer EXCEPT ![r] = "accepted"]
             /\ UNCHANGED <<ctx, cancelled, tried, shut, closer>>
    <3>1. TypeOK'
      BY <2>2 DEF Pending
    <3>2. \A s \in Requests : s # r => tpc'[s] = tpc[s] /\ tpc[s] \notin Pending
      BY <2>2
    <3>3. tpc'[r] = "timer" /\ "timer" \in Pending
      BY <2>2 DEF Pending
    <3>4. OnePending'
      BY <2>2, <3>1, <3>2, <3>3
    <3> QED BY <2>2, <3>2, <3>3, <3>4
  <2> QED BY <1>2, <2>1, <2>2 DEF Shutdown
<1> QED BY <1>1, <1>2 DEF Handler

\* The goroutine of an accepted shutdown, from its timer to its end.
LEMMA TimerKeeps ==
  ASSUME Inv, NEW r \in Requests, Timer(r)
  PROVE  Inv'
<1> USE DEF Inv, OnePending, TypeOK, SurvivesDisconnect, History, Joined, Pending, handlers
<1>1. CASE Delay(r)
  BY <1>1 DEF Delay, Stopped, controller
<1>2. CASE RunCheck(r)
  BY <1>2 DEF RunCheck, controller
<1>3. CASE RunStart(r)
  BY <1>3 DEF RunStart, controller
<1>4. CASE RunWait(r)
  BY <1>4 DEF RunWait, controller
<1>5. CASE Failed(r)
  BY <1>5 DEF Failed
<1> QED BY <1>1, <1>2, <1>3, <1>4, <1>5 DEF Timer

\* The connection ends, or the controller is closed.
LEMMA CloseKeeps ==
  ASSUME Inv, Disconnect \/ Close \/ CloseReturns
  PROVE  Inv'
<1> USE DEF Inv, OnePending, TypeOK, SurvivesDisconnect, History, Joined
<1>1. CASE Disconnect
  BY <1>1 DEF Disconnect, controller, timers
<1>2. CASE Close
  BY <1>2, PowerAssumption DEF Close, handlers, timers
<1>3. CASE CloseReturns
  BY <1>3 DEF CloseReturns, handlers, controller, timers
<1> QED BY <1>1, <1>2, <1>3

\* The invariant holds of the controller.
LEMMA SpecInv == Spec => []Inv
<1>1. ASSUME Inv, [Next]_vars PROVE Inv'
  <2>1. CASE UNCHANGED vars
    BY <1>1, <2>1 DEF vars, handlers, controller, timers, Inv, OnePending, TypeOK, SurvivesDisconnect,
       History, Joined
  <2> QED BY <1>1, <2>1, HandlerKeeps, TimerKeeps, CloseKeeps DEF Next
<1> QED BY <1>1, InitInv, PTL DEF Spec

\* At most one shutdown is in progress, and what Close cancels is that one
\* (power_windows.go:59).
THEOREM OneAtATime == Spec => []OnePending
<1>1. Inv => OnePending
  BY DEF Inv
<1> QED BY <1>1, SpecInv, PTL

\* An accepted shutdown is tried, whatever becomes of the connection, unless the
\* runtime stops (power_windows.go:56).
THEOREM AcceptedSurvives == Spec => []SurvivesDisconnect
<1>1. Inv => SurvivesDisconnect
  BY DEF Inv
<1> QED BY <1>1, SpecInv, PTL

\* Once Close has returned nothing is started (power_windows.go:93).
THEOREM ClosedForGood == Spec => NoShutdownAfterClose
<1>1. ASSUME Inv, [Next]_vars PROVE [closer = "closed" => UNCHANGED <<shut, tpc>>]_vars
  <2> SUFFICES ASSUME Next, closer = "closed" PROVE UNCHANGED <<shut, tpc>>
    BY <1>1
  <2>1. \A r \in Requests : tpc[r] \notin Pending
    BY <1>1 DEF Inv, Joined
  <2>2. ASSUME NEW r \in Requests, Receive(r) \/ Handler(r) PROVE UNCHANGED <<shut, tpc>>
    BY <2>2 DEF Receive, Handler, handlePowerCommand, ShutdownCheck, Shutdown, Refuse, Reply, timers
  <2>3. ASSUME NEW r \in Requests PROVE ~Timer(r)
    BY <2>1 DEF Timer, Delay, RunCheck, RunStart, RunWait, Failed, Pending
  <2>4. CASE Disconnect \/ Close \/ CloseReturns
    BY <2>4 DEF Disconnect, Close, CloseReturns, timers
  <2> QED BY <2>2, <2>3, <2>4 DEF Next
<1> QED BY <1>1, SpecInv, PTL DEF Spec, NoShutdownAfterClose
=============================================================================
