------------------------- MODULE AgentRuntimeProofs -------------------------
(* Proofs about the processes of a machine: what the SCM is told, one      *)
(* identity, and where requests go.                                        *)
EXTENDS AgentRuntime, SequenceTheorems, TLAPS

-----------------------------------------------------------------------------
(* The host: what it sees of the machine are steps of its own.             *)

\* Every step of the machine is one of the host or leaves it alone.
LEMMA HostSteps ==
  ASSUME [Next]_vars PROVE [Host!Next]_hostVars
<1> USE DEF hostVars, Host!Next
<1>1. ASSUME NEW p \in Procs, Process(p)
      PROVE  [Host!Next]_hostVars
  <2>1. CASE Lock(p) \/ Configure(p) \/ State(p) \/ Ensure(p) \/ Enrolled(p) \/ RunReturns(p)
             \/ Release(p)
    BY <2>1 DEF Lock, Configure, State, Ensure, Enrolled, RunReturns, Release
  <2>2. CASE Ready(p)
    BY <2>2 DEF Ready
  <2>3. CASE Return(p)
    BY <2>3 DEF Return
  <2> QED BY <1>1, <2>1, <2>2, <2>3 DEF Process
<1>2. ASSUME NEW p \in Procs, Hang(p) \/ Crash(p)
      PROVE  [Host!Next]_hostVars
  BY <1>2 DEF Hang, Crash
<1>3. CASE StartService \/ Provision \/ StopDeadline
  BY <1>3 DEF StartService, Provision, StopDeadline
<1>4. CASE HostStep(Host!Execute) \/ HostStep(Host!Environment)
  BY <1>4 DEF HostStep
<1>5. CASE \E id \in Ids \cup {Old} : Forget(id)
  BY <1>5 DEF Forget
<1>6. CASE UNCHANGED vars
  BY <1>6 DEF vars
<1> QED BY <1>1, <1>2, <1>3, <1>4, <1>5, <1>6 DEF Next

\* The agent implements the host's specification: whatever its runtime, a second
\* process and the operating system do, the host sees a runtime that becomes
\* ready at most once and returns at most once (host_windows.go:40).
THEOREM MachineIsHost == Spec => Host!Spec
<1>1. Init => Host!Init
  BY DEF Init
<1>2. ASSUME [Next]_vars PROVE [Host!Next]_(Host!vars)
  BY <1>2, HostSteps DEF hostVars, Host!vars, Host!timers, Host!scm, Host!agent
<1> QED BY <1>1, <1>2, PTL DEF Spec, Host!Spec

\* Why what the SCM is told is true: channels and timers tell what the runtime did.
Truthful ==
  /\ Host!StatusTruthful
  /\ readyCh # "open" => runtime # "starting"
  /\ startTimer = "taken" => stopping = "yes"

\* Truthful is inductive for whatever the host does, the runtime included.
LEMMA HostTruthful ==
  ASSUME Truthful, [Host!Next]_hostVars PROVE Truthful'
<1> USE RuntimeAssumption DEF Truthful, Host!StatusTruthful, Host!TypeOK, Host!Codes
<1>1. CASE Host!RuntimeReady
  BY <1>1 DEF Host!RuntimeReady, Host!timers, Host!scm
<1>2. ASSUME NEW result \in {"ok", "error"}, Host!RuntimeReturns(result)
      PROVE  Truthful'
  BY <1>2 DEF Host!RuntimeReturns, Host!timers, Host!scm
<1>3. CASE Host!Control \/ Host!CloseRequests \/ Host!StartTimerFires \/ Host!StopTimerFires
  BY <1>3 DEF Host!Control, Host!CloseRequests, Host!StartTimerFires, Host!StopTimerFires,
     Host!timers, Host!scm, Host!agent
<1>4. CASE Host!TakeReady
  BY <1>4 DEF Host!TakeReady, Host!scm, Host!agent
<1>5. CASE Host!TakeRequest \/ Host!RequestsClosed \/ Host!StartupDeadline
  BY <1>5 DEF Host!TakeRequest, Host!RequestsClosed, Host!StartupDeadline, Host!beginStop,
     Host!scm, Host!agent
<1>6. CASE Host!TakeDone \/ Host!StopDeadline \/ Host!Crash
  BY <1>6 DEF Host!TakeDone, Host!StopDeadline, Host!Crash, Host!Ends, Host!Fresh
<1>7. CASE Host!Start
  BY <1>7 DEF Host!Start, Host!Fresh
<1>8. CASE UNCHANGED hostVars
  BY <1>8 DEF hostVars
<1> QED BY <1>1, <1>2, <1>3, <1>4, <1>5, <1>6, <1>7, <1>8
        DEF Host!Next, Host!Environment, Host!Execute
-----------------------------------------------------------------------------
(* The processes: types.                                                   *)

Staged ==
  /\ pc \in [Procs -> Stages]
  /\ identity \in Ids \cup {Old, NoId} /\ loaded \in [Procs -> Ids \cup {Old, NoId}]
  /\ marker \in {"absent", "unverified", "verified"}
  /\ confirmed \in [Procs -> {"no", "yes"}]
  /\ server \subseteq ever /\ ever \subseteq Ids \cup {Old}
  /\ faults \in 0..MaxFaults /\ forgets \in 0..MaxForgets
  /\ config \in Configs
  /\ held \in [Procs -> Seq(Resources)]

OnWire == wire \in [url : Policy!URL, sent : 0..MaxHops]

\* Where the next request goes is a URL.
LEMMA IdleTyped ==
  ASSUME config \in Configs PROVE Enroll!Idle \in [url : Policy!URL, sent : 0..MaxHops]
<1>1. config \in Policy!Config
  BY RuntimeAssumption
<1>2. config.api \in Policy!URL
  BY <1>1 DEF Policy!Config
<1>3. 0 \in 0..MaxHops
  BY RuntimeAssumption DEF Policy!TransportAssumption
<1> QED BY <1>2, <1>3 DEF Enroll!Idle

\* The stages of enrollment: what one of its steps does to the stage of its process.
Opening == {"migrate", "identity", "marker", "ready"}
Asking == {"exists", "backoff", "unverify", "register", "verify", "enrolled"}

Proceeds(p) ==
  /\ UNCHANGED <<hostVars, config, held>>
  /\ \E l \in Stages :
       /\ pc' = [pc EXCEPT ![p] = l]
       /\ \/ l = "error"
          \/ l = "ok" /\ p = "service" /\ stopping = "yes"
          \/ pc[p] \in {"migrate", "identity"} /\ l \in {"identity", "marker"}
          \/ pc[p] = "marker" /\ l = IF p = "provision" THEN "exists" ELSE "ready"
          \/ pc[p] \in Asking /\ l \in Asking
  /\ pc[p] \in {"migrate", "identity", "marker"} \cup Asking

\* A step of the exchange with the server that goes on, or fails.
LEMMA Asked ==
  ASSUME Staged, NEW p \in Procs, pc[p] \in Asking, UNCHANGED <<hostVars, config, held>>,
         UNCHANGED pc \/ (\E l \in Asking : Go(p, l)) \/ Enroll!Fail(p)
  PROVE  Proceeds(p)
<1> USE DEF Staged, Asking, Proceeds, Stages, Enroll!EnrollmentStages
<1>1. CASE UNCHANGED pc
  <2>1. pc' = [pc EXCEPT ![p] = pc[p]]
    BY <1>1
  <2> QED BY <2>1
<1>2. CASE \E l \in Asking : Go(p, l)
  BY <1>2 DEF Go
<1>3. CASE Enroll!Fail(p)
  <2>1. CASE stopping = "yes" /\ p # "provision"
    BY <1>3, <2>1 DEF Enroll!Fail, Enroll!Go, Enroll!Interactive, Procs
  <2>2. CASE ~(stopping = "yes" /\ p # "provision")
    BY <1>3, <2>2 DEF Enroll!Fail, Enroll!Go, Enroll!Interactive
  <2> QED BY <2>1, <2>2
<1> QED BY <1>1, <1>2, <1>3

\* A step of enrollment goes on to a later stage of it, or ends.
LEMMA EnrollmentProceeds ==
  ASSUME Staged, NEW p \in Procs, State(p) \/ Ensure(p)
  PROVE  Proceeds(p)
<1>1. UNCHANGED <<hostVars, config, held>>
  BY DEF State, Ensure
<1>2. CASE Enroll!MigrateIdentity(p)
  BY <1>1, <1>2 DEF Enroll!MigrateIdentity, Proceeds, Enroll!Go, Stages, Enroll!EnrollmentStages, Staged
<1>3. CASE Enroll!loadIdentity(p)
  BY <1>1, <1>3 DEF Enroll!loadIdentity, Proceeds, Enroll!Go, Stages, Enroll!EnrollmentStages, Staged
<1>4. CASE Enroll!ReadEnrollment(p)
  BY <1>1, <1>4 DEF Enroll!ReadEnrollment, Proceeds, Enroll!Go, Enroll!Interactive, Stages,
     Enroll!EnrollmentStages, Staged
<1>5. ASSUME Ensure(p) PROVE Proceeds(p)
  <2> USE DEF Asking, Go, Enroll!Go
  <2>1. pc[p] \in Asking
    BY <1>5 DEF Ensure, Enroll!EnsureEnrollment, Enroll!Send, Enroll!Redirect, Enroll!agentExists,
       Enroll!Backoff, Enroll!Interrupted, Enroll!WriteUnverified, Enroll!registerAgent,
       Enroll!WriteVerified
  <2>2. UNCHANGED pc \/ (\E l \in Asking : Go(p, l)) \/ Enroll!Fail(p)
    <3>1. CASE Enroll!Send(p)
      BY <3>1 DEF Enroll!Send
    <3>2. CASE Enroll!Redirect(p)
      BY <3>2 DEF Enroll!Redirect, Enroll!Unanswered
    <3>3. CASE Enroll!agentExists(p)
      BY <3>3 DEF Enroll!agentExists, Enroll!Unanswered
    <3>4. CASE Enroll!Backoff(p) \/ Enroll!Interrupted(p)
      BY <3>4 DEF Enroll!Backoff, Enroll!Interrupted
    <3>5. CASE Enroll!WriteUnverified(p) \/ Enroll!registerAgent(p) \/ Enroll!WriteVerified(p)
      BY <3>5 DEF Enroll!WriteUnverified, Enroll!registerAgent, Enroll!WriteVerified
    <3> QED BY <1>5, <3>1, <3>2, <3>3, <3>4, <3>5 DEF Ensure, Enroll!EnsureEnrollment
  <2> QED BY <1>1, <2>1, <2>2, Asked
<1> QED BY <1>2, <1>3, <1>4, <1>5 DEF State

-----------------------------------------------------------------------------
(* What the processes hold, and what it says of the host.                  *)

\* What a process holds at each stage, and that only one of them holds anything.
Holdings ==
  /\ \A p \in Procs :
       /\ pc[p] \in {"down", "lock"} => held[p] = <<>>
       /\ pc[p] = "configure" => held[p] = <<"lock">>
       /\ pc[p] \in Opening => held[p] = <<"lock", "logs">>
       /\ pc[p] \in Asking => held[p] = IF p = "service" THEN <<"lock", "logs", "client">>
                                        ELSE <<"lock", "logs">>
       /\ pc[p] = "running" => held[p] = <<"lock", "logs", "client", "helper">>
  /\ pc["provision"] \notin {"ready", "running"}
  /\ held["service"] = <<>> \/ held["provision"] = <<>>

\* The service and the host that runs it.
Hosting ==
  /\ pc["service"] # "down" =>
       exit = "none" /\ doneCh = "empty" /\ runtime \in {"starting", "ready"}
  /\ pc["service"] \in {"lock", "configure"} \cup Opening => runtime = "starting"
  /\ pc["service"] = "ok" \/ (runtime = "ok" /\ exit \in {"none", "0"}) => stopping = "yes"

Held == Staged /\ Holdings /\ Hosting

\* What is acquired is given back first.
LEMMA Acquired ==
  ASSUME NEW s \in Seq(Resources), NEW t \in Seq(Resources), NEW e \in Resources,
         Len(t) = Len(s) + 1, t[Len(s) + 1] = e, \A i \in 1..Len(s) : t[i] = s[i]
  PROVE  Append(s, e) = t /\ SubSeq(t, 1, Len(t) - 1) = s
<1>1. Append(s, e) = t
  BY AppendProperties, SeqEqual
<1>2. /\ SubSeq(t, 1, Len(s)) \in Seq(Resources) /\ Len(SubSeq(t, 1, Len(s))) = Len(s)
      /\ \A i \in 1..Len(s) : SubSeq(t, 1, Len(s))[i] = t[i]
  <2>1. \A i \in 1..Len(s) : t[i] \in Resources
    OBVIOUS
  <2> QED BY <2>1, SubSeqProperties
<1>3. SubSeq(t, 1, Len(s)) = s
  BY <1>2, SeqEqual
<1> QED BY <1>1, <1>3

\* What a process has after it acquired one thing more.
LEMMA Stacks ==
  /\ Append(<<"lock">>, "logs") = <<"lock", "logs">>
  /\ Append(<<"lock", "logs">>, "client") = <<"lock", "logs", "client">>
  /\ Append(<<"lock", "logs", "client">>, "helper") = <<"lock", "logs", "client", "helper">>
<1>1. /\ <<"lock">> \in Seq(Resources) /\ <<"lock", "logs">> \in Seq(Resources)
      /\ <<"lock", "logs", "client">> \in Seq(Resources)
      /\ <<"lock", "logs", "client", "helper">> \in Seq(Resources)
  BY DEF Resources
<1>2. "logs" \in Resources /\ "client" \in Resources /\ "helper" \in Resources
  BY DEF Resources
<1>3. Append(<<"lock">>, "logs") = <<"lock", "logs">>
  <2>1. \A i \in 1..Len(<<"lock">>) : <<"lock", "logs">>[i] = <<"lock">>[i]
    OBVIOUS
  <2>2. Len(<<"lock", "logs">>) = Len(<<"lock">>) + 1 /\ <<"lock", "logs">>[Len(<<"lock">>) + 1] = "logs"
    OBVIOUS
  <2> QED BY <1>1, <1>2, <2>1, <2>2, Acquired
<1>4. Append(<<"lock", "logs">>, "client") = <<"lock", "logs", "client">>
  <2>1. \A i \in 1..Len(<<"lock", "logs">>) : <<"lock", "logs", "client">>[i] = <<"lock", "logs">>[i]
    OBVIOUS
  <2>2. /\ Len(<<"lock", "logs", "client">>) = Len(<<"lock", "logs">>) + 1
        /\ <<"lock", "logs", "client">>[Len(<<"lock", "logs">>) + 1] = "client"
    OBVIOUS
  <2> QED BY <1>1, <1>2, <2>1, <2>2, Acquired
<1>5. Append(<<"lock", "logs", "client">>, "helper") = <<"lock", "logs", "client", "helper">>
  <2>1. \A i \in 1..Len(<<"lock", "logs", "client">>) :
          <<"lock", "logs", "client", "helper">>[i] = <<"lock", "logs", "client">>[i]
    OBVIOUS
  <2>2. /\ Len(<<"lock", "logs", "client", "helper">>) = Len(<<"lock", "logs", "client">>) + 1
        /\ <<"lock", "logs", "client", "helper">>[Len(<<"lock", "logs", "client">>) + 1] = "helper"
    OBVIOUS
  <2> QED BY <1>1, <1>2, <2>1, <2>2, Acquired
<1> QED BY <1>3, <1>4, <1>5

\* At most one process holds anything: a change of one who holds keeps it so.
LEMMA Alone ==
  ASSUME Held, NEW p \in Procs, held[p] # <<>>, \A q \in Procs : q # p => held'[q] = held[q],
         NEW l \in Stages, Go(p, l),
         /\ l \in Opening => held'[p] = <<"lock", "logs">>
         /\ l \in Asking => held'[p] = IF p = "service" THEN <<"lock", "logs", "client">>
                               ELSE <<"lock", "logs">>
         /\ l = "running" => held'[p] = <<"lock", "logs", "client", "helper">>
         /\ l \notin {"down", "lock", "configure"}
         /\ p = "provision" => l \notin {"ready", "running"}
  PROVE  Holdings'
<1>1. \A q \in Procs : q # p => held'[q] = <<>> /\ held[q] = <<>> /\ pc'[q] = pc[q]
  BY DEF Held, Staged, Holdings, Procs, Go
<1>2. pc'[p] = l
  BY DEF Held, Staged, Go
<1>3. held'["service"] = <<>> \/ held'["provision"] = <<>>
  BY <1>1 DEF Procs
<1>4. pc'["provision"] \notin {"ready", "running"}
  BY <1>1, <1>2 DEF Held, Holdings, Procs
<1>5. ASSUME NEW q \in Procs
      PROVE  /\ pc'[q] \in {"down", "lock"} => held'[q] = <<>>
             /\ pc'[q] = "configure" => held'[q] = <<"lock">>
             /\ pc'[q] \in Opening => held'[q] = <<"lock", "logs">>
             /\ pc'[q] \in Asking => held'[q] = IF q = "service" THEN <<"lock", "logs", "client">>
                                                 ELSE <<"lock", "logs">>
             /\ pc'[q] = "running" => held'[q] = <<"lock", "logs", "client", "helper">>
  <2>1. CASE q = p
    BY <1>2, <2>1
  <2>2. CASE q # p
    BY <1>1, <2>2 DEF Held, Holdings
  <2> QED BY <2>1, <2>2
<1> QED BY <1>3, <1>4, <1>5 DEF Holdings

\* What is on the stack of a client, with its helper or without.
LEMMA Given ==
  /\ Len(<<"lock", "logs", "client">>) = 3 /\ Len(<<"lock", "logs", "client", "helper">>) = 4
  /\ SubSeq(<<"lock", "logs", "client">>, 1, 3) = <<"lock", "logs", "client">>
  /\ SubSeq(<<"lock", "logs", "client", "helper">>, 1, 3) = <<"lock", "logs", "client">>
<1>1. Len(<<"lock", "logs", "client">>) = 3 /\ Len(<<"lock", "logs", "client", "helper">>) = 4
  OBVIOUS
<1>2. /\ <<"lock", "logs", "client">> \in Seq(Resources)
      /\ <<"lock", "logs", "client", "helper">> \in Seq(Resources)
  BY DEF Resources
<1>3. SubSeq(<<"lock", "logs", "client">>, 1, 3) = <<"lock", "logs", "client">>
  BY <1>1, <1>2, SubSeqFull
<1>4. \A i \in 1..Len(<<"lock", "logs", "client">>) :
        <<"lock", "logs", "client", "helper">>[i] = <<"lock", "logs", "client">>[i]
  OBVIOUS
<1>5. "helper" \in Resources /\ <<"lock", "logs", "client", "helper">>[4] = "helper"
  BY DEF Resources
<1>6. SubSeq(<<"lock", "logs", "client", "helper">>, 1, 3) = <<"lock", "logs", "client">>
  <2>1. /\ Len(<<"lock", "logs", "client", "helper">>) = Len(<<"lock", "logs", "client">>) + 1
        /\ <<"lock", "logs", "client", "helper">>[Len(<<"lock", "logs", "client">>) + 1] = "helper"
    OBVIOUS
  <2>2. SubSeq(<<"lock", "logs", "client", "helper">>, 1,
               Len(<<"lock", "logs", "client", "helper">>) - 1) = <<"lock", "logs", "client">>
    BY <1>2, <1>4, <1>5, <2>1, Acquired
  <2>3. Len(<<"lock", "logs", "client", "helper">>) - 1 = 3
    OBVIOUS
  <2> QED BY <2>2, <2>3
<1> QED BY <1>1, <1>3, <1>6

\* Taking the lock: it is refused while another process holds anything.
LEMMA LockHolds ==
  ASSUME Held, NEW p \in Procs, Lock(p) PROVE Holdings' /\ Hosting'
BY DEF Held, Staged, Holdings, Hosting, Lock, Locked, Fail, Go, Acquire, Procs, hostVars, Opening, Asking

\* Configuring: the logs are held from here on, whatever comes of it.
LEMMA ConfigureHolds ==
  ASSUME Held, NEW p \in Procs, Configure(p) PROVE Holdings' /\ Hosting'
<1>1. Append(<<"lock">>, "logs") = <<"lock", "logs">>
  BY Stacks
<1>2. /\ pc[p] = "configure" /\ held[p] = <<"lock">>
      /\ UNCHANGED hostVars
      /\ \/ Go(p, "error") /\ held' = held
         \/ /\ \E l \in {"identity", "migrate", "error"} : Go(p, l)
            /\ held' = [held EXCEPT ![p] = <<"lock", "logs">>]
  <2>1. pc[p] = "configure" /\ held[p] = <<"lock">> /\ UNCHANGED hostVars
    BY DEF Held, Holdings, Configure
  <2>2. \/ Go(p, "error") /\ held' = held
        \/ \E l \in {"identity", "migrate", "error"} :
             Go(p, l) /\ Acquire(p, "logs")
    BY DEF Configure, Fail
  <2>3. Acquire(p, "logs") => held' = [held EXCEPT ![p] = <<"lock", "logs">>]
    BY <1>1, <2>1 DEF Acquire
  <2>4. CASE Go(p, "error") /\ held' = held
    BY <2>1, <2>4
  <2>5. ASSUME NEW l \in {"identity", "migrate", "error"}, Go(p, l), Acquire(p, "logs")
        PROVE  (\E m \in {"identity", "migrate", "error"} : Go(p, m))
               /\ held' = [held EXCEPT ![p] = <<"lock", "logs">>]
    BY <2>3, <2>5 DEF Go
  <2> QED BY <2>1, <2>2, <2>4, <2>5 DEF Go, Acquire
<1>3. Hosting'
  BY <1>2 DEF Held, Staged, Hosting, Go, Procs, hostVars, Opening, Asking
<1>4. held[p] # <<>>
  BY <1>2
<1>5. CASE Go(p, "error") /\ held' = held
  <2>1. "error" \in Stages /\ "error" \notin Opening /\ "error" \notin Asking
    BY DEF Stages, Opening, Asking
  <2>2. \A q \in Procs : q # p => held'[q] = held[q]
    BY <1>5
  <2> QED BY <1>3, <1>4, <1>5, <2>1, <2>2, Alone
<1>6. CASE /\ \E l \in {"identity", "migrate", "error"} : Go(p, l)
           /\ held' = [held EXCEPT ![p] = <<"lock", "logs">>]
  <2>1. PICK l \in {"identity", "migrate", "error"} : Go(p, l)
    BY <1>6
  <2>2. l \in Stages /\ l \notin Asking /\ l \notin {"down", "lock", "configure", "ready", "running"}
    BY <2>1 DEF Stages, Enroll!EnrollmentStages, Asking
  <2>3. held'[p] = <<"lock", "logs">> /\ \A q \in Procs : q # p => held'[q] = held[q]
    BY <1>6 DEF Held, Staged
  <2>4. /\ l \in Opening => held'[p] = <<"lock", "logs">>
        /\ l \in Asking => held'[p] = IF p = "service" THEN <<"lock", "logs", "client">>
                                     ELSE <<"lock", "logs">>
        /\ l = "running" => held'[p] = <<"lock", "logs", "client", "helper">>
        /\ l \notin {"down", "lock", "configure"}
        /\ p = "provision" => l \notin {"ready", "running"}
    BY <2>2, <2>3
  <2> QED BY <1>3, <1>4, <2>1, <2>2, <2>3, <2>4, Alone
<1> QED BY <1>2, <1>3, <1>5, <1>6

\* Enrollment acquires nothing, and gives nothing back.
LEMMA EnrollmentHolds ==
  ASSUME Held, NEW p \in Procs, State(p) \/ Ensure(p) PROVE Holdings' /\ Hosting'
<1>1. Proceeds(p)
  BY EnrollmentProceeds DEF Held
<1> QED BY <1>1 DEF Held, Staged, Holdings, Hosting, Proceeds, Procs, hostVars, Opening, Asking

\* The client is held before the host is told.
LEMMA ReadyHolds ==
  ASSUME Held, NEW p \in Procs, Ready(p) PROVE Holdings' /\ Hosting'
<1>1. Append(<<"lock", "logs">>, "client") = <<"lock", "logs", "client">>
  BY Stacks
<1>2. /\ p = "service" /\ pc[p] = "ready" /\ held[p] = <<"lock", "logs">>
      /\ held' = [held EXCEPT ![p] = <<"lock", "logs", "client">>]
      /\ (Host!RuntimeReady /\ Go(p, "exists")) \/ (UNCHANGED hostVars /\ Go(p, "error"))
  BY <1>1 DEF Held, Holdings, Ready, Go, Acquire, Staged, Procs, Opening
<1> QED BY <1>2 DEF Held, Staged, Holdings, Hosting, Go, Procs, hostVars, Opening, Asking,
        Host!RuntimeReady, Host!timers, Host!scm

\* The helper is held while the client runs, which ends on request only.
LEMMA EndHolds ==
  ASSUME Held, NEW p \in Procs, Enrolled(p) \/ RunReturns(p)
  PROVE  Holdings' /\ Hosting'
<1>1. Append(<<"lock", "logs", "client">>, "helper") = <<"lock", "logs", "client", "helper">>
  BY Stacks
<1>2. CASE Enrolled(p) /\ p = "service"
  <2>1. /\ pc[p] = "enrolled" /\ Go(p, "running") /\ UNCHANGED hostVars
        /\ held' = [held EXCEPT ![p] = <<"lock", "logs", "client", "helper">>]
    <3>1. pc[p] = "enrolled" /\ held[p] = <<"lock", "logs", "client">>
      BY <1>2 DEF Held, Holdings, Enrolled, Asking
    <3>2. Acquire(p, "helper") => held' = [held EXCEPT ![p] = <<"lock", "logs", "client", "helper">>]
      BY <1>1, <3>1 DEF Acquire
    <3>3. Go(p, "running") /\ Acquire(p, "helper") /\ UNCHANGED hostVars
      BY <1>2 DEF Enrolled, Go, Acquire
    <3> QED BY <3>1, <3>2, <3>3
  <2>2. Hosting'
    BY <1>2, <2>1 DEF Held, Staged, Hosting, Go, Procs, hostVars, Opening, Asking
  <2>3. held[p] # <<>>
    BY <1>2, <2>1 DEF Held, Holdings, Asking
  <2>4. /\ held'[p] = <<"lock", "logs", "client", "helper">>
        /\ \A q \in Procs : q # p => held'[q] = held[q]
    BY <2>1 DEF Held, Staged
  <2>5. "running" \in Stages /\ "running" \notin Opening /\ "running" \notin Asking
    BY DEF Stages, Opening, Asking
  <2> QED BY <1>2, <2>1, <2>2, <2>3, <2>4, <2>5, Alone
<1>3. CASE Enrolled(p) /\ p = "provision"
  BY <1>3 DEF Held, Staged, Holdings, Hosting, Enrolled, Go, Procs, hostVars, Opening, Asking
<1>4. CASE RunReturns(p)
  BY <1>4 DEF Held, Staged, Holdings, Hosting, RunReturns, Go, Procs, hostVars, Opening, Asking
<1> QED BY <1>2, <1>3, <1>4 DEF Procs

\* What is left is given back before the process is gone.
LEMMA ReleaseHolds ==
  ASSUME Held, NEW p \in Procs, Release(p) \/ Return(p)
  PROVE  Holdings' /\ Hosting'
BY DEF Held, Staged, Holdings, Hosting, Release, Return, Forgotten, Go, Procs, hostVars, Opening, Asking,
   Host!RuntimeReturns, Host!timers, Host!scm

\* A new process holds nothing, and one that ends leaves nothing behind.
LEMMA LifeHolds ==
  ASSUME Held, StartService \/ Provision \/ StopDeadline \/ \E p \in Procs : Hang(p) \/ Crash(p)
  PROVE  Holdings' /\ Hosting'
BY DEF Held, Staged, Holdings, Hosting, StartService, Provision, StopDeadline, Hang, Crash, Exit,
   Forgotten, Go, Procs, hostVars, Opening, Asking, Host!Start, Host!StopDeadline, Host!Crash,
   Host!Ends, Host!Fresh

\* The host's loop ends a service only after its runtime returned.
LEMMA HostHolds ==
  ASSUME Held, HostStep(Host!Execute) \/ HostStep(Host!Environment)
  PROVE  Holdings' /\ Hosting'
BY DEF Held, Staged, Holdings, Hosting, HostStep, enrollVars, Host!Execute, Host!TakeReady,
   Host!TakeRequest, Host!RequestsClosed, Host!StartupDeadline, Host!TakeDone, Host!beginStop,
   Host!Ends, Host!Fresh, Host!Environment, Host!Control, Host!CloseRequests,
   Host!StartTimerFires, Host!StopTimerFires, Host!timers, Host!scm, Host!agent

-----------------------------------------------------------------------------
(* Types are kept.                                                         *)

\* Faults stay within their bound.
LEMMA FaultTyped ==
  ASSUME Staged, Enroll!Fault \/ Enroll!NoFault
  PROVE  faults' \in 0..MaxFaults /\ forgets' = forgets
BY RuntimeAssumption DEF Staged, Enroll!Fault, Enroll!NoFault, Enroll!bounds

\* A process goes from stage to stage.
LEMMA MovedTyped ==
  ASSUME Staged, NEW p \in Procs, NEW l \in Stages, Go(p, l) PROVE pc' \in [Procs -> Stages]
BY DEF Staged, Go

\* A process acquires resources.
LEMMA AcquiredTyped ==
  ASSUME Staged, NEW p \in Procs, NEW r \in Resources, Acquire(p, r)
  PROVE  held' \in [Procs -> Seq(Resources)]
<1>1. held[p] \in Seq(Resources)
  BY DEF Staged
<1>2. Append(held[p], r) \in Seq(Resources)
  BY <1>1, AppendProperties
<1> QED BY <1>2 DEF Staged, Acquire

\* A process between its requests, or one that has none.
LEMMA IdleKeeps ==
  ASSUME Staged, NEW p \in Procs,
         Lock(p) \/ Configure(p) \/ Ready(p) \/ Enrolled(p) \/ RunReturns(p) \/ Release(p)
  PROVE  Staged' /\ UNCHANGED idle
<1>1. UNCHANGED idle
  BY DEF Lock, Configure, Ready, Enrolled, RunReturns, Release
<1>2. pc' \in [Procs -> Stages]
  <2>1. (\E l \in Stages : Go(p, l)) \/ UNCHANGED pc
    BY DEF Lock, Configure, Ready, Enrolled, RunReturns, Release, Fail, Stages, Enroll!EnrollmentStages
  <2> QED BY <2>1, MovedTyped DEF Staged
<1>3. held' \in [Procs -> Seq(Resources)]
  <2>1. \/ \E r \in Resources : Acquire(p, r)
        \/ UNCHANGED held
        \/ Release(p)
    BY DEF Lock, Configure, Ready, Enrolled, RunReturns, Fail, Resources
  <2>2. CASE Release(p)
    <3>1. held[p] \in Seq(Resources) /\ held[p] # <<>>
      BY <2>2 DEF Staged, Release
    <3>2. SubSeq(held[p], 1, Len(held[p]) - 1) \in Seq(Resources)
      <4>1. Len(held[p]) \in Nat /\ \A i \in 1..Len(held[p]) - 1 : held[p][i] \in Resources
        BY <3>1
      <4> QED BY <4>1, SubSeqProperties
    <3> QED BY <2>2, <3>2 DEF Staged, Release
  <2> QED BY <2>1, <2>2, AcquiredTyped DEF Staged
<1>4. faults' \in 0..MaxFaults /\ forgets' = forgets
  <2>1. Enroll!Fault \/ Enroll!NoFault \/ UNCHANGED <<faults, forgets>>
    BY DEF Lock, Configure, Ready, Enrolled, RunReturns, Release, Fail
  <2> QED BY <2>1, FaultTyped DEF Staged
<1> QED BY <1>1, <1>2, <1>3, <1>4 DEF Staged, idle

\* A process under way to an identity, or to an answer.
LEMMA EnrollmentKeeps ==
  ASSUME Staged, NEW p \in Procs, State(p) \/ Ensure(p), loaded[p] \in Ids \cup {Old} \/ State(p)
  PROVE  Staged'
<1>1. pc' \in [Procs -> Stages] /\ UNCHANGED <<config, held>>
  BY EnrollmentProceeds DEF Proceeds, Staged
<1>2. faults' \in 0..MaxFaults /\ forgets' = forgets
  <2>1. Enroll!Fault \/ Enroll!NoFault
    BY DEF State, Ensure, Enroll!EnsureEnrollment, Enroll!MigrateIdentity, Enroll!loadIdentity,
       Enroll!ReadEnrollment, Enroll!Send, Enroll!Redirect, Enroll!agentExists, Enroll!Backoff,
       Enroll!Interrupted, Enroll!WriteUnverified, Enroll!registerAgent, Enroll!WriteVerified,
       Enroll!NoFault
  <2> QED BY <2>1, FaultTyped
<1>3. identity' \in Ids \cup {Old, NoId} /\ loaded' \in [Procs -> Ids \cup {Old, NoId}]
  BY DEF Staged, State, Ensure, Enroll!EnsureEnrollment, Enroll!MigrateIdentity, Enroll!loadIdentity,
     Enroll!ReadEnrollment, Enroll!Send, Enroll!Redirect, Enroll!agentExists, Enroll!Backoff,
     Enroll!Interrupted, Enroll!WriteUnverified, Enroll!registerAgent, Enroll!WriteVerified,
     Enroll!files
<1>4. marker' \in {"absent", "unverified", "verified"} /\ confirmed' \in [Procs -> {"no", "yes"}]
  BY DEF Staged, State, Ensure, Enroll!EnsureEnrollment, Enroll!MigrateIdentity, Enroll!loadIdentity,
     Enroll!ReadEnrollment, Enroll!Send, Enroll!Redirect, Enroll!agentExists, Enroll!Backoff,
     Enroll!Interrupted, Enroll!WriteUnverified, Enroll!registerAgent, Enroll!WriteVerified,
     Enroll!files
<1>5. server' \subseteq ever' /\ ever' \subseteq Ids \cup {Old}
  <2>1. CASE Enroll!registerAgent(p)
    <3>1. loaded[p] \in Ids \cup {Old}
      BY <2>1 DEF State, Enroll!registerAgent, Enroll!MigrateIdentity, Enroll!loadIdentity,
         Enroll!ReadEnrollment
    <3> QED BY <2>1, <3>1 DEF Enroll!registerAgent, Staged
  <2>2. CASE ~Enroll!registerAgent(p)
    BY <2>2 DEF Staged, State, Ensure, Enroll!EnsureEnrollment, Enroll!MigrateIdentity,
       Enroll!loadIdentity, Enroll!ReadEnrollment, Enroll!Send, Enroll!Redirect, Enroll!agentExists,
       Enroll!Backoff, Enroll!Interrupted, Enroll!WriteUnverified, Enroll!WriteVerified,
       Enroll!remote
  <2> QED BY <2>1, <2>2
<1> QED BY <1>1, <1>2, <1>3, <1>4, <1>5 DEF Staged

\* Starts and ends of processes, and the administrator of the server.
LEMMA LifeKeeps ==
  ASSUME Staged,
         \/ \E p \in Procs : Return(p) \/ Hang(p) \/ Crash(p)
         \/ StartService \/ Provision \/ StopDeadline
         \/ HostStep(Host!Execute) \/ HostStep(Host!Environment)
         \/ \E id \in Ids \cup {Old} : Forget(id)
  PROVE  Staged'
<1> USE DEF Staged
<1>1. ASSUME NEW p \in Procs, Return(p) \/ Hang(p) \/ Crash(p) PROVE Staged'
  <2>1. "down" \in Stages /\ "hung" \in Stages
    BY DEF Stages
  <2>2. pc' \in [Procs -> Stages]
    BY <1>1, <2>1, MovedTyped DEF Return, Hang, Crash, Exit, Forgotten
  <2>3. faults' \in 0..MaxFaults /\ forgets' = forgets
    BY <1>1, FaultTyped DEF Return, Hang, Crash
  <2>4. held' \in [Procs -> Seq(Resources)]
    <3>1. <<>> \in Seq(Resources)
      OBVIOUS
    <3> QED BY <1>1, <3>1 DEF Return, Hang, Crash, Exit
  <2> QED BY <1>1, <2>2, <2>3, <2>4 DEF Return, Hang, Crash, Exit, Forgotten, idle
<1>2. CASE StartService \/ Provision
  <2>1. "lock" \in Stages /\ "service" \in Procs /\ "provision" \in Procs
    BY DEF Stages, Procs
  <2>2. pc' \in [Procs -> Stages]
    BY <1>2, <2>1, MovedTyped DEF StartService, Provision
  <2> QED BY <1>2, <2>2 DEF StartService, Provision, idle
<1>3. CASE StopDeadline
  <2>1. "down" \in Stages /\ "service" \in Procs /\ <<>> \in Seq(Resources)
    BY DEF Stages, Procs
  <2>2. pc' \in [Procs -> Stages]
    BY <1>3, <2>1, MovedTyped DEF StopDeadline, Exit, Forgotten
  <2> QED BY <1>3, <2>1, <2>2 DEF StopDeadline, Exit, Forgotten
<1>4. CASE HostStep(Host!Execute) \/ HostStep(Host!Environment)
  BY <1>4 DEF HostStep, enrollVars
<1>5. ASSUME NEW id \in Ids \cup {Old}, Forget(id) PROVE Staged'
  BY <1>5, RuntimeAssumption DEF Forget, Enroll!Forget, Enroll!process, Enroll!files
<1> QED BY <1>1, <1>2, <1>3, <1>4, <1>5

-----------------------------------------------------------------------------
(* One identity.                                                           *)

\* The stages of a process that knows its identity, and of one that was confirmed.
Knowing == {"marker", "ready", "running"} \cup Asking
Sure(p) == pc[p] \in {"verify", "enrolled", "running"} \/ (p = "provision" /\ pc[p] = "ok")

\* Why one machine is one agent: who knows the identity knows the one on disk,
\* which is replaced only where there is none.
Identified ==
  /\ ever \subseteq {identity}
  /\ marker = "verified" => identity \in ever
  /\ \A p \in Procs : pc[p] \in Knowing => loaded[p] = identity /\ identity # NoId
  /\ \A p \in Procs : Sure(p) => confirmed[p] = "yes" /\ loaded[p] = identity /\ identity \in ever

\* A process that leaves identity and server alone, and does not go where it must know.
LEMMA Elsewhere ==
  ASSUME Staged, Identified, UNCHANGED <<identity, marker, ever>>, NEW p \in Procs,
         \A q \in Procs : q # p => UNCHANGED <<pc[q], loaded[q], confirmed[q]>>,
         pc'[p] \notin Knowing, ~Sure(p)'
  PROVE  Identified'
<1>1. ASSUME NEW q \in Procs
      PROVE  /\ pc'[q] \in Knowing => loaded'[q] = identity' /\ identity' # NoId
             /\ Sure(q)' => confirmed'[q] = "yes" /\ loaded'[q] = identity' /\ identity' \in ever'
  <2>1. CASE q = p
    BY <2>1
  <2>2. CASE q # p
    BY <2>2 DEF Identified, Sure
  <2> QED BY <2>1, <2>2
<1> QED BY <1>1 DEF Identified, Sure

\* Stages without a request change no identity.
LEMMA IdleIdentified ==
  ASSUME Staged, Holdings, Identified, NEW p \in Procs,
         Lock(p) \/ Configure(p) \/ Ready(p) \/ Enrolled(p) \/ RunReturns(p) \/ Release(p)
  PROVE  Identified'
<1> USE DEF Identified, Sure, Staged, Knowing, Asking, idle, Procs
<1>1. CASE Lock(p) \/ Configure(p)
  <2>1. \E l \in {"configure", "identity", "migrate", "error"} : Go(p, l)
    BY <1>1 DEF Lock, Configure, Fail
  <2>2. /\ pc'[p] \in {"configure", "identity", "migrate", "error"}
        /\ \A q \in Procs : q # p => UNCHANGED <<pc[q], loaded[q], confirmed[q]>>
    BY <1>1, <2>1 DEF Go, Lock, Configure
  <2>3. UNCHANGED <<identity, marker, ever>>
    BY <1>1 DEF Lock, Configure
  <2>4. pc'[p] \notin Knowing /\ ~Sure(p)'
    BY <2>2
  <2> QED BY <2>2, <2>3, <2>4, Elsewhere
<1>2. CASE Ready(p) \/ Enrolled(p)
  BY <1>2 DEF Ready, Enrolled, Go
<1>3. CASE RunReturns(p)
  BY <1>3 DEF RunReturns, Go, Holdings
<1>4. CASE Release(p)
  BY <1>4 DEF Release
<1> QED BY <1>1, <1>2, <1>3, <1>4

\* Identity and marker: what there is is never replaced.
LEMMA StateIdentified ==
  ASSUME Staged, Identified, NEW p \in Procs, State(p)
  PROVE  Identified'
<1> USE RuntimeAssumption DEF Enroll!Go, Procs
<1>1. CASE Enroll!MigrateIdentity(p)
  <2>1. /\ pc'[p] \notin Knowing /\ ~Sure(p)'
        /\ \A q \in Procs : q # p => UNCHANGED <<pc[q], loaded[q], confirmed[q]>>
    BY <1>1 DEF Enroll!MigrateIdentity, Staged, Knowing, Asking, Sure
  <2>2. CASE UNCHANGED identity
    BY <1>1, <2>1, <2>2, Elsewhere DEF Enroll!MigrateIdentity, Enroll!remote
  <2>3. CASE identity = NoId
    <3>1. ever = {} /\ marker # "verified" /\ UNCHANGED <<ever, marker>>
      BY <1>1, <2>3 DEF Identified, Staged, Enroll!MigrateIdentity, Enroll!remote
    <3>2. \A q \in Procs : pc[q] \notin Knowing /\ ~Sure(q)
      BY <2>3, <3>1 DEF Identified
    <3>3. \A q \in Procs : pc'[q] \notin Knowing /\ ~Sure(q)'
      BY <2>1, <3>2 DEF Sure
    <3> QED BY <3>1, <3>3 DEF Identified
  <2> QED BY <1>1, <2>2, <2>3 DEF Enroll!MigrateIdentity
<1>2. CASE Enroll!loadIdentity(p)
  <2>1. UNCHANGED <<ever, marker, confirmed>>
        /\ \A q \in Procs : q # p => UNCHANGED <<pc[q], loaded[q]>>
    BY <1>2 DEF Enroll!loadIdentity, Enroll!remote, Staged
  <2>2. CASE identity = NoId
    <3>1. ever = {} /\ marker # "verified"
      BY <2>2 DEF Identified, Staged
    <3>2. \A q \in Procs : pc[q] \notin Knowing /\ ~Sure(q)
      BY <2>2, <3>1 DEF Identified
    <3>3. /\ ~Sure(p)'
          /\ pc'[p] \in Knowing => loaded'[p] = identity' /\ identity' # NoId
      BY <1>2, <2>2 DEF Enroll!loadIdentity, Staged, Knowing, Asking, Sure
    <3>4. \A q \in Procs : ~Sure(q)' /\ (q # p => pc'[q] \notin Knowing)
      BY <2>1, <3>2, <3>3 DEF Sure
    <3> QED BY <2>1, <3>1, <3>3, <3>4 DEF Identified
  <2>3. CASE identity # NoId
    <3>1. /\ UNCHANGED identity /\ ~Sure(p)'
          /\ pc'[p] \in Knowing => loaded'[p] = identity
      BY <1>2, <2>3 DEF Enroll!loadIdentity, Staged, Knowing, Asking, Sure
    <3>2. \A q \in Procs : q # p => (Sure(q)' <=> Sure(q))
      BY <2>1 DEF Sure
    <3> QED BY <2>1, <2>3, <3>1, <3>2 DEF Identified
  <2> QED BY <2>2, <2>3
<1>3. CASE Enroll!ReadEnrollment(p)
  <2>1. /\ UNCHANGED <<identity, marker, ever, loaded, confirmed>> /\ pc[p] = "marker"
        /\ pc'[p] \in {"exists", "ready", "error"} /\ \A q \in Procs : q # p => UNCHANGED pc[q]
    BY <1>3 DEF Enroll!ReadEnrollment, Enroll!files, Enroll!remote, Staged
  <2> QED BY <2>1 DEF Identified, Sure, Knowing
<1> QED BY <1>1, <1>2, <1>3 DEF State

\* The exchange with the server: nobody else moves, and only its answer confirms.
LEMMA EnsureIdentified ==
  ASSUME Staged, Identified, NEW p \in Procs, Ensure(p)
  PROVE  Identified'
<1>1. /\ pc[p] \in Asking /\ loaded[p] = identity /\ identity # NoId
      /\ UNCHANGED <<identity, loaded>>
      /\ \A q \in Procs : q # p => UNCHANGED <<pc[q], confirmed[q]>>
  <2>1. pc[p] \in Asking
    BY DEF Ensure, Enroll!EnsureEnrollment, Enroll!Send, Enroll!Redirect, Enroll!agentExists,
       Enroll!Backoff, Enroll!Interrupted, Enroll!WriteUnverified, Enroll!registerAgent,
       Enroll!WriteVerified, Asking
  <2>2. UNCHANGED <<identity, loaded>>
    BY DEF Ensure, Enroll!EnsureEnrollment, Enroll!Send, Enroll!Redirect, Enroll!agentExists,
       Enroll!Backoff, Enroll!Interrupted, Enroll!WriteUnverified, Enroll!registerAgent,
       Enroll!WriteVerified, Enroll!files
  <2>3. \A q \in Procs : q # p => UNCHANGED pc[q]
    <3>1. PICK l \in Stages : pc' = [pc EXCEPT ![p] = l]
      BY EnrollmentProceeds DEF Proceeds
    <3> QED BY <3>1 DEF Staged
  <2>4. \A q \in Procs : q # p => UNCHANGED confirmed[q]
    BY DEF Staged, Ensure, Enroll!EnsureEnrollment, Enroll!Send, Enroll!Redirect, Enroll!agentExists,
       Enroll!Backoff, Enroll!Interrupted, Enroll!WriteUnverified, Enroll!registerAgent,
       Enroll!WriteVerified
  <2> QED BY <2>1, <2>2, <2>3, <2>4 DEF Identified, Knowing
<1>2. ever \subseteq ever' /\ ever' \subseteq {identity}
  <2>1. CASE Enroll!registerAgent(p)
    BY <1>1, <2>1 DEF Identified, Staged, Enroll!registerAgent
  <2>2. CASE ~Enroll!registerAgent(p)
    BY <2>2 DEF Identified, Ensure, Enroll!EnsureEnrollment, Enroll!Send, Enroll!Redirect,
       Enroll!agentExists, Enroll!Backoff, Enroll!Interrupted, Enroll!WriteUnverified,
       Enroll!WriteVerified, Enroll!remote
  <2> QED BY <2>1, <2>2
<1>3. marker' = "verified" => identity \in ever'
  <2>1. CASE Enroll!WriteVerified(p)
    BY <1>2, <2>1 DEF Identified, Sure, Enroll!WriteVerified
  <2>2. CASE ~Enroll!WriteVerified(p)
    <3>1. marker' \in {marker, "unverified"}
      BY <2>2 DEF Ensure, Enroll!EnsureEnrollment, Enroll!Send, Enroll!Redirect,
         Enroll!agentExists, Enroll!Backoff, Enroll!Interrupted, Enroll!WriteUnverified,
         Enroll!registerAgent, Enroll!files
    <3> QED BY <1>2, <3>1 DEF Identified
  <2> QED BY <2>1, <2>2
<1>4. Sure(p)' => confirmed'[p] = "yes" /\ identity \in ever'
  <2>1. CASE Sure(p)
    <3>1. confirmed'[p] = "yes"
      BY <2>1 DEF Staged, Identified, Ensure, Enroll!EnsureEnrollment, Enroll!Send, Enroll!Redirect,
         Enroll!agentExists, Enroll!Backoff, Enroll!Interrupted, Enroll!WriteUnverified,
         Enroll!registerAgent, Enroll!WriteVerified
    <3> QED BY <1>2, <2>1, <3>1 DEF Identified
  <2>2. ASSUME ~Sure(p), Sure(p)'
        PROVE  confirmed'[p] = "yes" /\ identity \in ever'
    <3>1. /\ pc'[p] = "verify"
          /\ Enroll!agentExists(p) \/ Enroll!registerAgent(p)
      BY <2>2 DEF Staged, Sure, Procs, Enroll!Go, Enroll!Fail, Enroll!Interactive, Enroll!Unanswered,
         Ensure, Enroll!EnsureEnrollment, Enroll!Send, Enroll!Redirect, Enroll!agentExists,
         Enroll!Backoff, Enroll!Interrupted, Enroll!WriteUnverified, Enroll!registerAgent,
         Enroll!WriteVerified
    <3>2. CASE Enroll!agentExists(p)
      BY <1>1, <1>2, <3>1, <3>2 DEF Staged, Procs, Enroll!Go, Enroll!Fail, Enroll!Interactive,
         Enroll!Unanswered, Enroll!agentExists
    <3>3. CASE Enroll!registerAgent(p)
      BY <1>1, <1>2, <3>1, <3>3 DEF Staged, Procs, Enroll!Go, Enroll!Fail, Enroll!Interactive,
         Enroll!registerAgent
    <3> QED BY <3>1, <3>2, <3>3
  <2> QED BY <2>1, <2>2
<1>5. \A q \in Procs : q # p => (Sure(q)' <=> Sure(q))
  BY <1>1 DEF Sure
<1> QED BY <1>1, <1>2, <1>3, <1>4, <1>5 DEF Identified

\* A process that starts or ends knows nothing.
LEMMA LifeIdentified ==
  ASSUME Staged, Identified,
         \/ \E p \in Procs : Return(p) \/ Hang(p) \/ Crash(p)
         \/ StartService \/ Provision \/ StopDeadline
         \/ HostStep(Host!Execute) \/ HostStep(Host!Environment)
         \/ \E id \in Ids \cup {Old} : Forget(id)
  PROVE  Identified'
<1>1. ASSUME NEW p \in Procs, Return(p) \/ Hang(p) \/ Crash(p) PROVE Identified'
  <2>1. /\ UNCHANGED <<identity, marker, ever>>
        /\ \A q \in Procs : q # p => UNCHANGED <<pc[q], loaded[q], confirmed[q]>>
        /\ pc'[p] \in {"down", "hung"}
    BY <1>1 DEF Staged, Return, Hang, Crash, Exit, Forgotten, Go, idle
  <2>2. pc'[p] \notin Knowing /\ ~Sure(p)'
    BY <2>1 DEF Knowing, Asking, Sure
  <2> QED BY <2>1, <2>2, Elsewhere
<1>2. CASE StartService \/ Provision \/ StopDeadline
  <2>1. PICK p \in Procs :
          /\ UNCHANGED <<identity, marker, ever>>
          /\ \A q \in Procs : q # p => UNCHANGED <<pc[q], loaded[q], confirmed[q]>>
          /\ pc'[p] \in {"down", "lock"}
    BY <1>2 DEF Staged, StartService, Provision, StopDeadline, Exit, Forgotten, Go, idle, Procs
  <2>2. pc'[p] \notin Knowing /\ ~Sure(p)'
    BY <2>1 DEF Knowing, Asking, Sure
  <2> QED BY <2>1, <2>2, Elsewhere
<1>3. CASE HostStep(Host!Execute) \/ HostStep(Host!Environment)
  BY <1>3 DEF HostStep, enrollVars, Identified, Sure
<1>4. ASSUME NEW id \in Ids \cup {Old}, Forget(id) PROVE Identified'
  BY <1>4 DEF Forget, Enroll!Forget, Enroll!process, Enroll!files, Identified, Sure
<1> QED BY <1>1, <1>2, <1>3, <1>4

-----------------------------------------------------------------------------
(* Requests.                                                               *)

\* A process that is past its configuration found it valid, and .env stays.
Valid == LET mode == Policy!Mode(config.mode, TRUE)
         IN mode # "" /\ Policy!validateEndpoints(config, mode)

\* Why requests stay where they may go: where the first one goes is valid.
Requesting ==
  /\ OnWire /\ Confined
  /\ \A p \in Procs : pc[p] \in Opening \cup Asking => Valid

\* Confined, for a request.
Allowed(url) ==
  /\ url.host = config.api.host /\ url.user = "no"
  /\ url.scheme = "https" \/ (url.scheme = "http" /\ url.host \in LoopbackHosts)
  /\ Policy!Mode(config.mode, TRUE) = "production" => url.scheme = "https"

\* The configured endpoint is one a request may go to.
LEMMA ConfiguredAllowed ==
  ASSUME Valid PROVE Allowed(config.api)
BY DEF Valid, Allowed, Policy!validateEndpoints, Policy!ValidateEndpoint

\* Redirects are followed only to where a request may go.
LEMMA RedirectAllowed ==
  ASSUME NEW target \in Policy!URL, NEW previous \in Policy!URL, NEW hops \in Nat,
         Allowed(previous), Policy!CheckRedirect(target, previous, hops)
  PROVE  Allowed(target)
<1>1. /\ target.user = "no" /\ target.host = previous.host
      /\ target.scheme \in {"http", "https"}
      /\ previous.scheme = "https" => target.scheme = "https"
  BY DEF Policy!CheckRedirect
<1> QED BY <1>1 DEF Allowed

\* A request to where it may go is confined.
LEMMA SentAllowed ==
  ASSUME NEW url, Allowed(url), UNCHANGED config, wire'.url = url, wire'.sent \in 0..MaxHops
  PROVE  Confined'
<1>1. wire'.sent <= MaxHops
  BY RuntimeAssumption DEF Policy!TransportAssumption
<1> QED BY <1>1 DEF Confined, Allowed

\* A step that sends nothing and keeps the configuration.
LEMMA Quiet ==
  ASSUME Staged, Requesting, UNCHANGED config, UNCHANGED wire \/ wire' = Enroll!Idle,
         \A q \in Procs : pc'[q] \in Opening \cup Asking =>
            pc[q] \in Opening \cup Asking \/ Valid
  PROVE  Requesting'
<1>1. OnWire'
  BY IdleTyped DEF OnWire, Requesting, Staged
<1>2. Confined'
  <2>1. CASE UNCHANGED wire
    BY <2>1 DEF Confined, Requesting
  <2>2. CASE wire' = Enroll!Idle
    <3>1. wire'.sent = 0
      BY <2>2 DEF Enroll!Idle
    <3> QED BY <3>1 DEF Confined
  <2> QED BY <2>1, <2>2
<1>3. Valid' <=> Valid
  BY DEF Valid
<1> QED BY <1>1, <1>2, <1>3 DEF Requesting

\* Stages without a request send nothing.
LEMMA IdleRequesting ==
  ASSUME Staged, Requesting, NEW p \in Procs,
         Lock(p) \/ Configure(p) \/ Ready(p) \/ Enrolled(p) \/ RunReturns(p) \/ Release(p)
  PROVE  Requesting'
<1>1. UNCHANGED <<config, wire>>
  BY IdleKeeps DEF idle
<1>2. ASSUME NEW q \in Procs, pc'[q] \in Opening \cup Asking
      PROVE  pc[q] \in Opening \cup Asking \/ Valid
  <2>1. CASE Configure(p)
    BY <1>2, <2>1 DEF Staged, Configure, Valid, Fail, Go, Opening, Asking
  <2>2. CASE Lock(p) \/ Ready(p) \/ Enrolled(p) \/ RunReturns(p) \/ Release(p)
    BY <1>2, <2>2 DEF Staged, Lock, Ready, Enrolled, RunReturns, Release, Fail, Go, Opening, Asking
  <2> QED BY <2>1, <2>2
<1> QED BY <1>1, <1>2, Quiet

\* A process that ends hangs up.
LEMMA LifeRequesting ==
  ASSUME Staged, Requesting,
         \/ \E p \in Procs : Return(p) \/ Hang(p) \/ Crash(p)
         \/ StartService \/ Provision \/ StopDeadline
         \/ HostStep(Host!Execute) \/ HostStep(Host!Environment)
         \/ \E id \in Ids \cup {Old} : Forget(id)
  PROVE  Requesting'
<1> USE DEF Opening, Asking, Go, Forgotten, Exit, idle
<1>1. UNCHANGED config
  BY DEF Return, Hang, Crash, StartService, Provision, StopDeadline, HostStep, Forget
<1>2. UNCHANGED wire \/ wire' = Enroll!Idle
  BY DEF Return, Hang, Crash, StartService, Provision, StopDeadline, HostStep, enrollVars, Forget,
     Enroll!Forget
<1>3. ASSUME NEW q \in Procs, pc'[q] \in Opening \cup Asking
      PROVE  pc[q] \in Opening \cup Asking
  <2>1. ASSUME NEW p \in Procs, Return(p) \/ Hang(p) \/ Crash(p)
        PROVE  pc[q] \in Opening \cup Asking
    BY <1>3, <2>1 DEF Staged, Return, Hang, Crash
  <2>2. CASE StartService \/ Provision \/ StopDeadline
    BY <1>3, <2>2 DEF Staged, StartService, Provision, StopDeadline
  <2>3. CASE HostStep(Host!Execute) \/ HostStep(Host!Environment)
    BY <1>3, <2>3 DEF HostStep, enrollVars
  <2>4. CASE \E id \in Ids \cup {Old} : Forget(id)
    BY <1>3, <2>4 DEF Forget, Enroll!Forget, Enroll!process
  <2> QED BY <2>1, <2>2, <2>3, <2>4
<1> QED BY <1>1, <1>2, <1>3, Quiet

\* Enrollment asks the configured endpoint, or follows a redirect.
LEMMA EnrollmentRequesting ==
  ASSUME Staged, Requesting, NEW p \in Procs, State(p) \/ Ensure(p)
  PROVE  Requesting'
<1>1. PICK l \in Stages : pc' = [pc EXCEPT ![p] = l]
  BY EnrollmentProceeds DEF Proceeds
<1>2. UNCHANGED config /\ pc[p] \in Opening \cup Asking
  BY EnrollmentProceeds DEF Proceeds, Opening
<1>3. \A q \in Procs : pc'[q] \in Opening \cup Asking => pc[q] \in Opening \cup Asking
  BY <1>1, <1>2 DEF Staged
<1>4. CASE UNCHANGED wire \/ wire' = Enroll!Idle
  BY <1>2, <1>3, <1>4, Quiet
<1>5. CASE wire' = [url |-> config.api, sent |-> 1]
  <2>1. Valid
    BY <1>2 DEF Requesting
  <2>2. Allowed(config.api) /\ config.api \in Policy!URL
    BY <2>1, ConfiguredAllowed, IdleTyped, RuntimeAssumption DEF Staged, Policy!Config
  <2>3. 1 \in 0..MaxHops
    BY RuntimeAssumption DEF Policy!TransportAssumption
  <2>4. wire'.sent = 1 /\ wire'.url = config.api
    BY <1>5
  <2>5. OnWire'
    BY <1>5, <2>2, <2>3 DEF OnWire
  <2>6. Confined'
    <3>1. PICK url : url = config.api
      OBVIOUS
    <3> QED BY <1>2, <2>2, <2>3, <2>4, <3>1, SentAllowed
  <2>7. Valid'
    BY <1>2, <2>1 DEF Valid
  <2> QED BY <2>5, <2>6, <2>7 DEF Requesting
<1>6. ASSUME NEW target \in Targets, Policy!CheckRedirect(target, wire.url, wire.sent), wire.sent > 0,
             wire' = [url |-> target, sent |-> wire.sent + 1]
      PROVE  Requesting'
  <2>1. wire.url \in Policy!URL /\ wire.sent \in 0..MaxHops /\ target \in Policy!URL
    BY RuntimeAssumption DEF Requesting, OnWire
  <2>2. wire.sent < MaxHops /\ MaxHops \in Nat
    BY <1>6, RuntimeAssumption DEF Policy!CheckRedirect, Policy!TransportAssumption
  <2>3. Allowed(wire.url)
    BY <1>6 DEF Requesting, Confined, Allowed
  <2>4. Allowed(target)
    BY <1>6, <2>1, <2>2, <2>3, RedirectAllowed
  <2>5. wire.sent + 1 \in 0..MaxHops
    BY <2>1, <2>2
  <2>6. wire'.sent = wire.sent + 1 /\ wire'.url = target
    BY <1>6
  <2>7. OnWire'
    BY <1>6, <2>1, <2>5 DEF OnWire
  <2>8. Confined'
    BY <1>2, <2>4, <2>5, <2>6, SentAllowed
  <2>9. Valid /\ Valid'
    BY <1>2 DEF Requesting, Valid
  <2> QED BY <2>7, <2>8, <2>9 DEF Requesting
<1>7. \/ UNCHANGED wire \/ wire' = Enroll!Idle
      \/ wire' = [url |-> config.api, sent |-> 1]
      \/ Enroll!Redirect(p)
  BY DEF State, Ensure, Enroll!EnsureEnrollment, Enroll!MigrateIdentity, Enroll!loadIdentity,
     Enroll!ReadEnrollment, Enroll!Send, Enroll!agentExists, Enroll!Unanswered, Enroll!HangUp,
     Enroll!Backoff, Enroll!Interrupted, Enroll!WriteUnverified, Enroll!registerAgent,
     Enroll!WriteVerified
<1>8. CASE Enroll!Redirect(p)
  <2>1. PICK target \in Targets :
          IF Enroll!Policy!CheckRedirect(target, wire.url, wire.sent)
          THEN wire' = [url |-> target, sent |-> wire.sent + 1]
          ELSE wire' = Enroll!Idle
    BY <1>8 DEF Enroll!Redirect, Enroll!Unanswered, Enroll!HangUp
  <2>2. wire.sent > 0
    BY <1>8 DEF Enroll!Redirect
  <2>3. Enroll!Policy!CheckRedirect(target, wire.url, wire.sent)
          <=> Policy!CheckRedirect(target, wire.url, wire.sent)
    BY DEF Policy!CheckRedirect, Enroll!Policy!CheckRedirect, Policy!port, Enroll!Policy!port
  <2> QED BY <1>4, <1>6, <2>1, <2>2, <2>3
<1> QED BY <1>4, <1>5, <1>7, <1>8

-----------------------------------------------------------------------------
(* The machine.                                                            *)

Inv == Held /\ Truthful /\ Identified /\ Requesting

\* The invariant is inductive.
LEMMA NextKeeps ==
  ASSUME Inv, [Next]_vars PROVE Inv'
<1> USE DEF Inv, Held
<1>1. Truthful'
  BY HostSteps, HostTruthful
<1>2. ASSUME NEW p \in Procs,
             Lock(p) \/ Configure(p) \/ Ready(p) \/ Enrolled(p) \/ RunReturns(p) \/ Release(p)
      PROVE  Inv'
  BY <1>1, <1>2, IdleKeeps, LockHolds, ConfigureHolds, ReadyHolds, EndHolds, ReleaseHolds,
     IdleIdentified, IdleRequesting
<1>3. ASSUME NEW p \in Procs, State(p) \/ Ensure(p)
      PROVE  Inv'
  <2>1. loaded[p] \in Ids \cup {Old} \/ State(p)
    <3>1. ASSUME Ensure(p) PROVE loaded[p] \in Ids \cup {Old}
      <4>1. pc[p] \in Knowing
        BY <3>1 DEF Ensure, Enroll!EnsureEnrollment, Enroll!Send, Enroll!Redirect, Enroll!agentExists,
           Enroll!Backoff, Enroll!Interrupted, Enroll!WriteUnverified, Enroll!registerAgent,
           Enroll!WriteVerified, Knowing, Asking
      <4> QED BY <4>1 DEF Identified, Staged
    <3> QED BY <1>3, <3>1
  <2>2. Staged'
    BY <1>3, <2>1, EnrollmentKeeps
  <2> QED BY <1>1, <1>3, <2>2, EnrollmentHolds, StateIdentified, EnsureIdentified, EnrollmentRequesting
<1>4. ASSUME \/ \E p \in Procs : Return(p) \/ Hang(p) \/ Crash(p)
             \/ StartService \/ Provision \/ StopDeadline
             \/ HostStep(Host!Execute) \/ HostStep(Host!Environment)
             \/ \E id \in Ids \cup {Old} : Forget(id)
      PROVE  Inv'
  <2>1. Staged' /\ Identified' /\ Requesting'
    BY <1>4, LifeKeeps, LifeIdentified, LifeRequesting
  <2>2. Holdings' /\ Hosting'
    <3>1. ASSUME NEW id \in Ids \cup {Old}, Forget(id) PROVE Holdings' /\ Hosting'
      BY <3>1 DEF Forget, Enroll!Forget, Enroll!process, hostVars, Holdings, Hosting
    <3> QED BY <1>4, <3>1, ReleaseHolds, LifeHolds, HostHolds
  <2> QED BY <1>1, <2>1, <2>2
<1>5. CASE UNCHANGED vars
  <2>1. UNCHANGED <<hostVars, enrollVars, config, held>>
    BY <1>5 DEF vars
  <2>2. Staged'
    BY <2>1 DEF Staged, enrollVars
  <2>3. Holdings' /\ Hosting'
    BY <2>1 DEF Holdings, Hosting, enrollVars, hostVars
  <2>4. Identified'
    BY <2>1 DEF Identified, Sure, enrollVars
  <2>5. Requesting'
    BY <2>1 DEF Requesting, OnWire, Confined, Valid, enrollVars
  <2> QED BY <1>1, <2>2, <2>3, <2>4, <2>5
<1> QED BY <1>2, <1>3, <1>4, <1>5 DEF Next, Process

\* The invariant holds of the machine.
LEMMA SpecInv == Spec => []Inv
<1>1. ASSUME Init PROVE Inv
  <2> USE RuntimeAssumption
  <2>1. Held
    <3>1. Staged
      <4>1. pc \in [Procs -> Stages] /\ held \in [Procs -> Seq(Resources)]
        BY <1>1 DEF Init, Stages
      <4>2. loaded \in [Procs -> Ids \cup {Old, NoId}] /\ confirmed \in [Procs -> {"no", "yes"}]
        BY <1>1 DEF Init
      <4>3. faults \in 0..MaxFaults /\ forgets \in 0..MaxForgets
        BY <1>1 DEF Init
      <4> QED BY <1>1, <4>1, <4>2, <4>3 DEF Init, Staged
    <3> QED BY <1>1, <3>1 DEF Init, Held, Holdings, Hosting, Procs, Opening, Asking, Host!Init
  <2>2. Truthful
    BY <1>1 DEF Init, Host!Init, Truthful, Host!StatusTruthful, Host!TypeOK, Host!Codes
  <2>3. Identified
    BY <1>1 DEF Init, Identified, Sure, Knowing, Asking
  <2>4. Requesting
    <3>1. OnWire
      BY <1>1, IdleTyped DEF Init, OnWire
    <3>2. Confined
      BY <1>1 DEF Init, Confined, Enroll!Idle
    <3> QED BY <1>1, <3>1, <3>2 DEF Init, Requesting, Opening, Asking
  <2> QED BY <2>1, <2>2, <2>3, <2>4 DEF Inv
<1> QED BY <1>1, NextKeeps, PTL DEF Spec

\* What the SCM and the administrator are told is true of the machine: Running, exit
\* code 0, and that one process at a time has the lock (host_windows.go:67, runtime.go:93).
THEOREM StatusIsTruthful == Spec => []StatusTruthful
<1>1. ASSUME Inv PROVE StatusTruthful
  <2> USE <1>1 DEF Inv, Held
  <2>1. TypeOK
    BY DEF TypeOK, Truthful, Host!StatusTruthful, Staged, Requesting, OnWire
  <2>2. exit # "none" => held["service"] = <<>>
    BY DEF Hosting, Holdings, Procs
  <2>3. exit = "0" => stopping = "yes"
    BY DEF Truthful, Host!StatusTruthful, Hosting
  <2>4. ASSUME status = "Running", pc["service"] \notin {"ok", "error", "hung", "down"}
        PROVE  /\ Len(held["service"]) >= 3
               /\ SubSeq(held["service"], 1, 3) = <<"lock", "logs", "client">>
               /\ loaded["service"] = identity /\ identity # NoId
    <3>1. pc["service"] \in Asking \cup {"running"}
      BY <2>4 DEF Truthful, Host!StatusTruthful, Hosting, Staged, Stages, Enroll!EnrollmentStages,
         Opening, Asking, Procs
    <3>2. held["service"] \in {<<"lock", "logs", "client">>, <<"lock", "logs", "client", "helper">>}
      BY <3>1 DEF Holdings, Procs
    <3>3. loaded["service"] = identity /\ identity # NoId
      BY <3>1 DEF Identified, Knowing, Procs
    <3>4. Len(held["service"]) >= 3 /\ SubSeq(held["service"], 1, 3) = <<"lock", "logs", "client">>
      <4>1. CASE held["service"] = <<"lock", "logs", "client">>
        <5>1. SubSeq(held["service"], 1, 3) = <<"lock", "logs", "client">>
          BY <4>1, Given, Zenon
        <5> QED BY <4>1, <5>1
      <4>2. CASE held["service"] = <<"lock", "logs", "client", "helper">>
        <5>1. SubSeq(held["service"], 1, 3) = <<"lock", "logs", "client">>
          BY <4>2, Given, Zenon
        <5> QED BY <4>2, <5>1
      <4> QED BY <3>2, <4>1, <4>2
    <3> QED BY <3>3, <3>4
  <2> QED BY <2>1, <2>2, <2>3, <2>4 DEF StatusTruthful, Truthful, Holdings
<1> QED BY <1>1, SpecInv, PTL

\* However often enrollment is interrupted and repeated, by either process, the server
\* learns one ID, the one on disk (registration.go:93).
THEOREM MachineIsOneAgent == Spec => []OneAgentPerMachine
<1>1. Inv => OneAgentPerMachine
  BY DEF Inv, Identified, OneAgentPerMachine
<1> QED BY <1>1, SpecInv, PTL

\* A client runs, and provisioning succeeds, only when the server confirmed the agent
\* on disk to this very process (registration.go:130).
THEOREM ClientsAreConfirmed == Spec => []RunsOnlyConfirmed
<1>1. Inv => RunsOnlyConfirmed
  BY DEF Inv, Identified, Sure, RunsOnlyConfirmed
<1> QED BY <1>1, SpecInv, PTL

\* No request goes anywhere but to the configured host, nor in the clear unless it may,
\* whatever the server redirects it to (policy.go:62).
THEOREM RequestsAreConfined == Spec => []Confined
<1>1. Inv => Confined
  BY DEF Inv, Requesting
<1> QED BY <1>1, SpecInv, PTL

=============================================================================
