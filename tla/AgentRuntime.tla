---------------------------- MODULE AgentRuntime ----------------------------
(***************************************************************************)
(* internal/agent/runtime.go: what the processes of one machine do from    *)
(* start to end.  Two processes use the machine's files: the service, run  *)
(* by ServiceHost under the SCM, and an administrator's provisioning       *)
(* (main.go -provision).  Each acquires the runtime lock, the logs and the *)
(* client in that order and gives back what it holds in the reverse order. *)
(* A console run keeps its files in its own directory and is left out.     *)
(*                                                                         *)
(* A process may hang in a call of the operating system or be killed at    *)
(* any step.  The gate in front of the service's lock is ProtectedPath's.  *)
(***************************************************************************)
EXTENDS Naturals, Sequences, FiniteSets

CONSTANTS Ids, Old, NoId, Hosts, LoopbackHosts, NoHost, Ports, Targets,
          Configs,      \* what .env may say
          MaxRequests,  \* bound: control requests waiting
          MaxFaults,    \* bound: failures, crashes and hangs
          MaxForgets,   \* bound: times the server's administrator deletes the agent
          MaxHops

VARIABLES
  status, stopping, readyCh, startTimer, stopTimer, requests, channel,
  runtime, doneCh, exit,                                       \* ServiceHost
  pc, loaded, confirmed, identity, marker, server, ever, wire, faults, forgets,
                                                               \* Enrollment
  config,   \* .env
  held      \* what each process has to give back, in the order it acquired it

Host == INSTANCE ServiceHost
Enroll == INSTANCE Enrollment WITH cancelled <- stopping
Policy == INSTANCE TransportPolicy

ASSUME RuntimeAssumption ==
  /\ NoId \notin Ids \cup {Old}
  /\ MaxRequests \in Nat /\ MaxFaults \in Nat /\ MaxForgets \in Nat
  /\ Configs \subseteq Policy!Config /\ Targets \subseteq Policy!URL
  /\ Policy!TransportAssumption

Procs == {"service", "provision"}
hostVars == <<status, stopping, readyCh, startTimer, stopTimer, requests, channel,
              runtime, doneCh, exit>>
enrollVars == <<pc, loaded, confirmed, identity, marker, server, ever, wire, faults, forgets>>
vars == <<hostVars, enrollVars, config, held>>

Stages == {"down", "lock", "configure", "migrate", "ready", "enrolled", "running", "hung",
           "ok", "error"} \cup Enroll!EnrollmentStages
Resources == {"lock", "logs", "client", "helper"}

TypeOK ==
  /\ Host!TypeOK
  /\ pc \in [Procs -> Stages]
  /\ identity \in Ids \cup {Old, NoId} /\ loaded \in [Procs -> Ids \cup {Old, NoId}]
  /\ marker \in {"absent", "unverified", "verified"}
  /\ confirmed \in [Procs -> {"no", "yes"}]
  /\ server \subseteq ever /\ ever \subseteq Ids \cup {Old}
  /\ wire \in [url : Policy!URL, sent : 0..MaxHops]
  /\ faults \in 0..MaxFaults /\ forgets \in 0..MaxForgets
  /\ config \in Configs
  /\ held \in [Procs -> Seq(Resources)]

\* The machine boots: the SCM starts the service.
Init ==
  /\ Host!Init
  /\ pc = [p \in Procs |-> IF p = "service" THEN "lock" ELSE "down"]
  /\ identity = NoId /\ loaded = [p \in Procs |-> NoId]
  /\ marker = "absent" /\ confirmed = [p \in Procs |-> "no"]
  /\ server = {} /\ ever = {} /\ faults = 0 /\ forgets = 0
  /\ config \in Configs
  /\ wire = Enroll!Idle
  /\ held = [p \in Procs |-> <<>>]

-----------------------------------------------------------------------------
(* A process: runWithSecurity, one stage after the other.                  *)

Go(p, label) == pc' = [pc EXCEPT ![p] = label]
Acquire(p, resource) == held' = [held EXCEPT ![p] = Append(@, resource)]
Fail(p) == Enroll!Fault /\ Go(p, "error") /\ UNCHANGED held
Locked == \E p \in Procs : held[p] # <<>>
idle == <<loaded, confirmed, identity, marker, server, ever, wire, config>>

\* The byte lock is refused while another process holds it.  The service's lock
\* is taken inside the gate, which may refuse for its own reasons.
Lock(p) ==
  /\ pc[p] = "lock"
  /\ \/ ~Locked /\ Enroll!NoFault /\ Acquire(p, "lock") /\ Go(p, "configure")
     \/ Locked /\ Enroll!NoFault /\ Go(p, "error") /\ UNCHANGED held
     \/ Fail(p)
  /\ UNCHANGED <<hostVars, idle>>

\* .env is read, the logs are opened, then mode, endpoints and roots validated.
\* Provisioning goes on to a migration if it was given an identity to migrate.
Configure(p) ==
  /\ pc[p] = "configure"
  /\ LET mode == Policy!Mode(config.mode, TRUE)
         valid == mode # "" /\ Policy!validateEndpoints(config, mode)
     IN \/ Fail(p)
        \/ /\ Enroll!NoFault /\ Acquire(p, "logs")
           /\ \/ valid /\ Go(p, "identity")
              \/ valid /\ p = "provision" /\ Go(p, "migrate")
              \/ ~valid /\ Go(p, "error")
        \/ Enroll!Fault /\ Acquire(p, "logs") /\ Go(p, "error")
  /\ UNCHANGED <<hostVars, idle>>

\* Identity and marker, then for provisioning EnsureEnrollment: files only.
State(p) ==
  /\ Enroll!MigrateIdentity(p) \/ Enroll!loadIdentity(p) \/ Enroll!ReadEnrollment(p)
  /\ UNCHANGED <<hostVars, config, held>>

\* The client is created, then the host is told that local startup is done.
Ready(p) ==
  /\ pc[p] = "ready"
  /\ Acquire(p, "client")
  /\ \/ Enroll!NoFault /\ Host!RuntimeReady /\ Go(p, "exists")
     \/ Enroll!Fault /\ Go(p, "error") /\ UNCHANGED hostVars
  /\ UNCHANGED idle

Ensure(p) == Enroll!EnsureEnrollment(p) /\ UNCHANGED <<hostVars, config, held>>

\* Provisioning is complete; the service creates the helper and runs the client.
Enrolled(p) ==
  /\ pc[p] = "enrolled"
  /\ IF p = "provision"
     THEN Go(p, "ok") /\ UNCHANGED held
     ELSE Go(p, "running") /\ Acquire(p, "helper")
  /\ UNCHANGED <<hostVars, idle, faults, forgets>>

\* wsClient.Run returns, without error, when the context is cancelled.
RunReturns(p) ==
  /\ pc[p] = "running" /\ stopping = "yes"
  /\ Go(p, "ok")
  /\ UNCHANGED <<hostVars, idle, held, faults, forgets>>

\* The deferred calls, last acquired first: helper, client, logs, lock.
Release(p) ==
  /\ pc[p] \in {"ok", "error"} /\ held[p] # <<>>
  /\ held' = [held EXCEPT ![p] = SubSeq(@, 1, Len(@) - 1)]
  /\ UNCHANGED <<hostVars, pc, idle, faults, forgets>>

\* What a process had in memory ends with it.
Forgotten(p) ==
  /\ Go(p, "down")
  /\ loaded' = [loaded EXCEPT ![p] = NoId] /\ confirmed' = [confirmed EXCEPT ![p] = "no"]
  /\ UNCHANGED <<identity, marker, server, ever, config>>

\* agent.Run returns to the host, or to main.
Return(p) ==
  /\ pc[p] \in {"ok", "error"} /\ held[p] = <<>>
  /\ Forgotten(p)
  /\ IF p = "service" THEN Host!RuntimeReturns(pc[p]) ELSE UNCHANGED hostVars
  /\ UNCHANGED <<wire, held, faults, forgets>>

Process(p) ==
  \/ Lock(p) \/ Configure(p) \/ State(p) \/ Ready(p) \/ Ensure(p) \/ Enrolled(p)
  \/ RunReturns(p) \/ Release(p) \/ Return(p)

-----------------------------------------------------------------------------
(* Starts, hangs and ends of processes.                                    *)

StartService ==
  /\ pc["service"] = "down" /\ Host!Start /\ Go("service", "lock")
  /\ UNCHANGED <<idle, faults, forgets, held>>

\* An administrator provisions.
Provision ==
  /\ pc["provision"] = "down" /\ Go("provision", "lock")
  /\ UNCHANGED <<hostVars, idle, faults, forgets, held>>

\* A call of the operating system does not return.
Hang(p) ==
  /\ pc[p] \notin {"down", "hung"} /\ Enroll!Fault
  /\ Go(p, "hung")
  /\ UNCHANGED <<hostVars, idle, held>>

\* The process ends: the operating system takes back whatever it holds.
Exit(p) ==
  /\ Forgotten(p) /\ held' = [held EXCEPT ![p] = <<>>]
  /\ wire' = IF held[p] = <<>> THEN wire ELSE Enroll!Idle

Crash(p) ==
  /\ pc[p] # "down" /\ Enroll!Fault /\ Exit(p)
  /\ IF p = "service" THEN Host!Crash ELSE UNCHANGED hostVars

\* The last resort of the host: the process exits without its runtime.
StopDeadline == Host!StopDeadline /\ Exit("service") /\ UNCHANGED <<faults, forgets>>

HostStep(step) == step /\ UNCHANGED <<enrollVars, config, held>>

Forget(id) == Enroll!Forget(id) /\ UNCHANGED <<hostVars, config, held>>

Next ==
  \/ \E p \in Procs : Process(p) \/ Hang(p) \/ Crash(p)
  \/ StartService \/ Provision \/ StopDeadline
  \/ HostStep(Host!Execute) \/ HostStep(Host!Environment)
  \/ \E id \in Ids \cup {Old} : Forget(id)

Spec == Init /\ [][Next]_vars

HostRuns ==
  \/ HostStep(Host!Execute) \/ HostStep(Host!StartTimerFires)
  \/ HostStep(Host!StopTimerFires) \/ StopDeadline

\* The host's loop runs and its timers fire: between a start and an end of the
\* process these are finitely many steps.  A service that does not hang goes on;
\* faults are finitely many, so the API answers in the end.  Nothing is assumed of
\* provisioning, nor that the SCM starts or stops anything.
FairSpec == Spec /\ WF_vars(HostRuns) /\ WF_vars(Process("service"))

-----------------------------------------------------------------------------
(* Properties.                                                             *)

\* What the SCM and the administrator are told is true of the machine.  Running
\* means a service with its lock, logs and client and an identity in use, or one
\* that is on its way out (host_windows.go:67, runtime.go:212); exit code 0 means
\* a stop that was asked for and gave everything back (host_windows.go:93); and no
\* two processes hold anything at the same time (runtime.go:93).
StatusTruthful ==
  /\ TypeOK
  /\ Host!StatusTruthful
  /\ status = "Running" /\ pc["service"] \notin {"ok", "error", "hung", "down"} =>
       /\ Len(held["service"]) >= 3
       /\ SubSeq(held["service"], 1, 3) = <<"lock", "logs", "client">>
       /\ loaded["service"] = identity /\ identity # NoId
  /\ exit = "0" => stopping = "yes"
  /\ exit # "none" => held["service"] = <<>>
  /\ held["service"] = <<>> \/ held["provision"] = <<>>

\* The host's promise holds whatever the runtime does: startup and shutdown are
\* bounded although any call may hang (host_windows.go:87, 101).
DeadlinesBind == Host!DeadlinesBind

\* One machine is one agent: however often creation, migration, registration and
\* the marker are interrupted and repeated, by either process, the server never
\* learns a second ID, and the one it learns is the one on disk
\* (registration.go:93).  A marker that says verified is true of the past.
OneAgentPerMachine ==
  /\ ever \subseteq {identity}
  /\ marker = "verified" => identity \in ever

\* "A historical marker never bypasses the server existence check": a client
\* runs, and provisioning succeeds, only if the server confirmed the agent on disk
\* to this very process.
RunsOnlyConfirmed ==
  \A p \in Procs :
    pc[p] \in {"enrolled", "running"} \/ (p = "provision" /\ pc[p] = "ok") =>
      confirmed[p] = "yes" /\ loaded[p] = identity /\ loaded[p] \in ever

\* No request, with an agent ID or a registration token in it, goes anywhere but
\* to the configured host, in the clear only to this machine, and in production
\* never in the clear; no server keeps it going for ever (policy.go:62).
Confined ==
  wire.sent > 0 =>
    /\ wire.sent <= MaxHops
    /\ wire.url.host = config.api.host /\ wire.url.user = "no"
    /\ wire.url.scheme = "https"
       \/ (wire.url.scheme = "http" /\ wire.url.host \in LoopbackHosts)
    /\ Policy!Mode(config.mode, TRUE) = "production" => wire.url.scheme = "https"

\* "Temporary API failures retry unattended": waiting always ends, with a
\* running client, with a process that ends, or in a call that hangs.
RetrySettles ==
  pc["service"] = "backoff" ~> pc["service"] \in {"running", "ok", "error", "hung", "down"}
=============================================================================
