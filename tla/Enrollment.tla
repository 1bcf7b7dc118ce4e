----------------------------- MODULE Enrollment -----------------------------
(***************************************************************************)
(* service/registration.go, agent_id.go and enrollment_state.go: how a     *)
(* machine gets one identity and how the server comes to know it.  The     *)
(* actions are those of one process of the machine; AgentRuntime puts them *)
(* in the order internal/agent/runtime.go calls them, one process at a     *)
(* time under the runtime lock.                                            *)
(*                                                                         *)
(* A process runs unattended (the service) or interactively (provisioning).*)
(* Its requests to the REST API may be lost, refused or redirected, and    *)
(* its writes may fail.                                                    *)
(***************************************************************************)
EXTENDS Naturals, FiniteSets

CONSTANTS Ids,         \* agent IDs that uuid.NewString may produce
          Old,         \* the agent ID of an identity offered for migration
          NoId,        \* no identity file
          Targets,     \* URLs a server may redirect a request to
          MaxFaults,   \* bound: lost or refused requests, failed writes, crashes, hangs
          MaxForgets,  \* bound: times the server's administrator deletes the agent
          Hosts, LoopbackHosts, NoHost, Ports, MaxHops

VARIABLES
  pc,         \* what each process does
  loaded,     \* the agent ID each process works with
  confirmed,  \* history: the server has answered for it to this process: no or yes
  identity,   \* the agent ID in agent_config.json
  marker,     \* enrollment_state.json: absent, unverified or verified
  server,     \* agent IDs the server knows
  ever,       \* history: agent IDs it ever knew
  wire,       \* the request under way: the URL it was last sent to, and how often it was sent
  config,     \* .env
  cancelled,  \* the service's context is cancelled: no or yes
  faults, forgets

Policy == INSTANCE TransportPolicy

EnrollmentStages == {"identity", "marker", "exists", "backoff", "unverify", "register", "verify"}
files == <<identity, marker>>
remote == <<server, ever>>
process == <<pc, loaded, confirmed>>
bounds == <<faults, forgets>>
enrollment == <<process, files, remote, wire, bounds>>

-----------------------------------------------------------------------------
Interactive(p) == p = "provision"
Go(p, label) == pc' = [pc EXCEPT ![p] = label]
Fault == faults < MaxFaults /\ faults' = faults + 1 /\ UNCHANGED forgets
NoFault == UNCHANGED bounds

\* Idle: nothing is sent; the endpoint is only a place holder.
Idle == [url |-> config.api, sent |-> 0]
HangUp == wire' = Idle

\* EnsureEnrollment fails: a service that is being stopped returns without error.
Fail(p) == Go(p, IF cancelled = "yes" /\ ~Interactive(p) THEN "ok" ELSE "error")

\* MigrateIdentity: nothing is overwritten; a different identity is a conflict.
\* The copy is verified.
MigrateIdentity(p) ==
  /\ pc[p] = "migrate"
  /\ \/ identity = Old /\ NoFault /\ Go(p, "identity") /\ UNCHANGED identity
     \/ identity \notin {Old, NoId} /\ NoFault /\ Go(p, "error") /\ UNCHANGED identity
     \/ identity = NoId /\ NoFault /\ identity' = Old /\ Go(p, "identity")
     \/ identity = NoId /\ Fault /\ identity' \in {NoId, Old} /\ Go(p, "error")
  /\ UNCHANGED <<loaded, confirmed, marker, remote, wire>>

\* Mutant: A failed creation is ignored: the generated identity is used.
LoadIdentityUnchecked(p) ==
  /\ pc[p] = "identity" /\ Go(p, "marker")
  /\ \/ /\ identity # NoId /\ NoFault
        /\ loaded' = [loaded EXCEPT ![p] = identity] /\ UNCHANGED identity
     \/ /\ identity = NoId /\ Interactive(p) /\ Fault
        /\ \E id \in Ids \ ever :
             loaded' = [loaded EXCEPT ![p] = id] /\ UNCHANGED identity
  /\ UNCHANGED <<confirmed, marker, remote, wire>>

\* loadIdentity: an existing file is used as it is, an unattended process stops
\* without one, an interactive one creates it with an exclusive write.
loadIdentity(p) ==
  /\ pc[p] = "identity"
  /\ \/ /\ identity # NoId /\ NoFault
        /\ loaded' = [loaded EXCEPT ![p] = identity] /\ Go(p, "marker")
        /\ UNCHANGED identity
     \/ /\ identity = NoId /\ Interactive(p)
        /\ \E id \in Ids \ ever :
             \/ /\ NoFault /\ identity' = id
                /\ loaded' = [loaded EXCEPT ![p] = id] /\ Go(p, "marker")
             \/ Fault /\ identity' \in {NoId, id} /\ Go(p, "error") /\ UNCHANGED loaded
     \/ /\ Fault \/ (identity = NoId /\ ~Interactive(p) /\ NoFault)
        /\ Go(p, "error") /\ UNCHANGED <<identity, loaded>>
  /\ UNCHANGED <<confirmed, marker, remote, wire>>

\* Mutant: A verified marker replaces the question to the server.
ReadEnrollmentTrusting(p) ==
  /\ pc[p] = "marker" /\ NoFault
  /\ Go(p, IF marker = "verified" THEN "enrolled"
           ELSE IF Interactive(p) THEN "exists" ELSE "ready")
  /\ UNCHANGED <<loaded, confirmed, files, remote, wire>>

\* ReadEnrollment: its answer is only logged, the server is asked in any case.
ReadEnrollment(p) ==
  /\ pc[p] = "marker"
  /\ \/ NoFault /\ Go(p, IF Interactive(p) THEN "exists" ELSE "ready")
     \/ Fault /\ Go(p, "error")
  /\ UNCHANGED <<loaded, confirmed, files, remote, wire>>

-----------------------------------------------------------------------------
(* Requests: agentExists and registerAgent send one exchange each.         *)

\* A registration first reads the token, which may fail.
Send(p) ==
  /\ pc[p] \in {"exists", "register"} /\ wire.sent = 0
  /\ \/ NoFault /\ wire' = [url |-> config.api, sent |-> 1] /\ UNCHANGED pc
     \/ pc[p] = "register" /\ Fault /\ Fail(p) /\ UNCHANGED wire
  /\ UNCHANGED <<loaded, confirmed, files, remote>>

\* A failed question is temporary, and only the service repeats it; a failed
\* registration ends the process.
Unanswered(p) ==
  /\ HangUp
  /\ IF pc[p] = "exists" /\ ~Interactive(p) THEN Go(p, "backoff") ELSE Fail(p)

\* The server redirects; the client follows what CheckRedirect allows.
Redirect(p) ==
  /\ pc[p] \in {"exists", "register"} /\ wire.sent > 0
  /\ \E target \in Targets :
       IF Policy!CheckRedirect(target, wire.url, wire.sent)
       THEN NoFault /\ wire' = [url |-> target, sent |-> wire.sent + 1] /\ UNCHANGED pc
       ELSE Fault /\ Unanswered(p)
  /\ UNCHANGED <<loaded, confirmed, files, remote>>

\* Mutant: A 404 is taken for a temporary failure.
AgentExistsPatient(p) ==
  /\ pc[p] = "exists" /\ wire.sent > 0 /\ NoFault /\ HangUp
  /\ IF loaded[p] \in server
     THEN confirmed' = [confirmed EXCEPT ![p] = "yes"] /\ Go(p, "verify")
     ELSE Go(p, "backoff") /\ UNCHANGED confirmed
  /\ UNCHANGED <<loaded, files, remote>>

\* agentExists: 204, 404, a temporary failure or a permanent one.
agentExists(p) ==
  /\ pc[p] = "exists" /\ wire.sent > 0
  /\ \/ /\ NoFault /\ loaded[p] \in server /\ HangUp
        /\ confirmed' = [confirmed EXCEPT ![p] = "yes"] /\ Go(p, "verify")
     \/ /\ NoFault /\ loaded[p] \notin server /\ HangUp
        /\ Go(p, "unverify") /\ UNCHANGED confirmed
     \/ Fault /\ Unanswered(p) /\ UNCHANGED confirmed
     \/ Fault /\ HangUp /\ Fail(p) /\ UNCHANGED confirmed
  /\ UNCHANGED <<loaded, files, remote>>

\* retry.Wait, then the server is asked again.
Backoff(p) ==
  /\ pc[p] = "backoff" /\ cancelled = "no"
  /\ Go(p, "exists")
  /\ UNCHANGED <<loaded, confirmed, files, remote, wire, bounds>>

\* A request or a wait under a cancelled context is given up.
Interrupted(p) ==
  /\ pc[p] \in {"exists", "backoff"} /\ ~Interactive(p) /\ cancelled = "yes"
  /\ HangUp /\ Fail(p)
  /\ UNCHANGED <<loaded, confirmed, files, remote, bounds>>

\* After a 404 the marker is withdrawn; an unattended process gives up.
WriteUnverified(p) ==
  /\ pc[p] = "unverify"
  /\ \/ /\ NoFault /\ marker' = "unverified"
        /\ IF Interactive(p) THEN Go(p, "register") ELSE Fail(p)
     \/ Fault /\ marker' \in {marker, "unverified"} /\ Fail(p)
  /\ UNCHANGED <<loaded, confirmed, identity, remote, wire>>

\* A registration that fails may have been carried out.
registerAgent(p) ==
  /\ pc[p] = "register" /\ wire.sent > 0 /\ HangUp
  /\ \/ /\ NoFault /\ server' = server \cup {loaded[p]}
        /\ confirmed' = [confirmed EXCEPT ![p] = "yes"] /\ Go(p, "verify")
     \/ /\ Fault /\ server' \in {server, server \cup {loaded[p]}}
        /\ Fail(p) /\ UNCHANGED confirmed
  /\ ever' = ever \cup server'
  /\ UNCHANGED <<loaded, files>>

WriteVerified(p) ==
  /\ pc[p] = "verify"
  /\ \/ NoFault /\ marker' = "verified" /\ Go(p, "enrolled")
     \/ Fault /\ marker' \in {marker, "verified"} /\ Fail(p)
  /\ UNCHANGED <<loaded, confirmed, identity, remote, wire>>

EnsureEnrollment(p) ==
  \/ Send(p) \/ Redirect(p) \/ agentExists(p) \/ Backoff(p) \/ Interrupted(p)
  \/ WriteUnverified(p) \/ registerAgent(p) \/ WriteVerified(p)

\* The server's administrator deletes the agent.
Forget(id) ==
  /\ id \in server /\ forgets < MaxForgets
  /\ server' = server \ {id} /\ forgets' = forgets + 1
  /\ UNCHANGED <<process, files, ever, wire, faults>>
=============================================================================
