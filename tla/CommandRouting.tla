---------------------------- MODULE CommandRouting ----------------------------
(***************************************************************************)
(* How one WebSocket connection of the agent routes a server message        *)
(* (client/message.go, client/client.go runConnection).                     *)
(*                                                                          *)
(* The reader hands every JSON message first to the callback, which tries   *)
(* installed_apps, virus_scan, power and download_file in that order, and   *)
(* then, WHATEVER the callback did, to parseStreamCommand, which looks for  *)
(* stream aliases in the action, the command and the type.  A kill or a     *)
(* shutdown runs in a goroutine of its own, which the deferred teardown of  *)
(* the connection joins.                                                    *)
(*                                                                          *)
(* A message keeps what the parsers tell apart: the words of three fields   *)
(* (in normalised form), whether they are spelled exactly like that, what   *)
(* the request id is worth, the sign of the pid, and the field, if any,     *)
(* whose JSON type is wrong.  The components a message reaches are models   *)
(* of their own: here `reached' only records which were called.             *)
(***************************************************************************)
EXTENDS Naturals, FiniteSets

CONSTANTS
  Types, Actions, Commands,   \* the words the three fields may hold
  Workers,                    \* bound: handler goroutines at one time
  MaxMessages                 \* bound: messages of one connection

ASSUME RoutingAssumption ==
  /\ IsFiniteSet(Workers)
  /\ MaxMessages \in Nat

VARIABLES
  downloads,  \* whether the client has a download manager
  session,    \* "serving", "ending" (the defer runs), "joining", "ended"
  reading,    \* "read", "callback", "stream": where readJSONMessages is
  msg,        \* the message in the reader's hands
  reached,    \* what the last message has called so far
  worker,     \* [Workers -> step of the goroutine in that slot]
  received,   \* messages read
  asked,      \* kill commands with a positive pid dispatched
  killed,     \* calls of the process killer
  accepted    \* shutdowns the power controller accepted

routingVars == <<downloads, session, reading, msg, reached, worker, received, asked,
                 killed, accepted>>

-----------------------------------------------------------------------------
\* The fields that a mistyped JSON value can be in; "pid", "scan_type" and "size"
\* stand for every field that only serverCommand, antivirus.Command or
\* download.Command has.
Fields == {"type", "action", "pid", "request_id", "scan_type", "size"}

\* A request id: a hyphenated UUID, the same in a message of more than
\* installedAppsMaxCommandBytes, or anything else.
RequestIds == {"uuid", "uuid in a long message", "other"}

Message ==
  [type : Types, action : Actions, command : Commands, exact : BOOLEAN,
   id : RequestIds, pid : {0, 1}, bad : Fields \cup {"none"}]

NoMessage == [type |-> "none"]

\* json.Unmarshal into a struct with these fields succeeds.
decodes(m, fields) == m.bad \notin fields

\* A comparison with a word that is not normalised first.
is(m, type, action) == m.exact /\ m.type = type /\ m.action = action

installedAppsCommand(m) ==
  /\ decodes(m, {"type", "action", "request_id"})
  /\ is(m, "installed_apps", "get")
  /\ m.id = "uuid"

powerCommand(m) ==
  /\ decodes(m, {"type", "action", "request_id"})
  /\ is(m, "power", "shutdown")
  /\ m.id # "other"

\* What handleVirusScan does with a virus_scan message, in any spelling ...
virusScan(m) ==
  IF decodes(m, {"type", "request_id", "scan_type"}) THEN "scan.Submit" ELSE "scan.Reject"

\* ... and the callback with a download_file message.
downloadFile(m) ==
  IF decodes(m, {"type", "size"}) THEN "download.Submit" ELSE "download.Reject"

-----------------------------------------------------------------------------
\* The stream commands, and the words that stand for each.
aliases ==
  [performance_start |-> {"start_performance", "performance_start", "request_performance"},
   performance_stop  |-> {"stop_performance", "performance_stop"},
   process_start     |-> {"start_process", "process_start", "request_process"},
   process_stop      |-> {"stop_process", "process_stop"},
   screen_start      |-> {"start_stream", "start_screen", "screen_start", "request_screen"},
   screen_stop       |-> {"stop_stream", "stop_screen", "screen_stop"},
   process_kill      |-> {"kill_process", "process_kill", "terminate_process"}]

streamCommands == DOMAIN aliases

isAlias(word) == \E c \in streamCommands : word \in aliases[c]

aliasMeaning(word) == CHOOSE c \in streamCommands : word \in aliases[c]

\* The structured form: a stream's type with a verb as its action.
structured(m) ==
  LET verb(start, stop, kill) ==
        CASE m.action \in {"start", "request"} -> start
          [] m.action = "stop" -> stop
          [] m.action \in {"kill", "terminate"} -> kill
          [] OTHER -> "unknown"
  IN  CASE m.type = "performance" -> verb("performance_start", "performance_stop", "unknown")
        [] m.type \in {"process", "processes"} ->
             verb("process_start", "process_stop", "process_kill")
        [] m.type \in {"screen", "screen_stream"} ->
             verb("screen_start", "screen_stop", "unknown")
        [] OTHER -> "unknown"

\* Mutant: only power is excluded from the stream aliases.
parseAppsToo(m) ==
  LET word == IF isAlias(m.action) THEN m.action
              ELSE IF isAlias(m.command) THEN m.command ELSE m.type
  IN  IF ~decodes(m, {"type", "action", "pid"}) \/ m.type = "power"
      THEN "unknown"
      ELSE IF isAlias(word) THEN aliasMeaning(word) ELSE structured(m)

\* The first alias among action, command and type wins over the structured form.
parseStreamCommand(m) ==
  LET word == IF isAlias(m.action) THEN m.action
              ELSE IF isAlias(m.command) THEN m.command ELSE m.type
  IN  IF \/ ~decodes(m, {"type", "action", "pid"})
         \/ m.type \in {"power", "installed_apps"}
      THEN "unknown"
      ELSE IF isAlias(word) THEN aliasMeaning(word) ELSE structured(m)

-----------------------------------------------------------------------------
\* The calls a message can lead to, and the steps of a handler goroutine:
\* "kill" and "refuse" are killProcess before its switch, "power" is
\* handlePowerCommand before its look at the context, "shutdown" and "schedule"
\* are Shutdown before and after its own, "reply" is the last writeJSON.
Calls ==
  {"apps.submit", "scan.Submit", "scan.Reject", "download.Submit",
   "download.Reject", "power"} \cup streamCommands

Steps == {"idle", "kill", "refuse", "power", "shutdown", "schedule", "reply"}

\* Every variable has a value of its kind, and the counters bound one another: no
\* more kills than were asked for (client/client.go:306), no more of either kind of
\* request than messages.
RoutingTypeOK ==
  /\ downloads \in BOOLEAN
  /\ session \in {"serving", "ending", "joining", "ended"}
  /\ reading \in {"read", "callback", "stream"}
  /\ msg \in Message \cup {NoMessage}
  /\ reached \subseteq Calls
  /\ worker \in [Workers -> Steps]
  /\ received \in 0 .. MaxMessages
  /\ asked \in 0 .. received
  /\ killed \in 0 .. asked
  /\ accepted \in 0 .. received

RoutingInit ==
  /\ downloads \in BOOLEAN
  /\ session = "serving"
  /\ reading = "read"
  /\ msg = NoMessage
  /\ reached = {}
  /\ worker = [w \in Workers |-> "idle"]
  /\ received = 0
  /\ asked = 0 /\ killed = 0 /\ accepted = 0

work == <<worker, asked, killed, accepted>>
idle == {w \in Workers : worker[w] = "idle"}

-----------------------------------------------------------------------------
\* The reader takes the next JSON text from the connection.
Read ==
  /\ session = "serving" /\ reading = "read"
  /\ received < MaxMessages /\ idle # {}
  /\ msg' \in Message
  /\ reached' = {}
  /\ received' = received + 1
  /\ reading' = "callback"
  /\ UNCHANGED <<downloads, session, work>>

\* start: the message gets a goroutine.
start(step) == \E w \in idle : worker' = [worker EXCEPT ![w] = step]

calls(call) == reached' = reached \cup {call}

\* The callback of runConnection, from its first parser to the last.
onMessage ==
  /\ session = "serving" /\ reading = "callback"
  /\ reading' = "stream"
  /\ CASE installedAppsCommand(msg) -> calls("apps.submit") /\ UNCHANGED worker
       [] msg.type = "virus_scan" /\ decodes(msg, {"type"}) ->
            calls(virusScan(msg)) /\ UNCHANGED worker
       [] powerCommand(msg) -> calls("power") /\ start("power")
       [] downloads /\ msg.type = "download_file" /\ decodes(msg, {"type"}) ->
            calls(downloadFile(msg)) /\ UNCHANGED worker
       [] OTHER -> UNCHANGED <<reached, worker>>
  /\ UNCHANGED <<downloads, session, msg, received, asked, killed, accepted>>

\* The switch on the stream command: setStreamState, killProcess, or the screen
\* streamer's Start or Stop.  The reader then forgets the message; when there was
\* no goroutine left for a second handler the model waits for one.
onStreamCommand ==
  LET c == parseStreamCommand(msg) IN
  /\ session = "serving" /\ reading = "stream"
  /\ reading' = "read"
  /\ CASE c = "unknown" -> UNCHANGED <<reached, worker, asked>>
       [] c = "process_kill" ->
            /\ calls(c)
            /\ start(IF msg.pid > 0 THEN "kill" ELSE "refuse")
            /\ asked' = asked + msg.pid
       [] OTHER -> calls(c) /\ UNCHANGED <<worker, asked>>
  /\ msg' = NoMessage
  /\ UNCHANGED <<downloads, session, received, killed, accepted>>

-----------------------------------------------------------------------------
moves(w, from, to) == worker[w] = from /\ worker' = [worker EXCEPT ![w] = to]
quiet == UNCHANGED <<downloads, session, reading, msg, reached, received, asked>>

\* killProcess calls the killer without a look at the context.
Kill(w) ==
  /\ moves(w, "kill", "reply")
  /\ killed' = killed + 1
  /\ UNCHANGED accepted /\ quiet

\* A pid that is not positive gets an error and no call.
Refuse(w) == moves(w, "refuse", "reply") /\ UNCHANGED <<killed, accepted>> /\ quiet

\* handlePowerCommand drops the command when runCtx is over ...
PowerBegins(w) ==
  /\ moves(w, "power", IF session = "serving" THEN "shutdown" ELSE "idle")
  /\ UNCHANGED <<killed, accepted>> /\ quiet

\* ... Shutdown looks again, fails with the context's error or goes on ...
ShutdownBegins(w) ==
  /\ moves(w, "shutdown", IF session = "serving" THEN "schedule" ELSE "reply")
  /\ UNCHANGED <<killed, accepted>> /\ quiet

\* ... and the controller accepts, or refuses (PowerController says when).
Schedule(w) ==
  /\ moves(w, "schedule", "reply")
  /\ accepted' \in {accepted, accepted + 1}
  /\ UNCHANGED killed /\ quiet

\* The reply is written, or its write fails because runCtx or the connection is
\* over: either way the goroutine ends.
Reply(w) == moves(w, "reply", "idle") /\ UNCHANGED <<killed, accepted>> /\ quiet

handler(w) ==
  \/ Kill(w) \/ Refuse(w) \/ PowerBegins(w) \/ ShutdownBegins(w)
  \/ Schedule(w) \/ Reply(w)

-----------------------------------------------------------------------------
\* A read fails, because the connection or the agent's context is over: the
\* reader returns and the deferred teardown begins with cancel().
Disconnect ==
  /\ session = "serving" /\ reading = "read"
  /\ session' = "ending"
  /\ UNCHANGED <<downloads, reading, msg, reached, received, work>>

\* CloseNow and the screen streamer's Stop.
StopScreen ==
  /\ session = "ending"
  /\ session' = "joining"
  /\ UNCHANGED <<downloads, reading, msg, reached, received, work>>

\* Mutant: runConnection returns without joining its goroutines.
ReturnUnjoined ==
  /\ session = "joining"
  /\ session' = "ended"
  /\ UNCHANGED <<downloads, reading, msg, reached, received, work>>

\* workers.Wait, and the return of runConnection.
Return ==
  /\ session = "joining"
  /\ idle = Workers
  /\ session' = "ended"
  /\ UNCHANGED <<downloads, reading, msg, reached, received, work>>

Done == session = "ended" /\ UNCHANGED routingVars

RoutingNext ==
  \/ Read \/ onMessage \/ onStreamCommand
  \/ \E w \in Workers : handler(w)
  \/ Disconnect \/ StopScreen \/ Return \/ Done

RoutingSpec == RoutingInit /\ [][RoutingNext]_routingVars

-----------------------------------------------------------------------------
\* docs/power-shutdown.md:22: a power message, however it is spelled and whatever
\* aliases its other fields hold, reaches no other feature; installed_apps is
\* isolated in the same way (client/message.go:82, client/installed_apps_test.go:17).
RequestsIsolated ==
  [][/\ msg.type = "power" => reached' \subseteq {"power"}
     /\ msg.type = "installed_apps" => reached' \subseteq {"apps.submit"}]_routingVars

\* client/client.go:234, 280: every kill and power handler of the connection is
\* accounted for.  A kill that was dispatched is carried out exactly once, also
\* when the connection that asked for it is lost in between; and when
\* runConnection has returned, so that the next connection may be up, no handler
\* is left that could still kill a process or schedule a shutdown.
HandlersAccounted ==
  /\ RoutingTypeOK
  /\ asked = killed + Cardinality({w \in Workers : worker[w] = "kill"})
  /\ session = "ended" => idle = Workers
=============================================================================
