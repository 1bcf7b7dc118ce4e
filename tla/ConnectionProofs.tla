--------------------------- MODULE ConnectionProofs ---------------------------
(***************************************************************************)
(* Proofs about what belongs to one connection: its streams, its messages  *)
(* and handlers, its inventory requests.  The composition of the streams   *)
(* does to each of them only what that stream's own module allows, so what *)
(* is shown of one alone holds on the connection.                          *)
(***************************************************************************)
EXTENDS ConnectionStreams, CommandRouting, InstalledApps,
        SequenceTheorems, FiniteSetTheorems, FunctionTheorems, TLAPS

\* A step of the connection is a step of the screen stream, or nothing to it.
LEMMA ScreenSteps == [Next]_vars => [Screen!Next]_screenVars
<1> SUFFICES ASSUME [Next]_vars PROVE [Screen!Next]_screenVars
  OBVIOUS
<1> USE DEF Screen!Next
<1>1. CASE ScreenCommand \/ Teardown \/ ReaderWaits
  BY <1>1 DEF ScreenCommand, Teardown, ReaderWaits
<1>2. CASE StateCommand \/ SetState \/ publish \/ Over \/ UNCHANGED vars
  BY <1>2 DEF StateCommand, SetState, publish, Over, vars
<1>3. CASE \E g \in Screen!Generations : capture(g)
  BY <1>3 DEF capture
<1>4. CASE Break \/ CancelRun
  BY <1>4 DEF Break, CancelRun
<1> QED BY <1>1, <1>2, <1>3, <1>4 DEF Next

\* It is a step of the state stream, or nothing to it: the teardown that finds
\* runCtx cancelled from above changes nothing more for the publisher.
LEMMA PublisherSteps ==
  ASSUME ctx \in {"live", "done"}, [Next]_vars PROVE [Publisher!Next]_publisherVars
<1> USE DEF Publisher!Next
<1>1. CASE StateCommand \/ SetState \/ publish
  BY <1>1 DEF StateCommand, SetState, publish
<1>2. CASE ScreenCommand \/ ReaderWaits \/ Break \/ Over \/ UNCHANGED vars
  BY <1>2 DEF ScreenCommand, ReaderWaits, Break, Over, vars
<1>3. CASE \E g \in Screen!Generations : capture(g)
  BY <1>3 DEF capture
<1>4. CASE Teardown
  <2>1. CASE ctx = "live"
    BY <1>4, <2>1 DEF Teardown, Publisher!Cancel
  <2>2. CASE ctx = "done"
    BY <1>4, <2>2 DEF Teardown, publisherVars
  <2> QED BY <2>1, <2>2
<1>5. CASE CancelRun
  BY <1>5 DEF CancelRun
<1> QED BY <1>1, <1>2, <1>3, <1>4, <1>5 DEF Next

-----------------------------------------------------------------------------
(* The screen stream.                                                      *)

\* Whom Stop waits for: the stream that runs, if one still does.  A Start cannot
\* come in between, because the reader is the one that waits.
Waiting ==
  reader \in {"stop", "join"} =>
    waiting \in Screen!Generations /\ (streaming = "yes" => done = waiting)

\* The handles are there exactly while a stream is.
Handles == done = 0 <=> streaming = "no"

ScreenInv == OneStream /\ StopMeansStopped /\ Waiting /\ Handles

\* Nothing is streamed at first.
LEMMA ScreenInit == Init => ScreenInv
BY StreamsAssumption
   DEF Init, ScreenInv, Waiting, Handles, OneStream, StopMeansStopped, Screen!Init, Screen!OneStream,
       Screen!TypeOK, Screen!StopMeansStopped, Screen!Generations, Screen!Capturing

\* What the reader does to the stream.
LEMMA ReaderKeepsScreen ==
  ASSUME ScreenInv,
         \/ Screen!Start \/ Screen!StopCommand \/ Screen!Teardown \/ Screen!TeardownStop
         \/ Screen!StopReturns
  PROVE  ScreenInv'
<1> USE DEF ScreenInv, Waiting, Handles, OneStream, StopMeansStopped, Screen!OneStream, Screen!TypeOK,
            Screen!StopMeansStopped, Screen!Capturing
<1>0. 0 \notin Screen!Generations
  BY DEF Screen!Generations
<1>1. CASE Screen!Start
  <2>1. CASE streaming = "yes"
    BY <1>1, <2>1 DEF Screen!Start
  <2>2. CASE streaming = "no"
    <3>1. PICK g \in Screen!Generations :
            /\ gpc[g] = "none" /\ streaming' = "yes" /\ done' = g
            /\ gpc' = [gpc EXCEPT ![g] = "select"]
      BY <1>1, <2>2 DEF Screen!Start
    <3>2. gpc'[g] = "select" /\ \A h \in Screen!Generations \ {g} : gpc'[h] = gpc[h]
      BY <3>1
    <3>3. \A h \in Screen!Generations : gpc[h] \notin Screen!Capturing \cup {"leave"}
      BY <2>2
    <3> QED BY <1>0, <1>1, <3>1, <3>2, <3>3 DEF Screen!Start
  <2> QED BY <2>1, <2>2
<1>2. CASE Screen!StopCommand
  BY <1>0, <1>2 DEF Screen!StopCommand, Screen!Stop
<1>3. CASE Screen!Teardown
  BY <1>3 DEF Screen!Teardown
<1>4. CASE Screen!TeardownStop
  BY <1>0, <1>4 DEF Screen!TeardownStop, Screen!Stop
<1>5. CASE Screen!StopReturns
  <2>1. \A g \in Screen!Generations : gpc[g] \notin Screen!Capturing
    BY <1>5 DEF Screen!StopReturns
  <2> QED BY <1>5, <2>1 DEF Screen!StopReturns
<1> QED BY <1>1, <1>2, <1>3, <1>4, <1>5

\* What a capture goroutine and the rest of the world do to it.
LEMMA CaptureKeepsScreen ==
  ASSUME ScreenInv,
         \/ \E g \in Screen!Generations : Screen!run(g)
         \/ Screen!Break \/ Screen!CancelRun \/ UNCHANGED screenVars
  PROVE  ScreenInv'
<1> USE DEF ScreenInv, Waiting, Handles, OneStream, StopMeansStopped, Screen!OneStream, Screen!TypeOK,
            Screen!StopMeansStopped, Screen!Capturing
<1>0. 0 \notin Screen!Generations
  BY DEF Screen!Generations
<1>1. CASE Screen!Break \/ Screen!CancelRun \/ UNCHANGED screenVars
  BY <1>1 DEF Screen!Break, Screen!CancelRun, screenVars
<1>2. ASSUME NEW g \in Screen!Generations, Screen!run(g) PROVE ScreenInv'
  <2>1. CASE Screen!Leave(g)
    <3>1. done = g /\ streaming' = "no" /\ done' = 0
      BY <2>1 DEF Screen!Leave
    <3>2. gpc'[g] = "close" /\ \A h \in Screen!Generations \ {g} : gpc'[h] = gpc[h]
      BY <2>1 DEF Screen!Leave, Screen!Goto
    <3> QED BY <2>1, <3>1, <3>2 DEF Screen!Leave, Screen!Goto
  <2>2. CASE Screen!CloseDone(g)
    BY <2>2 DEF Screen!CloseDone, Screen!Goto
  <2>3. CASE Screen!Tick(g) \/ Screen!Capture(g) \/ Screen!Write(g)
    <3>1. /\ gpc[g] \in Screen!Capturing /\ gpc'[g] \in Screen!Capturing \cup {"leave"}
          /\ gpc' \in [Screen!Generations -> Screen!Capturing \cup {"none", "leave", "close", "gone"}]
          /\ \A h \in Screen!Generations \ {g} : gpc'[h] = gpc[h]
      BY <2>3 DEF Screen!Tick, Screen!Capture, Screen!Write, Screen!Goto
    <3>2. UNCHANGED <<streaming, done, cancelled, reader, waiting, conn, want>>
      BY <2>3 DEF Screen!Tick, Screen!Capture, Screen!Write
    <3> QED BY <3>1, <3>2
  <2> QED BY <1>2, <2>1, <2>2, <2>3 DEF Screen!run
<1> QED BY <1>1, <1>2

\* The invariant of the screen stream holds on the connection.
LEMMA ScreenHolds == Spec => []ScreenInv
<1>1. ScreenInv /\ [Next]_vars => ScreenInv'
  BY ScreenSteps, ReaderKeepsScreen, CaptureKeepsScreen DEF Screen!Next
<1> QED BY ScreenInit, <1>1, PTL DEF Spec

\* At most one capture goroutine runs, and the streamer has its handles, for any
\* number of starts, stops and goroutines that end by themselves (screen.go:29).
THEOREM OneStreamAtATime == Spec => []OneStream
<1>1. ScreenInv => OneStream
  BY DEF ScreenInv
<1> QED BY ScreenHolds, <1>1, PTL

\* Nothing captures or writes once Stop has returned, in answer to a command or in
\* the teardown (screen.go:82).
THEOREM StopIsFinal == Spec => []StopMeansStopped
<1>1. ScreenInv => StopMeansStopped
  BY DEF ScreenInv
<1> QED BY ScreenHolds, <1>1, PTL

-----------------------------------------------------------------------------
(* The state stream.                                                       *)

\* Between two commands the channel holds nothing but the last one.
Requested == setter = "idle" /\ commands # <<>> => commands[1] = request

PublisherInv == LatestStateWins /\ Requested

\* Nothing is requested at first.
LEMMA PublisherInit == Init => PublisherInv
<1> SUFFICES ASSUME Init PROVE PublisherInv
  OBVIOUS
<1>1. commands \in Seq(Publisher!States) /\ Len(commands) = 0
  BY EmptySeq DEF Init, Publisher!Init
<1> QED BY <1>1, StreamsAssumption
        DEF Init, PublisherInv, Requested, LatestStateWins, Publisher!Init, Publisher!LatestStateWins,
            Publisher!TypeOK, Publisher!States

\* What the reader does to the channel.
LEMMA ReaderKeepsState ==
  ASSUME PublisherInv,
         (\E s \in Publisher!States : Publisher!setStreamState(s)) \/ Publisher!Drain \/ Publisher!Put
  PROVE  PublisherInv'
<1> USE DEF PublisherInv, Requested, LatestStateWins, Publisher!LatestStateWins, Publisher!TypeOK
<1>1. CASE \E s \in Publisher!States : Publisher!setStreamState(s)
  <2>1. PICK s \in Publisher!States : Publisher!setStreamState(s)
    BY <1>1
  <2>2. count' \in 0..MaxCommands /\ request' = s
    BY <2>1, StreamsAssumption DEF Publisher!setStreamState
  <2>3. CASE commands = <<>>
    <3>1. commands' = <<s>> /\ setter' = "idle"
      BY <2>1, <2>3 DEF Publisher!setStreamState
    <3>2. commands' \in Seq(Publisher!States) /\ Len(commands') = 1 /\ commands'[1] = s /\ commands' # <<>>
      BY <3>1
    <3> QED BY <2>1, <2>2, <3>1, <3>2 DEF Publisher!setStreamState
  <2>4. CASE commands # <<>>
    BY <2>1, <2>2, <2>4 DEF Publisher!setStreamState
  <2> QED BY <2>3, <2>4
<1>2. CASE Publisher!Drain
  <2>1. commands' \in Seq(Publisher!States) /\ Len(commands') = 0
    BY <1>2, EmptySeq DEF Publisher!Drain
  <2> QED BY <1>2, <2>1 DEF Publisher!Drain
<1>3. CASE Publisher!Put
  <2>1. Len(commands) = 0
    BY <1>3, LenProperties DEF Publisher!Put
  <2>a. commands' = Append(commands, request) /\ request \in Publisher!States
    BY <1>3 DEF Publisher!Put
  <2>b. commands' \in Seq(Publisher!States) /\ Len(commands') = 1 /\ commands'[1] = request
    BY <2>1, <2>a, AppendProperties
  <2>2. /\ commands' \in Seq(Publisher!States) /\ Len(commands') = 1 /\ commands'[1] = request
        /\ commands' # <<>>
    BY <2>b, EmptySeq
  <2> QED BY <1>3, <2>2 DEF Publisher!Put
<1> QED BY <1>1, <1>2, <1>3

\* What the publisher and the end of the connection do.
LEMMA PublishKeepsState ==
  ASSUME PublisherInv, Publisher!publishOnCommand \/ Publisher!Cancel \/ UNCHANGED publisherVars
  PROVE  PublisherInv'
<1> USE DEF PublisherInv, Requested, LatestStateWins, Publisher!LatestStateWins, Publisher!TypeOK
<1>1. CASE Publisher!TakeCommand
  <2>a. commands # <<>> /\ commands \in Seq(Publisher!States) /\ Len(commands) <= 1
    BY <1>1 DEF Publisher!TakeCommand
  <2>b. Len(commands) \in Nat /\ Len(commands) # 0
    BY <2>a, EmptySeq, LenProperties
  <2>c. \A n \in Nat : n <= 1 /\ n # 0 => n = 1
    OBVIOUS
  <2>1. commands # <<>> /\ Len(commands) = 1
    BY ONLY <2>a, <2>b, <2>c, Zenon
  <2>2. /\ commands' \in Seq(Publisher!States) /\ Len(commands') = 0
        /\ Head(commands) = commands[1] /\ Head(commands) \in Publisher!States
    BY <1>1, <2>1, HeadTailProperties DEF Publisher!TakeCommand
  <2>3. commands' = <<>>
    BY <2>2, EmptySeq
  <2>4. active' = commands[1] /\ active' \in Publisher!States /\ UNCHANGED <<setter, request, count, ctx>>
    BY <1>1, <2>2 DEF Publisher!TakeCommand
  <2>5. setter' = "idle" => active' = request'
    BY <2>1, <2>4
  <2>6. /\ ppc' \in {"select", "first"} /\ ticker' \in {"none", "running"}
        /\ ppc' = "first" => active' = "start"
        /\ ppc' = "select" => (ticker' = "running" <=> active' = "start")
    BY <1>1, <2>2 DEF Publisher!TakeCommand, Publisher!States
  <2> QED BY <2>2, <2>3, <2>4, <2>5, <2>6
<1>2. CASE Publisher!Tick \/ Publisher!Send \/ Publisher!Stop \/ Publisher!Cancel \/ UNCHANGED publisherVars
  BY <1>2 DEF Publisher!Tick, Publisher!Send, Publisher!Stop, Publisher!Cancel, publisherVars
<1> QED BY <1>1, <1>2 DEF Publisher!publishOnCommand

\* The invariant of the state stream holds on the connection.
LEMMA PublisherHolds == Spec => []PublisherInv
<1>1. PublisherInv => ctx \in {"live", "done"}
  BY DEF PublisherInv, LatestStateWins, Publisher!LatestStateWins, Publisher!TypeOK
<1>2. PublisherInv /\ [Next]_vars => PublisherInv'
  BY <1>1, PublisherSteps, ReaderKeepsState, PublishKeepsState DEF Publisher!Next
<1> QED BY PublisherInit, <1>2, PTL DEF Spec

\* The publisher that has taken every command is in the state that was requested
\* last, and only an active one ticks, for any number of commands (client.go:329).
THEOREM LatestRequestWins == Spec => []LatestStateWins
<1>1. PublisherInv => LatestStateWins
  BY DEF PublisherInv
<1> QED BY PublisherHolds, <1>1, PTL

-----------------------------------------------------------------------------

\* The connection composes its streams and changes neither: every behaviour of it
\* is one of the screen stream and one of the state stream (client.go:225-240).
THEOREM StreamsAreThemselves == Spec => Screen!Spec /\ Publisher!Spec
<1>1. Init => Screen!Init /\ Publisher!Init
  BY DEF Init
<1>2. PublisherInv /\ [Next]_vars =>
        [Screen!Next]_(Screen!vars) /\ [Publisher!Next]_(Publisher!vars)
  <2>1. PublisherInv => ctx \in {"live", "done"}
    BY DEF PublisherInv, LatestStateWins, Publisher!LatestStateWins, Publisher!TypeOK
  <2> QED BY <2>1, ScreenSteps, PublisherSteps DEF Screen!vars, Publisher!vars, screenVars, publisherVars
<1> QED BY <1>1, <1>2, PublisherHolds, PTL DEF Spec, Screen!Spec, Publisher!Spec

-----------------------------------------------------------------------------
(* The messages of the connection.                                         *)

\* The handlers that are at one of the given steps.
At(f, steps) == {w \in Workers : f[w] \in steps}

\* The steps of a power message before the controller has decided.
Undecided == {"power", "shutdown", "schedule"}

\* Only the handler in slot w moves.
OnlyMoves(f, g, w) == \A x \in Workers \ {w} : g[x] = f[x]

\* A handler that moves is counted at its new step and no longer at the old one.
LEMMA HandlerMoves ==
  ASSUME NEW f, NEW g, NEW w \in Workers,
         OnlyMoves(f, g, w), NEW steps
  PROVE  /\ IsFiniteSet(At(f, steps)) /\ Cardinality(At(f, steps)) \in Nat
         /\ Cardinality(At(g, steps)) =
              Cardinality(At(f, steps)) + (IF g[w] \in steps THEN 1 ELSE 0)
                                        - (IF f[w] \in steps THEN 1 ELSE 0)
<1> DEFINE others == {x \in Workers \ {w} : f[x] \in steps}
<1>1. IsFiniteSet(others) /\ Cardinality(others) \in Nat /\ w \notin others
  BY RoutingAssumption, FS_Subset, FS_CardinalityType
<1>2. At(f, steps) = IF f[w] \in steps THEN others \cup {w} ELSE others
  BY DEF At
<1>3. At(g, steps) = IF g[w] \in steps THEN others \cup {w} ELSE others
  BY DEF At, OnlyMoves
<1>4. /\ IsFiniteSet(others \cup {w})
      /\ Cardinality(others \cup {w}) = Cardinality(others) + 1
  BY <1>1, FS_AddElement
<1> HIDE DEF others
<1> QED BY <1>1, <1>2, <1>3, <1>4

\* What the reader has called for the message in its hands: nothing but its feature.
Isolated ==
  /\ reading = "read" => msg = NoMessage
  /\ reading # "read" => msg \in Message
  /\ reading = "callback" => reached = {}
  /\ reading = "stream" =>
       /\ msg.type = "power" => reached \subseteq {"power"}
       /\ msg.type = "installed_apps" => reached \subseteq {"apps.submit"}

\* What the counters owe to the messages read and to the handlers at work: each
\* message has been the cause of one handler at most of either kind.
Accounts ==
  /\ asked = killed + Cardinality(At(worker, {"kill"}))
  /\ asked + (IF reading = "read" THEN 0 ELSE 1) <= received
  /\ accepted + Cardinality(At(worker, Undecided)) + (IF reading = "callback" THEN 1 ELSE 0)
       <= received

RoutingTypes ==
  /\ downloads \in BOOLEAN
  /\ session \in {"serving", "ending", "joining", "ended"}
  /\ reading \in {"read", "callback", "stream"}
  /\ reached \subseteq Calls
  /\ worker \in [Workers -> Steps]
  /\ received \in 0 .. MaxMessages
  /\ asked \in Nat /\ killed \in Nat /\ accepted \in Nat

RoutingInv ==
  RoutingTypes /\ Isolated /\ Accounts /\ (session = "ended" => idle = Workers)

\* A message that starts as a stream command calls one of the streams, and a power
\* or installed_apps message is none (client/message.go:82).
LEMMA StreamCommandCalls ==
  \A m \in Message :
    /\ parseStreamCommand(m) \in streamCommands \cup {"unknown"}
    /\ m.type \in {"power", "installed_apps"} => parseStreamCommand(m) = "unknown"
<1> SUFFICES ASSUME NEW m \in Message
             PROVE  /\ parseStreamCommand(m) \in streamCommands \cup {"unknown"}
                    /\ m.type \in {"power", "installed_apps"} =>
                         parseStreamCommand(m) = "unknown"
  OBVIOUS
<1>1. \A word : isAlias(word) => aliasMeaning(word) \in streamCommands
  BY DEF isAlias, aliasMeaning
<1>2. streamCommands =
        {"performance_start", "performance_stop", "process_start", "process_stop",
         "screen_start", "screen_stop", "process_kill"}
  BY DEF streamCommands, aliases
<1>3. structured(m) \in streamCommands \cup {"unknown"}
  BY <1>2 DEF structured
<1> QED BY <1>1, <1>3 DEF parseStreamCommand

\* No message has been read at first.
LEMMA RoutingStarts == ASSUME RoutingInit PROVE RoutingInv
<1>1. /\ downloads \in BOOLEAN /\ session = "serving" /\ reading = "read" /\ msg = NoMessage
      /\ reached = {} /\ worker = [w \in Workers |-> "idle"]
      /\ received = 0 /\ asked = 0 /\ killed = 0 /\ accepted = 0
  BY DEF RoutingInit
<1>2. At(worker, {"kill"}) = {} /\ At(worker, Undecided) = {}
  BY <1>1 DEF At, Undecided
<1>3. Cardinality(At(worker, {"kill"})) = 0 /\ Cardinality(At(worker, Undecided)) = 0
  BY <1>2, FS_EmptySet
<1>4. RoutingTypes
  BY <1>1, RoutingAssumption DEF RoutingTypes, Steps
<1> QED BY <1>1, <1>3, <1>4 DEF RoutingInv, Isolated, Accounts

\* What the reader does with a message.
LEMMA ReaderKeepsRouting ==
  ASSUME RoutingInv,
         Read \/ onMessage \/ onStreamCommand
  PROVE  RoutingInv'
<1> USE DEF RoutingInv
<1>0. /\ IsFiniteSet(At(worker, {"kill"})) /\ Cardinality(At(worker, {"kill"})) \in Nat
      /\ IsFiniteSet(At(worker, Undecided)) /\ Cardinality(At(worker, Undecided)) \in Nat
  BY RoutingAssumption, FS_Subset, FS_CardinalityType DEF At
<1>1. CASE Read
  <2>1. /\ session = "serving" /\ reading = "read" /\ received < MaxMessages
        /\ msg' \in Message /\ reached' = {} /\ received' = received + 1
        /\ reading' = "callback" /\ UNCHANGED <<downloads, session, worker, asked, killed, accepted>>
    BY <1>1 DEF Read, work
  <2>2. RoutingTypes'
    BY <2>1, RoutingAssumption DEF RoutingTypes
  <2>3. Accounts'
    BY <1>0, <2>1 DEF Accounts, RoutingTypes
  <2> QED BY <2>1, <2>2, <2>3 DEF Isolated
<1>2. CASE onMessage
  <2>1. /\ session = "serving" /\ reading = "callback" /\ reading' = "stream"
        /\ UNCHANGED <<downloads, session, msg, received, asked, killed, accepted>>
    BY <1>2 DEF onMessage
  <2>2. msg \in Message /\ reached = {}
    BY <2>1 DEF Isolated
  <2>3. \/ /\ worker' = worker
           /\ \/ reached' = {}
              \/ msg.type = "installed_apps" /\ reached' = {"apps.submit"}
              \/ msg.type \notin {"power", "installed_apps"}
                   /\ reached' \subseteq {"scan.Submit", "scan.Reject", "download.Submit", "download.Reject"}
        \/ /\ msg.type = "power" /\ reached' = {"power"}
           /\ \E w \in Workers : worker[w] = "idle" /\ worker' = [worker EXCEPT ![w] = "power"]
    <3>1. CASE installedAppsCommand(msg)
      BY <1>2, <2>2, <3>1
         DEF onMessage, calls, installedAppsCommand, is,
             powerCommand
    <3>2. CASE /\ ~installedAppsCommand(msg)
               /\ msg.type = "virus_scan" /\ decodes(msg, {"type"})
      BY <1>2, <2>2, <3>2 DEF onMessage, calls, virusScan, is,
                              powerCommand
    <3>3. CASE /\ ~installedAppsCommand(msg)
               /\ ~(msg.type = "virus_scan" /\ decodes(msg, {"type"}))
               /\ powerCommand(msg)
      BY <1>2, <2>2, <3>3 DEF onMessage, calls, powerCommand, is,
                              start, idle
    <3>4. CASE /\ ~installedAppsCommand(msg)
               /\ ~(msg.type = "virus_scan" /\ decodes(msg, {"type"}))
               /\ ~powerCommand(msg)
      BY <1>2, <2>2, <3>4 DEF onMessage, calls, downloadFile
    <3> QED BY <3>1, <3>2, <3>3, <3>4
  <2>4. CASE worker' = worker
    <3>1. Accounts'
      BY <1>0, <2>1, <2>4 DEF Accounts, RoutingTypes
    <3>2. RoutingTypes'
      BY <2>1, <2>3, <2>4 DEF RoutingTypes, Calls
    <3> QED BY <2>1, <2>2, <2>3, <2>4, <3>1, <3>2 DEF Isolated
  <2>5. ASSUME msg.type = "power", reached' = {"power"},
               NEW w \in Workers, worker[w] = "idle", worker' = [worker EXCEPT ![w] = "power"]
        PROVE  RoutingInv'
    <3>1. worker'[w] = "power" /\ OnlyMoves(worker, worker', w)
      BY <2>5 DEF RoutingTypes, OnlyMoves
    <3>2. Cardinality(At(worker', {"kill"})) = Cardinality(At(worker, {"kill"}))
      <4>1. Cardinality(At(worker', {"kill"})) =
              Cardinality(At(worker, {"kill"})) + (IF worker'[w] \in {"kill"} THEN 1 ELSE 0)
                                                - (IF worker[w] \in {"kill"} THEN 1 ELSE 0)
        BY <3>1, HandlerMoves
      <4> QED BY <1>0, <2>5, <3>1, <4>1
    <3>3. Cardinality(At(worker', Undecided)) = Cardinality(At(worker, Undecided)) + 1
      <4>1. Cardinality(At(worker', Undecided)) =
              Cardinality(At(worker, Undecided)) + (IF worker'[w] \in Undecided THEN 1 ELSE 0)
                                                 - (IF worker[w] \in Undecided THEN 1 ELSE 0)
        BY <3>1, HandlerMoves
      <4>2. worker'[w] \in Undecided /\ worker[w] \notin Undecided
        BY <2>5, <3>1 DEF Undecided
      <4> QED BY <1>0, <4>1, <4>2
    <3>4. Accounts'
      BY <1>0, <2>1, <3>2, <3>3 DEF Accounts, RoutingTypes
    <3>5. RoutingTypes'
      BY <2>1, <2>5 DEF RoutingTypes, Calls, Steps
    <3> QED BY <2>1, <2>2, <2>5, <3>4, <3>5 DEF Isolated
  <2> QED BY <2>3, <2>4, <2>5
<1>3. CASE onStreamCommand
  <2> DEFINE c == parseStreamCommand(msg)
  <2>1. /\ session = "serving" /\ reading = "stream" /\ reading' = "read" /\ msg' = NoMessage
        /\ UNCHANGED <<downloads, session, received, killed, accepted>>
    BY <1>3 DEF onStreamCommand
  <2>2. msg \in Message /\ msg.pid \in {0, 1}
    BY <2>1 DEF Isolated, Message
  <2>3. c \in streamCommands \cup {"unknown"}
    BY <2>2, StreamCommandCalls
  <2>4. reached' \subseteq Calls
    BY <1>3, <2>3 DEF onStreamCommand, calls, Calls, RoutingTypes
  <2>5. \/ worker' = worker /\ asked' = asked
        \/ \E w \in Workers, step \in {"kill", "refuse"} :
             /\ worker[w] = "idle" /\ worker' = [worker EXCEPT ![w] = step]
             /\ asked' = asked + (IF step = "kill" THEN 1 ELSE 0)
    BY <1>3, <2>2 DEF onStreamCommand, start, idle
  <2>6. CASE worker' = worker /\ asked' = asked
    <3>1. Accounts'
      BY <1>0, <2>1, <2>6 DEF Accounts, RoutingTypes
    <3>2. RoutingTypes'
      BY <2>1, <2>4, <2>6 DEF RoutingTypes
    <3> QED BY <2>1, <3>1, <3>2 DEF Isolated
  <2>7. ASSUME NEW w \in Workers, NEW step \in {"kill", "refuse"},
               worker[w] = "idle", worker' = [worker EXCEPT ![w] = step],
               asked' = asked + (IF step = "kill" THEN 1 ELSE 0)
        PROVE  RoutingInv'
    <3>1. worker'[w] = step /\ OnlyMoves(worker, worker', w)
      BY <2>7 DEF RoutingTypes, OnlyMoves
    <3>a. Cardinality(At(worker', {"kill"})) =
            Cardinality(At(worker, {"kill"})) + (IF step = "kill" THEN 1 ELSE 0)
      <4>1. Cardinality(At(worker', {"kill"})) =
              Cardinality(At(worker, {"kill"})) + (IF worker'[w] \in {"kill"} THEN 1 ELSE 0)
                                                - (IF worker[w] \in {"kill"} THEN 1 ELSE 0)
        BY <3>1, HandlerMoves
      <4> QED BY <1>0, <2>7, <3>1, <4>1
    <3>2. Cardinality(At(worker', Undecided)) = Cardinality(At(worker, Undecided))
      <4>1. Cardinality(At(worker', Undecided)) =
              Cardinality(At(worker, Undecided)) + (IF worker'[w] \in Undecided THEN 1 ELSE 0)
                                                 - (IF worker[w] \in Undecided THEN 1 ELSE 0)
        BY <3>1, HandlerMoves
      <4>2. worker'[w] \notin Undecided /\ worker[w] \notin Undecided
        BY <2>7, <3>1 DEF Undecided
      <4> QED BY <1>0, <4>1, <4>2
    <3>3. Accounts'
      BY <1>0, <2>1, <2>7, <3>a, <3>2 DEF Accounts, RoutingTypes
    <3>4. RoutingTypes'
      BY <2>1, <2>4, <2>7 DEF RoutingTypes, Steps
    <3> QED BY <2>1, <3>3, <3>4 DEF Isolated
  <2> QED BY <2>5, <2>6, <2>7
<1> QED BY <1>1, <1>2, <1>3

\* What a handler goroutine does: it leaves its step for the next.
LEMMA HandlerKeepsRouting ==
  ASSUME RoutingInv,
         \E w \in Workers : handler(w)
  PROVE  RoutingInv'
<1> USE DEF RoutingInv
<1>1. PICK w \in Workers : handler(w)
  OBVIOUS
<1>2. UNCHANGED <<downloads, session, reading, msg, reached, received, asked>>
  BY <1>1 DEF handler, Kill, Refuse, PowerBegins,
              ShutdownBegins, Schedule, Reply, quiet
<1>3. worker \in [Workers -> Steps] /\ killed \in Nat /\ accepted \in Nat
  BY DEF RoutingTypes
<1>4. /\ worker[w] # "idle" /\ worker' = [worker EXCEPT ![w] = worker'[w]]
      /\ worker'[w] \in Steps \ {"kill"}
      /\ killed' = killed + (IF worker[w] = "kill" THEN 1 ELSE 0)
      /\ \/ accepted' = accepted /\ (worker'[w] \in Undecided => worker[w] \in Undecided)
         \/ accepted' = accepted + 1 /\ worker[w] \in Undecided /\ worker'[w] \notin Undecided
  <2>1. CASE Kill(w)
    BY <1>3, <2>1 DEF Kill, moves, Steps, Undecided
  <2>2. CASE Refuse(w) \/ Reply(w)
    BY <1>3, <2>2 DEF Refuse, Reply, moves, Steps, Undecided
  <2>3. CASE PowerBegins(w)
    BY <1>3, <2>3 DEF PowerBegins, moves, Steps, Undecided
  <2>4. CASE ShutdownBegins(w)
    BY <1>3, <2>4 DEF ShutdownBegins, moves, Steps, Undecided
  <2>5. CASE Schedule(w)
    BY <1>3, <2>5 DEF Schedule, moves, Steps, Undecided
  <2> QED BY <1>1, <2>1, <2>2, <2>3, <2>4, <2>5 DEF handler
<1>5. OnlyMoves(worker, worker', w)
  BY <1>3, <1>4 DEF OnlyMoves
<1>6. /\ Cardinality(At(worker, {"kill"})) \in Nat
      /\ Cardinality(At(worker', {"kill"})) =
           Cardinality(At(worker, {"kill"})) - (IF worker[w] = "kill" THEN 1 ELSE 0)
  <2>1. /\ Cardinality(At(worker, {"kill"})) \in Nat
        /\ Cardinality(At(worker', {"kill"})) =
             Cardinality(At(worker, {"kill"})) + (IF worker'[w] \in {"kill"} THEN 1 ELSE 0)
                                               - (IF worker[w] \in {"kill"} THEN 1 ELSE 0)
    BY <1>5, HandlerMoves
  <2>2. worker'[w] \notin {"kill"}
    BY <1>4
  <2> QED BY <2>1, <2>2
<1>7. /\ Cardinality(At(worker, Undecided)) \in Nat
      /\ Cardinality(At(worker', Undecided)) =
           Cardinality(At(worker, Undecided)) + (IF worker'[w] \in Undecided THEN 1 ELSE 0)
                                              - (IF worker[w] \in Undecided THEN 1 ELSE 0)
  BY <1>5, HandlerMoves
<1>a. Accounts'
  BY <1>2, <1>3, <1>4, <1>6, <1>7 DEF Accounts, RoutingTypes
<1>b. RoutingTypes'
  BY <1>2, <1>3, <1>4 DEF RoutingTypes
<1>8. session # "ended"
  BY <1>4 DEF idle
<1> QED BY <1>2, <1>a, <1>b, <1>8 DEF Isolated

\* What the end of the connection does: it waits for the handlers.
LEMMA TeardownKeepsRouting ==
  ASSUME RoutingInv,
         \/ Disconnect \/ StopScreen \/ Return \/ Done
         \/ UNCHANGED routingVars
  PROVE  RoutingInv'
<1>1. UNCHANGED <<downloads, reading, msg, reached, worker, received, asked, killed, accepted>>
  BY DEF Disconnect, StopScreen, Return, Done, routingVars, work
<1>2. session' \in {"serving", "ending", "joining", "ended"}
      /\ (session' = "ended" => idle = Workers)
  BY DEF Disconnect, StopScreen, Return, Done, routingVars,
         RoutingInv, RoutingTypes
<1> QED BY <1>1, <1>2 DEF RoutingInv, RoutingTypes, Isolated, Accounts, idle

\* The invariant of the routing.
LEMMA RoutingHolds == RoutingSpec => []RoutingInv
<1>1. RoutingInv /\ [RoutingNext]_routingVars => RoutingInv'
  BY ReaderKeepsRouting, HandlerKeepsRouting, TeardownKeepsRouting DEF RoutingNext
<1> QED BY RoutingStarts, <1>1, PTL DEF RoutingSpec

\* Every kill that was asked for is carried out exactly once or is at work, also
\* when the connection is lost; and no handler is left when runConnection has
\* returned, for any number of messages and handlers (client.go:234, 280).
THEOREM HandlersAreAccounted == RoutingSpec => []HandlersAccounted
<1>1. RoutingInv => HandlersAccounted
  <2> SUFFICES ASSUME RoutingInv PROVE HandlersAccounted
    OBVIOUS
  <2>1. Cardinality(At(worker, {"kill"})) \in Nat /\ Cardinality(At(worker, Undecided)) \in Nat
    BY RoutingAssumption, FS_Subset, FS_CardinalityType DEF At
  <2>2. At(worker, {"kill"}) = {w \in Workers : worker[w] = "kill"}
    BY DEF At
  <2>3. msg \in Message \cup {NoMessage}
    BY DEF RoutingInv, RoutingTypes, Isolated
  <2>4. asked \in 0 .. received /\ killed \in 0 .. asked /\ accepted \in 0 .. received
    BY <2>1 DEF RoutingInv, RoutingTypes, Accounts
  <2>5. RoutingTypeOK
    BY <2>3, <2>4 DEF RoutingInv, RoutingTypes, RoutingTypeOK
  <2>6. asked = killed + Cardinality({w \in Workers : worker[w] = "kill"})
    BY <2>2 DEF RoutingInv, Accounts
  <2> QED BY <2>5, <2>6 DEF RoutingInv, HandlersAccounted
<1> QED BY RoutingHolds, <1>1, PTL

\* A power message reaches no other feature, however it is spelled and whatever
\* its other fields hold, and neither does an installed_apps message
\* (client/message.go:82, docs/power-shutdown.md:22).
THEOREM RequestsAreIsolated == RoutingSpec => RequestsIsolated
<1> DEFINE A == /\ msg.type = "power" => reached' \subseteq {"power"}
                /\ msg.type = "installed_apps" => reached' \subseteq {"apps.submit"}
<1>1. RoutingInv /\ RoutingInv' /\ [RoutingNext]_routingVars => A \/ UNCHANGED routingVars
  <2> SUFFICES ASSUME RoutingInv, RoutingInv', RoutingNext PROVE A
    BY DEF routingVars
  <2>1. CASE reading = "read"
    BY <2>1 DEF RoutingInv, Isolated, NoMessage
  <2>2. CASE onMessage
    BY <2>2 DEF onMessage, RoutingInv, Isolated
  <2>3. CASE onStreamCommand
    <3>1. reading = "stream" /\ msg \in Message
      BY <2>3 DEF onStreamCommand, RoutingInv, Isolated
    <3>2. msg.type \in {"power", "installed_apps"} => reached' = reached
      BY <2>3, <3>1, StreamCommandCalls DEF onStreamCommand
    <3> QED BY <3>1, <3>2 DEF RoutingInv, Isolated
  <2>4. CASE \E w \in Workers : handler(w)
    <3>1. reached' = reached
      BY <2>4 DEF handler, Kill, Refuse, PowerBegins,
                  ShutdownBegins, Schedule, Reply, quiet
    <3> QED BY <3>1 DEF RoutingInv, RoutingTypes, Isolated, NoMessage
  <2>5. CASE StopScreen \/ Return \/ Done
    <3>1. reached' = reached
      BY <2>5 DEF StopScreen, Return, Done, routingVars
    <3> QED BY <3>1 DEF RoutingInv, RoutingTypes, Isolated, NoMessage
  <2> QED BY <2>1, <2>2, <2>3, <2>4, <2>5 DEF RoutingNext, Read, Disconnect
<1> QED BY RoutingHolds, <1>1, PTL DEF RoutingSpec, RequestsIsolated

-----------------------------------------------------------------------------
(* The inventory requests of the connection.                               *)

\* How many elements of a queue are of a kind.
Places(s, kind) == {n \in 1..Len(s) : s[n] \in kind}
Count(s, kind)  == Cardinality(Places(s, kind))

\* A queue has a number of elements of each kind, and none when it is empty.
LEMMA Counts ==
  ASSUME NEW T, NEW s \in Seq(T), NEW kind
  PROVE  /\ IsFiniteSet(Places(s, kind)) /\ Count(s, kind) \in Nat
         /\ Count(s, kind) > 0 => \E n \in 1..Len(s) : s[n] \in kind
         /\ Len(s) = 0 => Count(s, kind) = 0
<1>1. Len(s) \in Nat
  BY LenProperties
<1>2. IsFiniteSet(1..Len(s))
  BY <1>1, FS_Interval
<1>3. Places(s, kind) \in SUBSET (1..Len(s))
  BY DEF Places
<1>4. IsFiniteSet(Places(s, kind)) /\ Count(s, kind) \in Nat
  BY <1>2, <1>3, FS_Subset, FS_CardinalityType DEF Count
<1>5. Places(s, kind) = {} => Count(s, kind) = 0
  BY FS_EmptySet DEF Count
<1>6. Len(s) = 0 => Places(s, kind) = {}
  BY <1>1 DEF Places
<1> QED BY <1>4, <1>5, <1>6 DEF Places

\* What enters at the end is counted.
LEMMA CountAppend ==
  ASSUME NEW T, NEW s \in Seq(T), NEW x \in T, NEW kind
  PROVE  Count(Append(s, x), kind) = Count(s, kind) + (IF x \in kind THEN 1 ELSE 0)
<1>1. Len(s) \in Nat /\ Len(Append(s, x)) = Len(s) + 1
  BY LenProperties, AppendProperties
<1>2. Append(s, x)[Len(s) + 1] = x /\ \A n \in 1..Len(s) : Append(s, x)[n] = s[n]
  BY AppendProperties
<1>3. 1..(Len(s) + 1) = (1..Len(s)) \cup {Len(s) + 1} /\ Len(s) + 1 \notin 1..Len(s)
  BY <1>1
<1>4. Places(Append(s, x), kind) =
        IF x \in kind THEN Places(s, kind) \cup {Len(s) + 1} ELSE Places(s, kind)
  BY <1>1, <1>2, <1>3 DEF Places
<1>5. Len(s) + 1 \notin Places(s, kind)
  BY <1>3 DEF Places
<1>6. IsFiniteSet(Places(s, kind)) /\ Count(s, kind) \in Nat
  BY Counts
<1>7. Cardinality(Places(s, kind) \cup {Len(s) + 1}) = Cardinality(Places(s, kind)) + 1
  BY <1>5, <1>6, FS_AddElement
<1> QED BY <1>4, <1>6, <1>7 DEF Count

\* What leaves at the front no longer is.
LEMMA CountTail ==
  ASSUME NEW T, NEW s \in Seq(T), s # <<>>, NEW kind
  PROVE  Count(s, kind) = Count(Tail(s), kind) + (IF Head(s) \in kind THEN 1 ELSE 0)
<1> DEFINE later == {n \in 2..Len(s) : s[n] \in kind}
           shift == [n \in Places(Tail(s), kind) |-> n + 1]
<1>1. Len(s) \in Nat /\ Len(s) # 0
  BY EmptySeq
<1>2. Tail(s) \in Seq(T) /\ Len(Tail(s)) = Len(s) - 1
  BY HeadTailProperties
<1>3. \A n \in 1..(Len(s) - 1) : Tail(s)[n] = s[n + 1]
  BY <1>2, HeadTailProperties
<1>4. IsFiniteSet(Places(Tail(s), kind)) /\ Count(Tail(s), kind) \in Nat
  BY <1>2, Counts
<1>5. shift \in [Places(Tail(s), kind) -> later]
  <2> SUFFICES ASSUME NEW n \in Places(Tail(s), kind) PROVE n + 1 \in later
    OBVIOUS
  <2>1. n \in 1..(Len(s) - 1) /\ Tail(s)[n] \in kind
    BY <1>2 DEF Places
  <2> QED BY <1>1, <1>3, <2>1
<1>6. \A a, b \in Places(Tail(s), kind) : shift[a] = shift[b] => a = b
  <2>1. Places(Tail(s), kind) \subseteq Int
    BY DEF Places
  <2> QED BY <2>1
<1>7. \A m \in later : \E n \in Places(Tail(s), kind) : shift[n] = m
  <2> SUFFICES ASSUME NEW m \in later PROVE \E n \in Places(Tail(s), kind) : shift[n] = m
    OBVIOUS
  <2>1. m - 1 \in 1..(Len(s) - 1) /\ (m - 1) + 1 = m /\ s[m] \in kind
    BY <1>1
  <2>2. Tail(s)[m - 1] = s[m]
    BY <1>3, <2>1
  <2>3. m - 1 \in Places(Tail(s), kind)
    BY <1>2, <2>1, <2>2 DEF Places
  <2> QED BY <2>1, <2>3
<1>8. IsFiniteSet(later) /\ Cardinality(later) = Count(Tail(s), kind)
  <2> HIDE DEF later, shift
  <2>1. shift \in Bijection(Places(Tail(s), kind), later)
    BY <1>5, <1>6, <1>7, Fun_IsBij
  <2> QED BY <1>4, <2>1, FS_Bijection DEF ExistsBijection, Count
<1>9. Head(s) = s[1]
  OBVIOUS
<1>10. Places(s, kind) = IF Head(s) \in kind THEN later \cup {1} ELSE later
  <2>1. 1..Len(s) = {1} \cup (2..Len(s))
    BY <1>1
  <2> QED BY <1>9, <2>1 DEF Places
<1>11. 1 \notin later
  OBVIOUS
<1> HIDE DEF later, shift
<1>12. Cardinality(later \cup {1}) = Cardinality(later) + 1
  BY <1>8, <1>11, FS_AddElement
<1> QED BY <1>4, <1>8, <1>10, <1>12 DEF Count

\* The results of an accepted request.
Answers(i) == {i} \X {"apps", "failed"}

\* The accepted commands for i that are in flight.
Counted(i) ==
    Count(jobs, {i}) + Count(results, Answers(i))
  + (IF cpc \in {"collect", "publish"} /\ cid = i THEN 1 ELSE 0)
  + (IF wpc \in {"send", "unmark"} /\ wid = i /\ wkind # "busy" THEN 1 ELSE 0)

\* What a goroutine holds, and that both go on while the connection lives.
AppsTypes ==
  /\ AppsTypeOK
  /\ ckind \in {"apps", "failed"}
  /\ cpc \in {"collect", "publish"} => cid \in Ids
  /\ wpc \in {"send", "unmark"} => wid \in Ids
  /\ runCtx = "live" => cpc # "exit" /\ wpc # "exit"

\* While the connection lives the marks are the requests in flight, one copy each.
Tracked ==
  runCtx = "live" => \A i \in Ids \ spoiled : Counted(i) = IF i \in pending THEN 1 ELSE 0

\* A mark has its request in flight, except for the one that the collector may
\* have dropped when it ended.
Kept ==
  /\ cpc # "exit" => \A i \in pending : Counted(i) > 0
  /\ \E lost : \A i \in pending \ {lost} : Counted(i) > 0

AppsInv == AppsTypes /\ Tracked /\ Kept

\* The number of copies, for the model's own way of counting them.
LEMMA CopiesCount ==
  AppsTypeOK => \A i \in Ids : Counted(i) \in Nat /\ Copies(i) = Counted(i)
<1> SUFFICES ASSUME AppsTypeOK, NEW i \in Ids
             PROVE  Counted(i) \in Nat /\ Copies(i) = Counted(i)
  OBVIOUS
<1>1. jobs \in Seq(Ids) /\ results \in Seq(Ids \X {"apps", "failed", "busy"})
  BY DEF AppsTypeOK, Kinds
<1>2. Count(jobs, {i}) \in Nat /\ Count(results, Answers(i)) \in Nat
  BY <1>1, Counts
<1>3. {n \in 1..Len(jobs) : jobs[n] = i} = Places(jobs, {i})
  BY DEF Places
<1>4. {n \in 1..Len(results) : results[n][1] = i /\ results[n][2] # "busy"}
        = Places(results, Answers(i))
  <2>1. \A n \in 1..Len(results) : results[n] \in Ids \X {"apps", "failed", "busy"}
    BY <1>1, LenProperties
  <2>2. \A r \in Ids \X {"apps", "failed", "busy"} :
          r \in Answers(i) <=> r[1] = i /\ r[2] # "busy"
    BY DEF Answers
  <2> QED BY <2>1, <2>2 DEF Places
<1>5. /\ Cardinality({n \in 1..Len(jobs) : jobs[n] = i}) = Count(jobs, {i})
      /\ Cardinality({n \in 1..Len(results) : results[n][1] = i /\ results[n][2] # "busy"})
           = Count(results, Answers(i))
  BY <1>3, <1>4 DEF Count
<1> QED BY <1>2, <1>5 DEF Copies, Counted

\* What a step does to the marks and the copies: nothing, ...
Keeps == UNCHANGED <<pending, spoiled>> /\ \A i \in Ids : Counted(i)' = Counted(i)

\* ... it accepts a request, ...
Accepts(j) ==
  /\ j \notin pending /\ pending' = pending \cup {j} /\ spoiled' = spoiled
  /\ \A i \in Ids : Counted(i)' = Counted(i) + (IF i = j THEN 1 ELSE 0)

\* ... removes the mark of the one whose result was written, ...
Unmarks ==
  /\ pending' = pending \ {wid}
  /\ spoiled' = IF wkind = "busy" /\ wid \in pending THEN spoiled \cup {wid} ELSE spoiled
  /\ \A i \in Ids : Counted(i) = Counted(i)' + (IF i = wid /\ wkind # "busy" THEN 1 ELSE 0)

\* ... or drops a request, with the connection over.
Loses(j) ==
  /\ runCtx = "done" /\ cpc # "exit" /\ cpc' = "exit" /\ UNCHANGED <<pending, spoiled>>
  /\ \A i \in Ids \ {j} : Counted(i)' = Counted(i)

\* The reader's step.
LEMMA SubmitEffect ==
  ASSUME AppsTypes, NEW j \in Ids, submit(j)
  PROVE  AppsTypes' /\ (Keeps \/ Accepts(j))
<1>1. jobs \in Seq(Ids) /\ results \in Seq(Ids \X {"apps", "failed", "busy"})
  BY DEF AppsTypes, AppsTypeOK, Kinds
<1>2. Len(jobs) \in Nat /\ Len(results) \in Nat
  BY <1>1, LenProperties
<1>3. UNCHANGED <<runCtx, cpc, cid, ckind, wpc, wid, wkind, spoiled>>
  BY DEF submit, collector, writer
<1>4. submits' \in 0..MaxSubmits
  BY AppsAssumption DEF submit, AppsTypes, AppsTypeOK
<1>5. CASE UNCHANGED <<pending, jobs, results>>
  <2>1. Keeps
    BY <1>3, <1>5 DEF Keeps, Counted
  <2> QED BY <1>3, <1>4, <1>5, <2>1 DEF AppsTypes, AppsTypeOK
<1>6. CASE /\ j \notin pending /\ Len(jobs) < QueueSize /\ jobs' = Append(jobs, j)
           /\ pending' = pending \cup {j} /\ results' = results
  <2>1. jobs' \in Seq(Ids) /\ Len(jobs') = Len(jobs) + 1
    BY <1>1, <1>6, AppendProperties
  <2>2. \A i \in Ids : /\ Count(jobs', {i}) = Count(jobs, {i}) + (IF j \in {i} THEN 1 ELSE 0)
                       /\ Count(jobs, {i}) \in Nat /\ Count(results, Answers(i)) \in Nat
    BY <1>1, <1>6, Counts, CountAppend
  <2>3. \A i \in Ids : Counted(i)' = Counted(i) + (IF i = j THEN 1 ELSE 0)
    BY <1>3, <1>6, <2>2 DEF Counted
  <2>4. Len(jobs') <= QueueSize
    BY <1>2, <1>6, <2>1, AppsAssumption
  <2>5. AppsTypeOK'
    BY <1>3, <1>4, <1>6, <2>1, <2>4 DEF AppsTypes, AppsTypeOK
  <2> QED BY <1>3, <1>6, <2>3, <2>5 DEF AppsTypes, Accepts
<1>7. CASE /\ Len(results) < ResultSize /\ results' = Append(results, <<j, "busy">>)
           /\ UNCHANGED <<pending, jobs>>
  <2>0. <<j, "busy">> \in Ids \X {"apps", "failed", "busy"}
    OBVIOUS
  <2>1. /\ results' \in Seq(Ids \X {"apps", "failed", "busy"})
        /\ Len(results') = Len(results) + 1
    BY <1>1, <1>7, <2>0, AppendProperties
  <2>2. \A i \in Ids : <<j, "busy">> \notin Answers(i)
    BY DEF Answers
  <2>3. ASSUME NEW i \in Ids
        PROVE  Count(results', Answers(i)) = Count(results, Answers(i))
    <3>1. Count(results, Answers(i)) \in Nat
      BY <1>1, Counts
    <3>2. Count(Append(results, <<j, "busy">>), Answers(i)) =
            Count(results, Answers(i)) + (IF <<j, "busy">> \in Answers(i) THEN 1 ELSE 0)
      BY <1>1, <2>0, CountAppend
    <3> QED BY <1>7, <2>2, <3>1, <3>2
  <2>4. \A i \in Ids : Counted(i)' = Counted(i)
    BY <1>3, <1>7, <2>2, <2>3 DEF Counted
  <2>5. Len(results') <= ResultSize
    BY <1>2, <1>7, <2>1, AppsAssumption
  <2>6. AppsTypeOK'
    BY <1>3, <1>4, <1>7, <2>1, <2>5 DEF AppsTypes, AppsTypeOK, Kinds
  <2> QED BY <1>3, <1>7, <2>4, <2>6 DEF AppsTypes, Keeps
<1> QED BY <1>2, <1>5, <1>6, <1>7 DEF submit, AppsTypes, AppsTypeOK

\* The collector's step.
LEMMA CollectEffect ==
  ASSUME AppsTypes, collect
  PROVE  AppsTypes' /\ (Keeps \/ \E j \in Ids : Loses(j))
<1>1. jobs \in Seq(Ids) /\ results \in Seq(Ids \X {"apps", "failed", "busy"})
  BY DEF AppsTypes, AppsTypeOK, Kinds
<1>2. Len(jobs) \in Nat /\ Len(results) \in Nat
  BY <1>1, LenProperties
<1>3. /\ UNCHANGED <<runCtx, submits, pending, wpc, wid, wkind, spoiled>>
      /\ runCtx \in {"live", "done"}
  BY DEF collect, CollectTake, Collect, CollectPublish, CollectStop,
         writer, AppsTypes, AppsTypeOK
<1>4. \A i \in Ids : Count(jobs, {i}) \in Nat /\ Count(results, Answers(i)) \in Nat
  BY <1>1, Counts
<1>5. CASE CollectTake
  <2>1. /\ cpc = "idle" /\ jobs # <<>> /\ jobs' = Tail(jobs) /\ UNCHANGED <<results, ckind>>
        /\ \/ runCtx = "done" /\ cpc' = "exit" /\ cid' = cid
           \/ runCtx = "live" /\ cpc' = "collect" /\ cid' = Head(jobs)
    BY <1>3, <1>5 DEF CollectTake
  <2>2. /\ Head(jobs) \in Ids /\ jobs' \in Seq(Ids) /\ Len(jobs') = Len(jobs) - 1
    BY <1>1, <2>1, HeadTailProperties
  <2>3. PICK h \in Ids : h = Head(jobs)
    BY <2>2
  <2>4. ASSUME NEW i \in Ids
        PROVE  /\ Count(jobs, {i}) = Count(jobs', {i}) + (IF i = h THEN 1 ELSE 0)
               /\ Count(jobs', {i}) \in Nat
    <3>1. Count(jobs, {i}) = Count(Tail(jobs), {i}) + (IF Head(jobs) \in {i} THEN 1 ELSE 0)
      BY <1>1, <2>1, CountTail
    <3>2. Count(jobs', {i}) \in Nat
      BY <2>2, Counts
    <3> QED BY <2>1, <2>3, <3>1, <3>2
  <2>5. Len(jobs') <= QueueSize
    BY <1>2, <2>2, AppsAssumption DEF AppsTypes, AppsTypeOK
  <2>6. CASE runCtx = "live"
    <3>1. cpc = "idle" /\ cpc' = "collect" /\ cid' = h /\ results' = results /\ ckind' = ckind
      BY <2>1, <2>3, <2>6
    <3>2. ASSUME NEW i \in Ids PROVE Counted(i)' = Counted(i)
      <4>1. /\ Count(jobs, {i}) = Count(jobs', {i}) + (IF i = h THEN 1 ELSE 0)
            /\ Count(jobs, {i}) \in Nat /\ Count(jobs', {i}) \in Nat
            /\ Count(results, Answers(i)) \in Nat
            /\ Count(results', Answers(i)) = Count(results, Answers(i))
        BY <1>4, <2>4, <3>1
      <4> QED BY <1>3, <3>1, <4>1 DEF Counted
    <3> QED BY <1>3, <2>2, <2>5, <3>1, <3>2 DEF AppsTypes, AppsTypeOK, Keeps
  <2>7. CASE runCtx = "done"
    <3>1. cpc = "idle" /\ cpc' = "exit" /\ cid' = cid /\ results' = results /\ ckind' = ckind
      BY <2>1, <2>7
    <3>2. ASSUME NEW i \in Ids \ {h} PROVE Counted(i)' = Counted(i)
      <4>1. /\ Count(jobs, {i}) = Count(jobs', {i}) + (IF i = h THEN 1 ELSE 0)
            /\ Count(jobs, {i}) \in Nat /\ Count(jobs', {i}) \in Nat
            /\ Count(results, Answers(i)) \in Nat
            /\ Count(results', Answers(i)) = Count(results, Answers(i))
        BY <1>4, <2>4, <3>1
      <4> QED BY <1>3, <3>1, <4>1 DEF Counted
    <3>3. AppsTypes'
      BY <1>3, <2>2, <2>5, <2>7, <3>1 DEF AppsTypes, AppsTypeOK
    <3>4. Loses(h)
      BY <1>3, <2>7, <3>1, <3>2 DEF Loses
    <3> QED BY <3>3, <3>4
  <2> QED BY <1>3, <2>6, <2>7
<1>6. CASE Collect
  <2>1. /\ cpc = "collect" /\ cpc' = "publish" /\ ckind' \in {"apps", "failed"}
        /\ UNCHANGED <<jobs, results, cid>>
    BY <1>6 DEF Collect
  <2>2. \A i \in Ids : Counted(i)' = Counted(i)
    BY <1>3, <2>1 DEF Counted
  <2> QED BY <1>3, <2>1, <2>2 DEF AppsTypes, AppsTypeOK, Kinds, Keeps
<1>7. CASE CollectPublish
  <2>1. /\ cpc = "publish" /\ Len(results) < ResultSize /\ results' = Append(results, <<cid, ckind>>)
        /\ cpc' = "idle" /\ cid' = NoId /\ UNCHANGED <<jobs, ckind>>
    BY <1>7 DEF CollectPublish
  <2>2. cid \in Ids /\ ckind \in {"apps", "failed"}
    BY <2>1 DEF AppsTypes
  <2>3. <<cid, ckind>> \in Ids \X {"apps", "failed", "busy"}
    BY <2>2
  <2>4. results' \in Seq(Ids \X {"apps", "failed", "busy"}) /\ Len(results') = Len(results) + 1
    BY <1>1, <2>1, <2>3, AppendProperties
  <2>5. ASSUME NEW i \in Ids
        PROVE  Count(results', Answers(i)) = Count(results, Answers(i)) + (IF cid = i THEN 1 ELSE 0)
    <3>1. Count(Append(results, <<cid, ckind>>), Answers(i)) =
            Count(results, Answers(i)) + (IF <<cid, ckind>> \in Answers(i) THEN 1 ELSE 0)
      BY <1>1, <2>3, CountAppend
    <3>2. <<cid, ckind>> \in Answers(i) <=> cid = i
      BY <2>2 DEF Answers
    <3> QED BY <2>1, <3>1, <3>2
  <2>6. \A i \in Ids : Counted(i)' = Counted(i)
    BY <1>3, <1>4, <2>1, <2>5 DEF Counted
  <2>7. Len(results') <= ResultSize
    BY <1>2, <2>1, <2>4, AppsAssumption
  <2> QED BY <1>3, <2>1, <2>4, <2>6, <2>7 DEF AppsTypes, AppsTypeOK, Kinds, Keeps
<1>8. CASE CollectStop
  <2>1. /\ cpc \in {"idle", "publish"} /\ runCtx = "done" /\ cpc' = "exit"
        /\ UNCHANGED <<jobs, results, cid, ckind>>
    BY <1>8 DEF CollectStop
  <2>2. AppsTypes'
    BY <1>3, <2>1 DEF AppsTypes, AppsTypeOK
  <2>3. CASE cpc = "idle"
    <3>1. \A i \in Ids : Counted(i)' = Counted(i)
      BY <1>3, <2>1, <2>3 DEF Counted
    <3> QED BY <1>3, <2>2, <3>1 DEF Keeps
  <2>4. CASE cpc = "publish"
    <3>1. \A i \in Ids \ {cid} : Counted(i)' = Counted(i)
      BY <1>3, <2>1, <2>4 DEF Counted
    <3>2. Loses(cid) /\ cid \in Ids
      BY <1>3, <2>1, <2>4, <3>1 DEF Loses, AppsTypes
    <3> QED BY <2>2, <3>2
  <2> QED BY <2>1, <2>3, <2>4
<1> QED BY <1>5, <1>6, <1>7, <1>8 DEF collect

\* The writer's step, and the end of the connection.
LEMMA WriteEffect ==
  ASSUME AppsTypes, write \/ Cancel \/ UNCHANGED appsVars
  PROVE  AppsTypes' /\ (Keeps \/ Unmarks)
<1>1. jobs \in Seq(Ids) /\ results \in Seq(Ids \X {"apps", "failed", "busy"})
  BY DEF AppsTypes, AppsTypeOK, Kinds
<1>2. \A i \in Ids : Count(jobs, {i}) \in Nat /\ Count(results, Answers(i)) \in Nat
  BY <1>1, Counts
<1>3. CASE WriteTake
  <2>1. /\ wpc = "idle" /\ results # <<>> /\ results' = Tail(results)
        /\ wid' = Head(results)[1] /\ wkind' = Head(results)[2] /\ wpc' = "send"
        /\ UNCHANGED <<runCtx, submits, pending, jobs, cpc, cid, ckind, spoiled>>
    BY <1>3 DEF WriteTake, collector
  <2>2. /\ Head(results) \in Ids \X {"apps", "failed", "busy"}
        /\ results' \in Seq(Ids \X {"apps", "failed", "busy"}) /\ Len(results') = Len(results) - 1
    BY <1>1, <2>1, HeadTailProperties
  <2>3. Len(results) \in Nat /\ Len(results') <= ResultSize
    BY <1>1, <2>2, LenProperties, AppsAssumption DEF AppsTypes, AppsTypeOK
  <2>4. wid' \in Ids /\ wkind' \in {"apps", "failed", "busy"}
    BY <2>1, <2>2
  <2>5. ASSUME NEW i \in Ids
        PROVE  /\ Count(results, Answers(i)) = Count(results', Answers(i))
                    + (IF wid' = i /\ wkind' # "busy" THEN 1 ELSE 0)
               /\ Count(results', Answers(i)) \in Nat
    <3>1. Count(results, Answers(i)) =
            Count(Tail(results), Answers(i)) + (IF Head(results) \in Answers(i) THEN 1 ELSE 0)
      BY <1>1, <2>1, CountTail
    <3>2. Head(results) \in Answers(i) <=> wid' = i /\ wkind' # "busy"
      BY <2>1, <2>2 DEF Answers
    <3>3. Count(results', Answers(i)) \in Nat
      BY <2>2, Counts
    <3> QED BY <2>1, <3>1, <3>2, <3>3
  <2>6. \A i \in Ids : Counted(i)' = Counted(i)
    BY <1>2, <2>1, <2>5 DEF Counted
  <2> QED BY <2>1, <2>2, <2>3, <2>4, <2>6 DEF AppsTypes, AppsTypeOK, Kinds, Keeps
<1>4. CASE WriteSend
  <2>1. /\ wpc = "send" /\ wpc' = "unmark"
        /\ UNCHANGED <<runCtx, submits, pending, jobs, results, cpc, cid, ckind, wid, wkind, spoiled>>
    BY <1>4 DEF WriteSend, collector
  <2>2. \A i \in Ids : Counted(i)' = Counted(i)
    BY <2>1 DEF Counted
  <2> QED BY <2>1, <2>2 DEF AppsTypes, AppsTypeOK, Keeps
<1>5. CASE WriteUnmark
  <2>1. /\ wpc = "unmark" /\ wpc' = "idle" /\ wid' = NoId /\ pending' = pending \ {wid}
        /\ spoiled' = IF wkind = "busy" /\ wid \in pending THEN spoiled \cup {wid} ELSE spoiled
        /\ UNCHANGED <<runCtx, submits, jobs, results, cpc, cid, ckind, wkind>>
    BY <1>5 DEF WriteUnmark, collector
  <2>2. wid \in Ids
    BY <2>1 DEF AppsTypes
  <2>3. \A i \in Ids : Counted(i) = Counted(i)' + (IF i = wid /\ wkind # "busy" THEN 1 ELSE 0)
    BY <1>2, <2>1 DEF Counted
  <2>4. pending' \in SUBSET Ids /\ spoiled' \in SUBSET Ids
    BY <2>1, <2>2 DEF AppsTypes, AppsTypeOK
  <2> QED BY <2>1, <2>3, <2>4 DEF AppsTypes, AppsTypeOK, Unmarks
<1>6. CASE WriteStop
  <2>1. /\ wpc = "idle" /\ runCtx = "done" /\ wpc' = "exit"
        /\ UNCHANGED <<runCtx, submits, pending, jobs, results, cpc, cid, ckind, wid, wkind, spoiled>>
    BY <1>6 DEF WriteStop, collector
  <2>2. \A i \in Ids : Counted(i)' = Counted(i)
    BY <2>1 DEF Counted
  <2> QED BY <2>1, <2>2 DEF AppsTypes, AppsTypeOK, Keeps
<1>7. CASE Cancel \/ UNCHANGED appsVars
  <2>1. /\ UNCHANGED <<submits, pending, jobs, results, cpc, cid, ckind, wpc, wid, wkind, spoiled>>
        /\ runCtx' \in {"live", "done"} /\ (runCtx' = "live" => runCtx = "live")
    BY <1>7 DEF Cancel, appsVars, collector, writer, AppsTypes, AppsTypeOK
  <2>2. \A i \in Ids : Counted(i)' = Counted(i)
    BY <2>1 DEF Counted
  <2> QED BY <2>1, <2>2 DEF AppsTypes, AppsTypeOK, Keeps
<1> QED BY <1>3, <1>4, <1>5, <1>6, <1>7 DEF write

\* No request has been received at first.
LEMMA AppsStarts == ASSUME AppsInit PROVE AppsInv
<1>1. /\ runCtx = "live" /\ submits = 0 /\ pending = {} /\ jobs = <<>> /\ results = <<>>
      /\ cpc = "idle" /\ cid = NoId /\ ckind = "failed"
      /\ wpc = "idle" /\ wid = NoId /\ wkind = "failed" /\ spoiled = {}
  BY DEF AppsInit
<1>2. /\ jobs \in Seq(Ids) /\ results \in Seq(Ids \X {"apps", "failed", "busy"})
      /\ Len(jobs) = 0 /\ Len(results) = 0
  BY <1>1, EmptySeq
<1>3. AppsTypes
  BY <1>1, <1>2, AppsAssumption DEF AppsTypes, AppsTypeOK, Kinds
<1>4. \A i \in Ids : Count(jobs, {i}) = 0 /\ Count(results, Answers(i)) = 0
  BY <1>2, Counts
<1>5. \A i \in Ids : Counted(i) = 0
  BY <1>1, <1>4 DEF Counted
<1> QED BY <1>1, <1>3, <1>5 DEF AppsInv, Tracked, Kept

\* Neither effect of a step puts the marks and the copies out of step.
LEMMA EffectsKeepMarks ==
  ASSUME AppsInv, AppsTypes', runCtx' = "live" => runCtx = "live", cpc' # "exit" => cpc # "exit",
         \/ Keeps \/ Unmarks
         \/ \E j \in Ids : Accepts(j) \/ Loses(j)
  PROVE  Tracked' /\ Kept'
<1>0. /\ pending \subseteq Ids /\ spoiled \subseteq Ids
      /\ \A i \in Ids : Counted(i) \in Nat /\ Counted(i)' \in Nat
  <2>1. AppsTypeOK /\ AppsTypeOK'
    BY DEF AppsInv, AppsTypes
  <2>2. \A i \in Ids : Counted(i) \in Nat
    BY <2>1, CopiesCount
  <2>3. jobs' \in Seq(Ids) /\ results' \in Seq(Ids \X {"apps", "failed", "busy"})
    BY <2>1 DEF AppsTypeOK, Kinds
  <2>4. \A i \in Ids : Count(jobs', {i}) \in Nat /\ Count(results', Answers(i)) \in Nat
    BY <2>3, Counts
  <2>5. \A i \in Ids : Counted(i)' \in Nat
    BY <2>4 DEF Counted
  <2> QED BY <2>1, <2>2, <2>5 DEF AppsTypeOK
<1>1. PICK lost : \A i \in pending \ {lost} : Counted(i) > 0
  BY DEF AppsInv, Kept
<1>2. CASE Keeps
  <2>1. Tracked'
    BY <1>2 DEF AppsInv, Tracked, Keeps
  <2>2. cpc' # "exit" => \A i \in pending' : Counted(i)' > 0
    BY <1>0, <1>2 DEF AppsInv, Kept, Keeps
  <2>3. \A i \in pending' \ {lost} : Counted(i)' > 0
    BY <1>0, <1>1, <1>2 DEF Keeps
  <2> QED BY <2>1, <2>2, <2>3 DEF Kept
<1>3. ASSUME NEW j \in Ids, Accepts(j) PROVE Tracked' /\ Kept'
  <2>1. Tracked'
    BY <1>0, <1>3 DEF AppsInv, Tracked, Accepts
  <2>2. cpc' # "exit" => \A i \in pending' : Counted(i)' > 0
    BY <1>0, <1>3 DEF AppsInv, Kept, Accepts
  <2>3. \A i \in pending' \ {lost} : Counted(i)' > 0
    BY <1>0, <1>1, <1>3 DEF Accepts
  <2> QED BY <2>1, <2>2, <2>3 DEF Kept
<1>4. CASE Unmarks
  <2>1. Tracked'
    <3> SUFFICES ASSUME runCtx' = "live", NEW i \in Ids, i \notin spoiled'
                 PROVE  Counted(i)' = IF i \in pending' THEN 1 ELSE 0
      BY DEF Tracked
    <3>1. i \notin spoiled /\ Counted(i) = IF i \in pending THEN 1 ELSE 0
      BY <1>4 DEF Unmarks, AppsInv, Tracked
    <3>2. i = wid /\ i \in pending => wkind # "busy"
      BY <1>4 DEF Unmarks
    <3>3. Counted(i) = Counted(i)' + (IF i = wid /\ wkind # "busy" THEN 1 ELSE 0)
      BY <1>4 DEF Unmarks
    <3>4. i \in pending' <=> i \in pending /\ i # wid
      BY <1>4 DEF Unmarks
    <3> QED BY <1>0, <3>1, <3>2, <3>3, <3>4
  <2>2. cpc' # "exit" => \A i \in pending' : Counted(i)' > 0
    BY <1>0, <1>4 DEF AppsInv, Kept, Unmarks
  <2>3. \A i \in pending' \ {lost} : Counted(i)' > 0
    BY <1>0, <1>1, <1>4 DEF Unmarks
  <2> QED BY <2>1, <2>2, <2>3 DEF Kept
<1>5. ASSUME NEW j \in Ids, Loses(j) PROVE Tracked' /\ Kept'
  <2>1. Tracked'
    BY <1>5 DEF Tracked, Loses
  <2>2. cpc' = "exit"
    BY <1>5 DEF Loses
  <2>3. \A i \in pending' \ {j} : Counted(i)' > 0
    BY <1>0, <1>5 DEF AppsInv, Kept, Loses
  <2> QED BY <2>1, <2>2, <2>3 DEF Kept
<1> QED BY <1>2, <1>3, <1>4, <1>5

\* The invariant of the requests.
LEMMA AppsHolds == AppsSpec => []AppsInv
<1>1. AppsInv /\ [AppsNext]_appsVars => AppsInv'
  <2> SUFFICES ASSUME AppsInv, [AppsNext]_appsVars PROVE AppsInv'
    OBVIOUS
  <2>1. AppsTypes
    BY DEF AppsInv
  <2>2. (runCtx' = "live" => runCtx = "live") /\ (cpc' # "exit" => cpc # "exit")
    BY DEF AppsNext, submit, Cancel, collect, CollectTake, Collect,
           CollectPublish, CollectStop, write, WriteTake, WriteSend,
           WriteUnmark, WriteStop, appsVars, collector, writer
  <2>3. AppsTypes' /\ (Keeps \/ Unmarks \/ \E j \in Ids : Accepts(j) \/ Loses(j))
    BY <2>1, SubmitEffect, CollectEffect, WriteEffect DEF AppsNext
  <2> QED BY <2>2, <2>3, EffectsKeepMarks DEF AppsInv
<1> QED BY AppsStarts, <1>1, PTL DEF AppsSpec

\* A mark needs a place: in a queue, or with one of the two goroutines.
LEMMA MarksAreBounded ==
  ASSUME AppsInv PROVE Cardinality(pending) <= QueueSize + ResultSize + 2
<1> DEFINE N == 1..Len(jobs)
           M == 1..Len(results)
           ids == [n \in M |-> results[n][1]]
<1>1. /\ jobs \in Seq(Ids) /\ Len(jobs) <= QueueSize /\ pending \subseteq Ids
      /\ results \in Seq(Ids \X {"apps", "failed", "busy"}) /\ Len(results) <= ResultSize
  BY DEF AppsInv, AppsTypes, AppsTypeOK, Kinds
<1>2. /\ Len(jobs) \in Nat /\ jobs \in [N -> Ids] /\ Len(results) \in Nat
      /\ results \in [M -> Ids \X {"apps", "failed", "busy"}]
  BY <1>1, LenProperties
<1>3. ids \in [M -> Ids]
  BY <1>2
<1>4. /\ IsFiniteSet(N) /\ Cardinality(N) = Len(jobs)
      /\ IsFiniteSet(M) /\ Cardinality(M) = Len(results)
  <2>1. \A n \in Nat : IsFiniteSet(1..n) /\ Cardinality(1..n) = IF 1 > n THEN 0 ELSE n - 1 + 1
    BY FS_Interval
  <2>2. \A n \in Nat : (IF 1 > n THEN 0 ELSE n - 1 + 1) = n
    OBVIOUS
  <2> QED BY <1>2, <2>1, <2>2
<1>5. IsFiniteSet(Range(jobs)) /\ Cardinality(Range(jobs)) <= Len(jobs)
  <2> HIDE DEF N
  <2>1. jobs \in Surjection(N, Range(jobs))
    BY <1>2, Fun_RangeProperties
  <2> QED BY <1>4, <2>1, FS_Surjection
<1>6. IsFiniteSet(Range(ids)) /\ Cardinality(Range(ids)) <= Len(results)
  <2> HIDE DEF ids, M
  <2>1. ids \in Surjection(M, Range(ids))
    BY <1>3, Fun_RangeProperties
  <2> QED BY <1>4, <2>1, FS_Surjection
<1>7. \A i \in Ids : Counted(i) > 0 =>
        \/ i \in Range(jobs) \/ i \in Range(ids) \/ i = wid
        \/ cpc \in {"collect", "publish"} /\ i = cid
  <2> SUFFICES ASSUME NEW i \in Ids, Counted(i) > 0, i \notin Range(jobs), i \notin Range(ids)
               PROVE  i = wid \/ (cpc \in {"collect", "publish"} /\ i = cid)
    OBVIOUS
  <2>1. Count(jobs, {i}) = 0
    <3>1. \A n \in N : jobs[n] # i
      BY <1>2 DEF Range
    <3> QED BY <1>1, <3>1, Counts
  <2>2. Count(results, Answers(i)) = 0
    <3>1. \A n \in M : results[n][1] # i
      BY <1>2 DEF Range
    <3>2. \A n \in M : results[n] \notin Answers(i)
      BY <1>2, <3>1 DEF Answers
    <3> QED BY <1>1, <3>2, Counts
  <2> QED BY <2>1, <2>2 DEF Counted
<1>8. PICK y : pending \subseteq ((Range(jobs) \cup Range(ids)) \cup {wid}) \cup {y}
  <2>1. PICK lost : \A i \in pending \ {lost} : Counted(i) > 0
    BY DEF AppsInv, Kept
  <2>2. CASE cpc = "exit"
    BY <1>1, <1>7, <2>1, <2>2
  <2>3. CASE cpc # "exit"
    <3>1. \A i \in pending : i \in Range(jobs) \/ i \in Range(ids) \/ i = wid \/ i = cid
      BY <1>1, <1>7, <2>3 DEF AppsInv, Kept
    <3>2. pending \subseteq ((Range(jobs) \cup Range(ids)) \cup {wid}) \cup {cid}
      BY <3>1
    <3> QED BY <3>2
  <2> QED BY <2>2, <2>3
<1> HIDE DEF N, M, ids
<1> DEFINE both == Range(jobs) \cup Range(ids)
<1>9. IsFiniteSet(both) /\ Cardinality(both) <= Len(jobs) + Len(results)
  <2>1. IsFiniteSet(Range(jobs) \cap Range(ids)) /\ Cardinality(Range(jobs) \cap Range(ids)) \in Nat
    BY <1>5, FS_Subset, FS_CardinalityType
  <2>2. /\ Cardinality(Range(jobs)) \in Nat /\ Cardinality(Range(ids)) \in Nat
    BY <1>5, <1>6, FS_CardinalityType
  <2>3. /\ IsFiniteSet(both)
        /\ Cardinality(both) = Cardinality(Range(jobs)) + Cardinality(Range(ids))
                                 - Cardinality(Range(jobs) \cap Range(ids))
    BY <1>5, <1>6, FS_Union
  <2> QED BY <1>2, <1>5, <1>6, <2>1, <2>2, <2>3
<1> HIDE DEF both
<1>a. \A S, x : IsFiniteSet(S) => /\ IsFiniteSet(S \cup {x}) /\ Cardinality(S) \in Nat
                                 /\ Cardinality(S \cup {x}) <= Cardinality(S) + 1
  <2> SUFFICES ASSUME NEW S, NEW x, IsFiniteSet(S)
               PROVE  /\ IsFiniteSet(S \cup {x}) /\ Cardinality(S) \in Nat
                      /\ Cardinality(S \cup {x}) <= Cardinality(S) + 1
    OBVIOUS
  <2>1. Cardinality(S) \in Nat
    BY FS_CardinalityType
  <2>2. /\ IsFiniteSet(S \cup {x})
        /\ Cardinality(S \cup {x}) = IF x \in S THEN Cardinality(S) ELSE Cardinality(S) + 1
    BY FS_AddElement
  <2> QED BY <2>1, <2>2
<1>10. IsFiniteSet(both \cup {wid}) /\ Cardinality(both \cup {wid}) <= Cardinality(both) + 1
  BY <1>9, <1>a
<1>11. /\ IsFiniteSet((both \cup {wid}) \cup {y})
       /\ Cardinality((both \cup {wid}) \cup {y}) <= Cardinality(both \cup {wid}) + 1
  BY <1>10, <1>a
<1>12. IsFiniteSet(pending) /\ Cardinality(pending) <= Cardinality((both \cup {wid}) \cup {y})
  BY <1>8, <1>11, FS_Subset DEF both
<1>13. /\ Cardinality(both) \in Nat /\ Cardinality(both \cup {wid}) \in Nat
       /\ Cardinality((both \cup {wid}) \cup {y}) \in Nat /\ Cardinality(pending) \in Nat
  BY <1>9, <1>10, <1>11, <1>12, FS_CardinalityType
<1> QED BY <1>1, <1>2, <1>9, <1>10, <1>11, <1>12, <1>13, AppsAssumption

\* While the connection lives the map of pending request IDs is exactly the
\* requests in flight, each once, except where a "busy" answer has removed a mark
\* that was not its own; and the map is bounded at all times, for queues of any
\* size and any number of requests (installed_apps.go:52, 123).
THEOREM DuplicatesAreTracked == AppsSpec => []DuplicatesTracked
<1>1. AppsInv => DuplicatesTracked
  <2> SUFFICES ASSUME AppsInv PROVE DuplicatesTracked
    OBVIOUS
  <2>1. AppsTypeOK /\ pending \subseteq Ids
    BY DEF AppsInv, AppsTypes, AppsTypeOK
  <2>2. \A i \in Ids : Copies(i) = Counted(i)
    BY <2>1, CopiesCount
  <2>3. runCtx = "live" => /\ \A i \in Ids \ spoiled : Counted(i) = (IF i \in pending THEN 1 ELSE 0)
                           /\ \A i \in pending : Counted(i) > 0
    BY DEF AppsInv, AppsTypes, Tracked, Kept
  <2>4. Cardinality(pending) <= QueueSize + ResultSize + 2
    BY MarksAreBounded
  <2> QED BY <2>1, <2>2, <2>3, <2>4 DEF DuplicatesTracked
<1> QED BY AppsHolds, <1>1, PTL
=============================================================================
