-------------------------- MODULE ConnectionStreams --------------------------
(***************************************************************************)
(* The screen stream and a state stream on one connection (client.go,      *)
(* runConnection): ScreenStreamer and StatePublisher composed.             *)
(*                                                                         *)
(* What they share is the reader goroutine and runCtx.  The reader passes  *)
(* on one command at a time, so while it waits in Stop, or for room in the *)
(* channel of setStreamState, it can do nothing else; and it is the reader *)
(* that tears the connection down.  cancel() reaches both streams at once; *)
(* then the deferred function stops the screen and, in workers.Wait, waits *)
(* for the publisher.                                                      *)
(***************************************************************************)
EXTENDS Naturals, Sequences

CONSTANTS MaxStarts,    \* bound: generations of the screen stream
          MaxCommands   \* bound: commands for the state stream

ASSUME StreamsAssumption == MaxStarts \in Nat \ {0} /\ MaxCommands \in Nat

VARIABLES
  streaming, done, cancelled, gpc, reader, waiting, conn, want,      \* the screen
  commands, setter, request, count, active, ticker, ppc, ctx        \* the publisher

screenVars    == <<streaming, done, cancelled, gpc, reader, waiting, conn, want>>
publisherVars == <<commands, setter, request, count, active, ticker, ppc, ctx>>
vars == <<screenVars, publisherVars>>

Screen    == INSTANCE ScreenStreamer
Publisher == INSTANCE StatePublisher

Init == Screen!Init /\ Publisher!Init

-----------------------------------------------------------------------------
\* The reader takes a screen command; it is not in setStreamState.
ScreenCommand ==
  /\ setter = "idle"
  /\ Screen!Start \/ Screen!StopCommand
  /\ UNCHANGED publisherVars

\* The reader takes a command for the publisher; it is not in Stop.
StateCommand ==
  /\ reader = "idle"
  /\ \E state \in Publisher!States : Publisher!setStreamState(state)
  /\ UNCHANGED screenVars

\* The rest of setStreamState.
SetState == (Publisher!Drain \/ Publisher!Put) /\ UNCHANGED screenVars

\* The read fails: runCtx is cancelled, for both streams.
Teardown ==
  /\ setter = "idle"
  /\ Screen!Teardown
  /\ ctx' = "done"
  /\ UNCHANGED <<commands, setter, request, count, active, ticker, ppc>>

\* The reader's waits: Stop in the teardown, and the done channel.
ReaderWaits == (Screen!TeardownStop \/ Screen!StopReturns) /\ UNCHANGED publisherVars

capture(g) == Screen!run(g) /\ UNCHANGED publisherVars

publish == Publisher!publishOnCommand /\ UNCHANGED screenVars

Break == Screen!Break /\ UNCHANGED publisherVars

\* The context of Run is cancelled from above: both streams see it.
CancelRun == Screen!CancelRun /\ Publisher!Cancel

Over == reader = "gone" /\ ppc = "exit" /\ UNCHANGED vars

Next ==
  \/ ScreenCommand \/ StateCommand \/ SetState \/ Teardown \/ ReaderWaits
  \/ \E g \in Screen!Generations : capture(g)
  \/ publish \/ Break \/ CancelRun \/ Over

Spec == Init /\ [][Next]_vars

\* The goroutines are scheduled, a capture returns, and Go's select, which picks
\* among the ready cases at random, does not prefer a ticker for ever.
FairSpec ==
  /\ Spec
  /\ WF_vars(SetState) /\ WF_vars(ReaderWaits) /\ WF_vars(publish)
  /\ SF_vars(publish /\ Publisher!TakeCommand) /\ SF_vars(publish /\ Publisher!Stop)
  /\ \A g \in Screen!Generations :
       /\ WF_vars(capture(g))
       /\ SF_vars(capture(g) /\ gpc[g] = "select" /\ gpc'[g] = "leave")

-----------------------------------------------------------------------------
\* client/screen.go:29: one capture goroutine at a time, known to the streamer,
\* although goroutines end by themselves (ScreenStreamer).
OneStream == Screen!OneStream

\* client/screen.go:82: once Stop has returned nothing captures or writes, in
\* answer to a command or in the teardown (ScreenStreamer).
StopMeansStopped == Screen!StopMeansStopped

\* client/client.go:329: only the latest requested state matters, and a stopped
\* publisher is silent (StatePublisher).
LatestStateWins == Publisher!LatestStateWins

=============================================================================
