--------------------------- MODULE StatePublisher ---------------------------
(***************************************************************************)
(* client/performance.go (publishOnCommand) and setStreamState of          *)
(* client.go: the performance and the process stream of one connection.    *)
(*                                                                         *)
(* The WebSocket reader passes the requested state through a channel of    *)
(* capacity one, dropping an older request the publisher has not taken;    *)
(* the publisher sends at once when it is started and then on every tick.  *)
(***************************************************************************)
EXTENDS Sequences, Naturals

CONSTANT MaxCommands   \* bound: start and stop commands on the connection

States == {"start", "stop"}

VARIABLES
  commands,  \* the channel: at most one requested state
  setter,    \* the reader in setStreamState
  request,   \* the state it is passing on
  count,     \* commands received so far
  active,    \* the publisher's active state
  ticker,    \* none or running
  ppc,       \* the publisher: select, first send, tick send, exit
  ctx        \* runCtx: live or done

vars == <<commands, setter, request, count, active, ticker, ppc, ctx>>

TypeOK ==
  /\ commands \in Seq(States) /\ Len(commands) <= 1
  /\ setter \in {"idle", "drain", "put"}
  /\ request \in States
  /\ count \in 0..MaxCommands
  /\ active \in States
  /\ ticker \in {"none", "running"}
  /\ ppc \in {"select", "first", "tick", "exit"}
  /\ ctx \in {"live", "done"}

Init ==
  /\ commands = <<>> /\ setter = "idle" /\ request = "stop" /\ count = 0
  /\ active = "stop" /\ ticker = "none" /\ ppc = "select" /\ ctx = "live"

-----------------------------------------------------------------------------
(* The reader: setStreamState.                                             *)

\* Mutant: A request that finds the channel full is dropped.
SetStreamStateDrops(state) ==
  /\ setter = "idle" /\ count < MaxCommands
  /\ count' = count + 1
  /\ request' = state
  /\ commands' = IF commands = <<>> THEN <<state>> ELSE commands
  /\ UNCHANGED <<setter, active, ticker, ppc, ctx>>

\* The first select: put the request if there is room.
setStreamState(state) ==
  /\ setter = "idle" /\ count < MaxCommands
  /\ count' = count + 1
  /\ request' = state
  /\ IF commands = <<>>
     THEN commands' = <<state>> /\ UNCHANGED setter
     ELSE setter' = "drain" /\ UNCHANGED commands
  /\ UNCHANGED <<active, ticker, ppc, ctx>>


\* The second select: throw the older request away, if it is still there.
Drain ==
  /\ setter = "drain"
  /\ commands' = <<>>
  /\ setter' = "put"
  /\ UNCHANGED <<request, count, active, ticker, ppc, ctx>>

\* The final send blocks while the channel is full.
Put ==
  /\ setter = "put" /\ Len(commands) < 1
  /\ commands' = Append(commands, request)
  /\ setter' = "idle"
  /\ UNCHANGED <<request, count, active, ticker, ppc, ctx>>

-----------------------------------------------------------------------------
(* The publisher: publishOnCommand.                                        *)

\* A repeated state changes nothing; stop ends the ticker.
TakeCommand ==
  /\ ppc = "select" /\ commands # <<>>
  /\ commands' = Tail(commands)
  /\ active' = Head(commands)
  /\ \/ Head(commands) = active /\ UNCHANGED <<ticker, ppc>>
     \/ Head(commands) # active /\ Head(commands) = "stop"
        /\ ticker' = "none" /\ UNCHANGED ppc
     \/ Head(commands) # active /\ Head(commands) = "start"
        /\ ppc' = "first" /\ UNCHANGED ticker
  /\ UNCHANGED <<setter, request, count, ctx>>

Tick ==
  /\ ppc = "select" /\ ticker = "running"
  /\ ppc' = "tick"
  /\ UNCHANGED <<commands, setter, request, count, active, ticker, ctx>>

\* send(): a provider error is logged, a failed write ends the publisher.
Send ==
  /\ ppc \in {"first", "tick"}
  /\ \/ ppc' = "select" /\ ticker' = "running"
     \/ ppc' = "exit" /\ ticker' = "none"
  /\ UNCHANGED <<commands, setter, request, count, active, ctx>>

Stop ==
  /\ ppc = "select" /\ ctx = "done"
  /\ ppc' = "exit" /\ ticker' = "none"
  /\ UNCHANGED <<commands, setter, request, count, active, ctx>>

publishOnCommand == TakeCommand \/ Tick \/ Send \/ Stop

Cancel ==
  /\ ctx = "live"
  /\ ctx' = "done"
  /\ UNCHANGED <<commands, setter, request, count, active, ticker, ppc>>

Next == (\E s \in States : setStreamState(s)) \/ Drain \/ Put \/ publishOnCommand \/ Cancel

Spec == Init /\ [][Next]_vars

-----------------------------------------------------------------------------
(* Properties.                                                             *)

\* "Only the latest requested state matters" (client.go:329): whenever the reader
\* is not passing a command on and the publisher has taken everything, it is in
\* the state that was requested last, however the two interleaved before; and
\* the ticker runs only in the active state, so a stopped stream is silent.
LatestStateWins ==
  /\ TypeOK
  /\ setter = "idle" /\ commands = <<>> /\ ppc # "exit" => active = request
  /\ ppc \in {"first", "tick"} => active = "start"
  /\ ppc = "select" => (ticker = "running" <=> active = "start")
=============================================================================
