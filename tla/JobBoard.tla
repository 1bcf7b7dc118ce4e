------------------------------ MODULE JobBoard ------------------------------
(***************************************************************************)
(* What a manager of background jobs promises the rest of the agent.       *)
(*                                                                         *)
(* A task is accepted at most once at a time, waits its turn, occupies one *)
(* slot, takes effect at most once, has its outcome reported and leaves.   *)
(* Tasks whose effect is still remembered are not accepted again.  Once    *)
(* closed, the board accepts nothing; when Close has returned, nothing is  *)
(* left on it.  download.Manager and antivirus.Manager implement it.       *)
(***************************************************************************)
EXTENDS Naturals, Sequences

CONSTANTS Tasks,   \* what is asked for
          Slots,   \* what carries it out
          NoTask,  \* an empty slot
          Room     \* how many accepted tasks may wait

VARIABLES
  board,  \* "open", then "closing" (Close waits), then "closed"
  queue,  \* accepted tasks in the order of their acceptance
  slot,   \* the task in each slot
  phase,  \* free, taken, running, effected (not reported yet) or settled
  done,   \* history: tasks that have taken effect
  kept    \* tasks whose effect is remembered

vars == <<board, queue, slot, phase, done, kept>>

Queued(t) == \E i \in 1..Len(queue) : queue[i] = t
OnBoard(t) == Queued(t) \/ \E s \in Slots : slot[s] = t

Init ==
  /\ board = "open" /\ queue = <<>>
  /\ slot = [s \in Slots |-> NoTask]
  /\ phase = [s \in Slots |-> "free"]
  /\ done = {} /\ kept = {}

\* A task is accepted and waits ...
Accept(t) ==
  /\ board = "open" /\ t \notin kept /\ ~OnBoard(t)
  /\ Len(queue) < Room
  /\ queue' = Append(queue, t)
  /\ UNCHANGED <<board, slot, phase, done, kept>>

\* ... or is handed to a free slot at once.
AcceptAt(t, s) ==
  /\ board = "open" /\ t \notin kept /\ ~OnBoard(t)
  /\ queue = <<>> /\ phase[s] = "free"
  /\ slot' = [slot EXCEPT ![s] = t]
  /\ phase' = [phase EXCEPT ![s] = "taken"]
  /\ UNCHANGED <<board, queue, done, kept>>

Take(s) ==
  /\ phase[s] = "free" /\ queue # <<>>
  /\ slot' = [slot EXCEPT ![s] = Head(queue)]
  /\ phase' = [phase EXCEPT ![s] = "taken"]
  /\ queue' = Tail(queue)
  /\ UNCHANGED <<board, done, kept>>

Move(s, from, to) ==
  /\ phase[s] \in from
  /\ phase' = [phase EXCEPT ![s] = to]
  /\ UNCHANGED <<board, queue, slot>>

Run(s) == Move(s, {"taken"}, "running") /\ UNCHANGED <<done, kept>>

\* The effect is visible and final; the report follows.
Effect(s) ==
  /\ Move(s, {"running"}, "effected")
  /\ done' = done \cup {slot[s]}
  /\ UNCHANGED kept

\* The effect is remembered, at the cost of older memories.
Keep(s) ==
  /\ phase[s] = "effected"
  /\ slot[s] \in kept' /\ kept' \subseteq kept \cup {slot[s]}
  /\ UNCHANGED <<board, queue, slot, phase, done>>

\* The one report: of success after the effect, of failure without it.
Settle(s) == Move(s, {"running", "effected"}, "settled") /\ UNCHANGED <<done, kept>>

\* The slot is free again; a task that was never run leaves only a closed board.
Leave(s) ==
  /\ phase[s] = "settled" \/ (phase[s] = "taken" /\ board # "open")
  /\ slot' = [slot EXCEPT ![s] = NoTask]
  /\ phase' = [phase EXCEPT ![s] = "free"]
  /\ UNCHANGED <<board, queue, done, kept>>

Close ==
  /\ board = "open" /\ board' = "closing"
  /\ UNCHANGED <<queue, slot, phase, done, kept>>

CloseReturns ==
  /\ board = "closing" /\ board' = "closed"
  /\ queue = <<>> /\ \A s \in Slots : phase[s] = "free"
  /\ UNCHANGED <<queue, slot, phase, done, kept>>

Next ==
  \/ Close \/ CloseReturns
  \/ \E t \in Tasks : Accept(t) \/ \E s \in Slots : AcceptAt(t, s)
  \/ \E s \in Slots : Take(s) \/ Run(s) \/ Effect(s) \/ Keep(s) \/ Settle(s) \/ Leave(s)

Spec == Init /\ [][Next]_vars

\* Whoever closes the board gets it back empty.
Drains == board = "closing" ~> board = "closed"

Promise == Spec /\ Drains
=============================================================================
