----------------------------- MODULE ScanManager -----------------------------
(***************************************************************************)
(* antivirus/scan.go: one Defender scan at a time per client.              *)
(*                                                                         *)
(* The WebSocket reader submits commands; an accepted one runs in its own  *)
(* goroutine and survives reconnects; Close cancels and joins it.  Events  *)
(* are handed to Client.sendDownloadEvent with the mutex released.         *)
(***************************************************************************)
EXTENDS Sequences

CONSTANTS Scans,    \* submissions of virus_scan commands
          NoScan,   \* m.cancel before the first accepted one
          Invalid   \* the submissions that Validate or the decoder refuses

ASSUME ScanAssumption == NoScan \notin Scans /\ Invalid \subseteq Scans

VARIABLES
  closer,     \* "open", then "closing" (Close waits), then "closed"
  runCtx,     \* the context of Client.Run, parent of every scan
  busy,       \* m.busy: "no" or "yes"
  latest,     \* the scan that m.cancel cancels
  cancelled,  \* scans cancelled through m.cancel
  calls,      \* each submission: not made, in Submit, rejecting, returned
  spc,        \* goroutine of each accepted scan
  failed,     \* scans whose Defender run ended with an error
  events      \* the statuses sent for each submission

calling == <<calls, latest, busy>>
vars == <<closer, runCtx, busy, latest, cancelled, calls, spc, failed, events>>

Live == {"announce", "scan", "report", "release"}

Stopped(c) == runCtx = "done" \/ c \in cancelled

TypeOK ==
  /\ closer \in {"open", "closing", "closed"}
  /\ runCtx \in {"live", "done"}
  /\ busy \in {"no", "yes"}
  /\ latest \in Scans \cup {NoScan}
  /\ cancelled \subseteq Scans
  /\ calls \in [Scans -> {"none", "locked", "reject", "returned"}]
  /\ spc \in [Scans -> Live \cup {"none", "gone"}]
  /\ failed \subseteq Scans
  /\ events \in [Scans -> Seq({"rejected", "running", "completed", "failed", "cancelled"})]

Init ==
  /\ closer = "open" /\ runCtx = "live"
  /\ busy = "no" /\ latest = NoScan /\ cancelled = {}
  /\ calls = [c \in Scans |-> "none"]
  /\ spc = [c \in Scans |-> "none"]
  /\ failed = {}
  /\ events = [c \in Scans |-> <<>>]

emit(c, status) == events' = [events EXCEPT ![c] = Append(@, status)]
Goto(c, label) == spc' = [spc EXCEPT ![c] = label]

-----------------------------------------------------------------------------
(* The reader: one call at a time.                                         *)

\* handleVirusScan decodes the message and Submit validates it.
Submit(c) ==
  /\ calls[c] = "none"
  /\ \A d \in Scans : calls[d] \in {"none", "returned"}
  /\ calls' = [calls EXCEPT ![c] = IF c \in Invalid THEN "reject" ELSE "locked"]
  /\ UNCHANGED <<closer, runCtx, busy, latest, cancelled, spc, failed, events>>

\* Mutant: busy is not looked at.
SubmitWhileBusy(c) ==
  /\ calls[c] = "locked"
  /\ closer = "open"
  /\ busy' = "yes"
  /\ latest' = c
  /\ Goto(c, "announce")
  /\ calls' = [calls EXCEPT ![c] = "returned"]
  /\ UNCHANGED <<closer, runCtx, cancelled, failed, events>>

\* The critical section of Submit: ignored after Close, refused while busy.
SubmitLocked(c) ==
  /\ calls[c] = "locked"
  /\ \/ /\ closer # "open"
        /\ calls' = [calls EXCEPT ![c] = "returned"]
        /\ UNCHANGED <<busy, latest, spc>>
     \/ /\ closer = "open" /\ busy = "yes"
        /\ calls' = [calls EXCEPT ![c] = "reject"]
        /\ UNCHANGED <<busy, latest, spc>>
     \/ /\ closer = "open" /\ busy = "no"
        /\ busy' = "yes"
        /\ latest' = c
        /\ Goto(c, "announce")
        /\ calls' = [calls EXCEPT ![c] = "returned"]
  /\ UNCHANGED <<closer, runCtx, cancelled, failed, events>>

Reject(c) ==
  /\ calls[c] = "reject"
  /\ emit(c, "rejected")
  /\ calls' = [calls EXCEPT ![c] = "returned"]
  /\ UNCHANGED <<closer, runCtx, busy, latest, cancelled, spc, failed>>

-----------------------------------------------------------------------------
(* The goroutine of an accepted scan.                                      *)

Announce(c) ==
  /\ spc[c] = "announce"
  /\ emit(c, "running")
  /\ Goto(c, "scan")
  /\ UNCHANGED <<closer, runCtx, calling, cancelled, failed>>

\* MpCmdRun.exe ends by itself, with exit code 0 or not, or is killed.
ScanEnds(c) ==
  /\ spc[c] = "scan"
  /\ failed' \in {failed, failed \cup {c}}
  /\ Goto(c, "report")
  /\ UNCHANGED <<closer, runCtx, calling, cancelled, events>>

\* Mutant: A cancelled scan reports nothing.
ReportUnlessStopped(c) ==
  /\ spc[c] = "report"
  /\ IF Stopped(c) THEN UNCHANGED events
     ELSE emit(c, IF c \in failed THEN "failed" ELSE "completed")
  /\ Goto(c, "release")
  /\ UNCHANGED <<closer, runCtx, calling, cancelled, failed>>

Report(c) ==
  /\ spc[c] = "report"
  /\ emit(c, IF Stopped(c) THEN "cancelled" ELSE IF c \in failed THEN "failed" ELSE "completed")
  /\ Goto(c, "release")
  /\ UNCHANGED <<closer, runCtx, calling, cancelled, failed>>

\* The deferred calls: busy is cleared, the context released, the group left.
Release(c) ==
  /\ spc[c] = "release"
  /\ busy' = "no"
  /\ Goto(c, "gone")
  /\ UNCHANGED <<closer, runCtx, latest, cancelled, calls, failed, events>>

-----------------------------------------------------------------------------
CancelRun ==
  /\ runCtx = "live"
  /\ runCtx' = "done"
  /\ UNCHANGED <<closer, calling, cancelled, spc, failed, events>>

\* Mutant: The running scan is joined and not cancelled.
CloseUncancelled ==
  /\ closer = "open"
  /\ closer' = "closing"
  /\ UNCHANGED <<runCtx, calling, cancelled, spc, failed, events>>

Close ==
  /\ closer = "open"
  /\ closer' = "closing"
  /\ cancelled' = cancelled \cup ({latest} \ {NoScan})
  /\ UNCHANGED <<runCtx, calling, spc, failed, events>>

CloseReturns ==
  /\ closer = "closing"
  /\ \A c \in Scans : spc[c] \notin Live
  /\ closer' = "closed"
  /\ UNCHANGED <<runCtx, calling, cancelled, spc, failed, events>>

Reader(c) == Submit(c) \/ SubmitLocked(c) \/ Reject(c)
Goroutine(c) == Announce(c) \/ ScanEnds(c) \/ Report(c) \/ Release(c)

Next == (\E c \in Scans : Reader(c) \/ Goroutine(c)) \/ CancelRun \/ Close \/ CloseReturns

Spec == Init /\ [][Next]_vars

\* Nothing bounds a Defender scan ("no timeout", docs/virus-scan.md); only a
\* cancelled one is killed, within WaitDelay.
FairSpec ==
  /\ Spec
  /\ \A c \in Scans :
       /\ WF_vars(SubmitLocked(c) \/ Reject(c))
       /\ WF_vars(Announce(c) \/ Report(c) \/ Release(c))
       /\ WF_vars(ScanEnds(c) /\ Stopped(c))
  /\ WF_vars(CloseReturns)

-----------------------------------------------------------------------------
(* Properties.                                                             *)

\* At most one scan is in progress; busy says so exactly, and m.cancel belongs
\* to it: what Close cancels is the scan that runs (scan.go:103).  Once Close has
\* returned there is none.
OneScan ==
  /\ TypeOK
  /\ busy = "yes" <=> \E c \in Scans : spc[c] \in Live
  /\ \A c \in Scans : spc[c] \in Live =>
       latest = c /\ closer # "closed" /\ \A d \in Scans \ {c} : spc[d] \notin Live

\* Every submission the reader has finished with is answered by its own events
\* only: one rejection, or "running" and later exactly one final status; it is
\* silent only when the manager was closed.
AnsweredOnce ==
  \A c \in Scans :
    /\ spc[c] \in {"release", "gone"} =>
         /\ Len(events[c]) = 2 /\ events[c][1] = "running"
         /\ events[c][2] = "cancelled" => Stopped(c)
         /\ events[c][2] = "completed" => c \notin failed
    /\ calls[c] = "returned" /\ spc[c] = "none" =>
         events[c] = <<"rejected">> \/ (events[c] = <<>> /\ closer # "open")

\* The scan in progress, in the terms of a job board with one slot and no room
\* to wait.
PhaseOf(pc) ==
  CASE pc = "announce" -> "taken" [] pc = "scan" -> "running"
    [] pc = "report" -> "effected" [] pc = "release" -> "settled"

Board == INSTANCE JobBoard WITH
  Tasks <- Scans, Slots <- {"scanner"}, NoTask <- NoScan, Room <- 1,
  board <- closer, queue <- <<>>,
  slot  <- [s \in {"scanner"} |-> IF busy = "yes" THEN latest ELSE NoScan],
  phase <- [s \in {"scanner"} |-> IF busy = "yes" THEN PhaseOf(spc[latest]) ELSE "free"],
  done  <- {c \in Scans : spc[c] \in {"report", "release", "gone"}},
  kept  <- {}

\* The manager keeps the promise of a job board that the download manager keeps
\* too: one scan at a time, carried out once and reported afterwards, none after
\* Close, and Close returns although a scan may take for ever (scan.go:125).
ImplementsBoard == Board!Promise
=============================================================================
