-------------------------- MODULE ScanManagerProofs --------------------------
(* Proofs about the scan manager: one scan at a time, answered once, as a  *)
(* job board would.                                                        *)
EXTENDS ScanManager, SequenceTheorems, TLAPS

Statuses == {"rejected", "running", "completed", "failed", "cancelled"}

\* The goroutine of a scan exists only for a call that returned.
Called == \A c \in Scans : spc[c] # "none" => calls[c] = "returned"

\* How far the answer to a submission has come.
Answered ==
  \A c \in Scans :
    /\ calls[c] \in {"none", "locked", "reject"} => events[c] = <<>>
    /\ spc[c] = "announce" => events[c] = <<>>
    /\ spc[c] \in {"scan", "report"} => Len(events[c]) = 1 /\ events[c][1] = "running"

Inv == OneScan /\ AnsweredOnce /\ Called /\ Answered

\* What one more status makes of an answer.
LEMMA Emitted ==
  ASSUME TypeOK, NEW c \in Scans, NEW status \in Statuses, emit(c, status)
  PROVE  /\ events' \in [Scans -> Seq(Statuses)]
         /\ \A d \in Scans \ {c} : events'[d] = events[d]
         /\ events[c] = <<>> => Len(events'[c]) = 1 /\ events'[c][1] = status
         /\ Len(events[c]) = 1 =>
              Len(events'[c]) = 2 /\ events'[c][1] = events[c][1] /\ events'[c][2] = status
<1>1. events[c] \in Seq(Statuses) /\ events \in [Scans -> Seq(Statuses)]
  BY DEF TypeOK, Statuses
<1>2. events'[c] = Append(events[c], status) /\ \A d \in Scans \ {c} : events'[d] = events[d]
  BY <1>1 DEF emit
<1>3. /\ Append(events[c], status) \in Seq(Statuses)
      /\ Len(Append(events[c], status)) = Len(events[c]) + 1
      /\ \A i \in 1..Len(events[c]) : Append(events[c], status)[i] = events[c][i]
      /\ Append(events[c], status)[Len(events[c]) + 1] = status
  BY <1>1, AppendProperties
<1>4. events[c] = <<>> => Len(events[c]) = 0
  OBVIOUS
<1> QED BY <1>1, <1>2, <1>3, <1>4 DEF emit

\* Nothing is asked for, nothing answered.
LEMMA InitInv == Init => Inv
<1> SUFFICES ASSUME Init PROVE Inv
  OBVIOUS
<1>1. TypeOK
  <2>1. events \in [Scans -> Seq(Statuses)]
    BY DEF Init
  <2> QED BY <2>1, ScanAssumption DEF Init, TypeOK, Statuses
<1> QED BY <1>1 DEF Init, Inv, OneScan, AnsweredOnce, Called, Answered, Live

\* A step that leaves the answers alone keeps their type.
LEMMA Silent ==
  ASSUME Inv, UNCHANGED events PROVE events' \in [Scans -> Seq(Statuses)]
BY DEF Inv, OneScan, TypeOK, Statuses

\* A submission that is refused or ignored, and one that is accepted.
LEMMA SubmitKeeps ==
  ASSUME Inv, NEW c \in Scans, Submit(c) \/ SubmitLocked(c) PROVE Inv'
<1> USE DEF Inv, OneScan, AnsweredOnce, Called, Answered, Live, Stopped
<1>1. CASE Submit(c)
  <2>1. TypeOK'
    BY <1>1, Silent DEF Submit, TypeOK, Statuses
  <2> QED BY <1>1, <2>1 DEF Submit, TypeOK
<1>2. CASE SubmitLocked(c) /\ spc' = spc
  <2>1. TypeOK'
    BY <1>2, Silent DEF SubmitLocked, TypeOK, Statuses
  <2>2. /\ calls[c] = "locked" /\ UNCHANGED <<closer, runCtx, busy, latest, cancelled, spc, failed, events>>
        /\ calls'[c] \in {"returned", "reject"} /\ calls'[c] = "returned" => closer # "open"
        /\ \A d \in Scans \ {c} : calls'[d] = calls[d]
    <3>1. Goto(c, "announce") /\ calls[c] = "locked" => spc' # spc
      BY DEF Goto, TypeOK
    <3> QED BY <1>2, <3>1 DEF SubmitLocked, TypeOK
  <2>3. OneScan'
    BY <2>1, <2>2
  <2>4. AnsweredOnce'
    BY <2>2
  <2> QED BY <2>2, <2>3, <2>4
<1>3. CASE SubmitLocked(c) /\ Goto(c, "announce")
  <2>1. /\ closer = "open" /\ busy = "no" /\ calls[c] = "locked"
        /\ busy' = "yes" /\ latest' = c
        /\ spc' = [spc EXCEPT ![c] = "announce"] /\ calls' = [calls EXCEPT ![c] = "returned"]
        /\ UNCHANGED <<closer, runCtx, cancelled, failed, events>>
    <3>1. spc[c] = "none" /\ spc' # spc
      BY <1>3 DEF SubmitLocked, TypeOK, Goto
    <3> QED BY <1>3, <3>1 DEF SubmitLocked, Goto
  <2>2. TypeOK'
    BY <2>1, Silent DEF TypeOK, Statuses
  <2>3. \A d \in Scans : spc[d] \notin Live
    BY <2>1
  <2>4. \A d \in Scans \ {c} : spc'[d] = spc[d] /\ calls'[d] = calls[d]
    BY <2>1 DEF TypeOK
  <2>5. spc'[c] = "announce" /\ calls'[c] = "returned"
    BY <2>1 DEF TypeOK
  <2>6. OneScan'
    BY <2>1, <2>2, <2>3, <2>4, <2>5
  <2>7. AnsweredOnce'
    BY <2>1, <2>4, <2>5
  <2> QED BY <2>1, <2>4, <2>5, <2>6, <2>7
<1> QED BY <1>1, <1>2, <1>3 DEF SubmitLocked

\* A rejection is the whole answer.
LEMMA RejectKeeps ==
  ASSUME Inv, NEW c \in Scans, Reject(c) PROVE Inv'
<1> USE DEF Inv, OneScan, AnsweredOnce, Called, Answered, Live, Stopped
<1>1. /\ calls[c] = "reject" /\ spc[c] = "none" /\ events[c] = <<>>
      /\ calls' = [calls EXCEPT ![c] = "returned"]
      /\ UNCHANGED <<closer, runCtx, busy, latest, cancelled, spc, failed>>
  BY DEF Reject, TypeOK
<1>2. /\ events' \in [Scans -> Seq(Statuses)]
      /\ \A d \in Scans \ {c} : events'[d] = events[d] /\ calls'[d] = calls[d]
      /\ calls'[c] = "returned"
  BY Emitted, <1>1 DEF Reject, Statuses, TypeOK
<1>3. events'[c] = <<"rejected">>
  <2>1. Len(events'[c]) = 1 /\ events'[c][1] = "rejected"
    <3>1. "rejected" \in Statuses /\ emit(c, "rejected")
      BY DEF Reject, Statuses
    <3> QED BY <1>1, <3>1, Emitted
  <2> QED BY <1>2, <2>1
<1>4. TypeOK'
  BY <1>1, <1>2 DEF TypeOK, Statuses
<1>5. OneScan'
  BY <1>1, <1>4
<1>6. AnsweredOnce'
  BY <1>1, <1>2, <1>3
<1> QED BY <1>1, <1>2, <1>5, <1>6

\* The goroutine of the scan: one more status in its turn.
LEMMA GoroutineKeeps ==
  ASSUME Inv, NEW c \in Scans, Goroutine(c) PROVE Inv'
<1> USE DEF Inv, OneScan, AnsweredOnce, Called, Answered, Live, Stopped, calling
<1>1. CASE Announce(c)
  <2>1. /\ spc[c] = "announce" /\ spc' = [spc EXCEPT ![c] = "scan"]
        /\ UNCHANGED <<closer, runCtx, calls, latest, busy, cancelled, failed>>
    BY <1>1 DEF Announce, Goto
  <2>2. /\ events' \in [Scans -> Seq(Statuses)] /\ \A d \in Scans \ {c} : events'[d] = events[d]
        /\ Len(events'[c]) = 1 /\ events'[c][1] = "running"
    <3>1. "running" \in Statuses /\ emit(c, "running") /\ events[c] = <<>>
      BY <1>1, <2>1 DEF Announce, Statuses
    <3> QED BY <3>1, Emitted
  <2>3. \A d \in Scans \ {c} : spc'[d] = spc[d]
    BY <2>1 DEF TypeOK
  <2>4. spc'[c] = "scan"
    BY <2>1 DEF TypeOK
  <2>5. TypeOK'
    BY <2>1, <2>2 DEF TypeOK, Statuses
  <2>6. OneScan'
    BY <2>1, <2>3, <2>4, <2>5
  <2>7. AnsweredOnce'
    BY <2>1, <2>2, <2>3, <2>4
  <2> QED BY <2>1, <2>2, <2>3, <2>4, <2>6, <2>7
<1>2. CASE ScanEnds(c)
  <2>1. TypeOK'
    BY <1>2, Silent DEF ScanEnds, Goto, TypeOK, Statuses
  <2> QED BY <1>2, <2>1 DEF ScanEnds, Goto, TypeOK
<1>3. CASE Report(c)
  <2>1. /\ spc[c] = "report" /\ spc' = [spc EXCEPT ![c] = "release"]
        /\ UNCHANGED <<closer, runCtx, calls, latest, busy, cancelled, failed>>
    BY <1>3 DEF Report, Goto
  <2>2. PICK status \in {"cancelled", "failed", "completed"} :
          /\ emit(c, status)
          /\ status = "cancelled" => Stopped(c)
          /\ status = "completed" => c \notin failed
    BY <1>3 DEF Report
  <2>3. /\ events' \in [Scans -> Seq(Statuses)] /\ \A d \in Scans \ {c} : events'[d] = events[d]
        /\ Len(events'[c]) = 2 /\ events'[c][1] = "running" /\ events'[c][2] = status
    <3>1. status \in Statuses
      BY DEF Statuses
    <3>2. Len(events[c]) = 1 /\ events[c][1] = "running"
      BY <2>1
    <3> QED BY <2>2, <3>1, <3>2, Emitted
  <2>4. \A d \in Scans \ {c} : spc'[d] = spc[d]
    BY <2>1 DEF TypeOK
  <2>5. spc'[c] = "release"
    BY <2>1 DEF TypeOK
  <2>6. TypeOK'
    BY <2>1, <2>3 DEF TypeOK, Statuses
  <2>7. OneScan'
    BY <2>1, <2>4, <2>5, <2>6
  <2>8. AnsweredOnce'
    BY <2>1, <2>2, <2>3, <2>4, <2>5
  <2> QED BY <2>1, <2>3, <2>4, <2>5, <2>7, <2>8
<1>4. CASE Release(c)
  <2>1. TypeOK'
    BY <1>4, Silent DEF Release, Goto, TypeOK, Statuses
  <2> QED BY <1>4, <2>1 DEF Release, Goto, TypeOK
<1> QED BY <1>1, <1>2, <1>3, <1>4 DEF Goroutine

\* The end of the runtime, and Close.
LEMMA CloseKeeps ==
  ASSUME Inv, CancelRun \/ Close \/ CloseReturns \/ UNCHANGED vars PROVE Inv'
<1> USE DEF Inv, OneScan, AnsweredOnce, Called, Answered, Live, Stopped, calling
<1>1. TypeOK'
  BY Silent DEF CancelRun, Close, CloseReturns, vars, TypeOK, Statuses
<1> QED BY <1>1 DEF CancelRun, Close, CloseReturns, vars, TypeOK

\* The invariant is inductive.
LEMMA NextKeeps == ASSUME Inv, [Next]_vars PROVE Inv'
BY SubmitKeeps, RejectKeeps, GoroutineKeeps, CloseKeeps DEF Next, Reader

\* At most one scan runs, and what Close cancels is that one (scan.go:103).
THEOREM OneAtATime == Spec => []OneScan
<1>1. Inv => OneScan
  BY DEF Inv
<1> QED BY <1>1, InitInv, NextKeeps, PTL DEF Spec

\* Every submission is answered by one rejection, or by "running" and one final
\* status (scan.go:84).
THEOREM EveryoneIsAnswered == Spec => []AnsweredOnce
<1>1. Inv => AnsweredOnce
  BY DEF Inv
<1> QED BY <1>1, InitInv, NextKeeps, PTL DEF Spec

-----------------------------------------------------------------------------
(* The manager as a job board.                                             *)

\* No scan, and a board with nothing on it.
LEMMA InitBoard == Init => Board!Init
BY ScanAssumption DEF Init, Board!Init

\* What the board has of the scan in progress.
LEMMA OnBoardIsLatest ==
  ASSUME NEW c \in Scans PROVE Board!OnBoard(c) <=> busy = "yes" /\ latest = c
BY ScanAssumption DEF Board!OnBoard, Board!Queued

\* Every step is one of the board, or the board does not see it.
LEMMA StepBoard ==
  ASSUME Inv, [Next]_vars PROVE [Board!Next]_(Board!vars)
<1> USE DEF Board!vars
<1> DEFINE s == "scanner"
<1>1. /\ TypeOK /\ s \in {"scanner"} /\ latest' \in Scans \cup {NoScan}
      /\ \A c \in Scans : spc[c] \in Live => busy = "yes" /\ latest = c
  BY NextKeeps DEF Inv, OneScan, TypeOK
<1>2. ASSUME NEW c \in Scans, Submit(c) \/ Reject(c) PROVE UNCHANGED Board!vars
  BY <1>2 DEF Submit, Reject
<1>3. ASSUME NEW c \in Scans, SubmitLocked(c) PROVE [Board!Next]_(Board!vars)
  <2>1. CASE UNCHANGED <<closer, busy, latest, spc>>
    BY <2>1
  <2>2. CASE /\ closer = "open" /\ busy = "no" /\ calls[c] = "locked"
             /\ busy' = "yes" /\ latest' = c /\ Goto(c, "announce") /\ closer' = closer
    <3>1. spc[c] = "none" /\ spc'[c] = "announce" /\ \A d \in Scans \ {c} : spc'[d] = spc[d]
      BY <2>2 DEF Goto, TypeOK, Inv, OneScan, Called
    <3>2. Board!AcceptAt(c, s)
      BY <1>1, <2>2, <3>1, OnBoardIsLatest DEF Board!AcceptAt, PhaseOf
    <3> QED BY <3>2 DEF Board!Next
  <2> QED BY <1>3, <2>1, <2>2 DEF SubmitLocked
<1>4. ASSUME NEW c \in Scans, Goroutine(c) PROVE [Board!Next]_(Board!vars)
  <2>1. CASE Announce(c)
    <3>1. Board!Run(s)
      BY <1>1, <2>1 DEF Announce, Goto, calling, Live, Board!Run, Board!Move, PhaseOf, TypeOK
    <3> QED BY <3>1 DEF Board!Next
  <2>2. CASE ScanEnds(c)
    <3>1. Board!Effect(s)
      BY <1>1, <2>2 DEF ScanEnds, Goto, calling, Live, Board!Effect, Board!Move, PhaseOf, TypeOK
    <3> QED BY <3>1 DEF Board!Next
  <2>3. CASE Report(c)
    <3>1. Board!Settle(s)
      BY <1>1, <2>3 DEF Report, Goto, calling, Live, Board!Settle, Board!Move, PhaseOf, TypeOK
    <3> QED BY <3>1 DEF Board!Next
  <2>4. CASE Release(c)
    <3>1. Board!Leave(s)
      BY <1>1, <2>4 DEF Release, Goto, Live, Board!Leave, PhaseOf, TypeOK
    <3> QED BY <3>1 DEF Board!Next
  <2> QED BY <1>4, <2>1, <2>2, <2>3, <2>4 DEF Goroutine
<1>5. CASE CancelRun \/ UNCHANGED vars
  BY <1>5 DEF CancelRun, vars, calling
<1>6. CASE Close
  <2>1. Board!Close
    BY <1>6 DEF Close, calling, Board!Close
  <2> QED BY <2>1 DEF Board!Next
<1>7. CASE CloseReturns
  <2>1. busy = "no"
    BY <1>7 DEF Inv, OneScan, TypeOK, CloseReturns
  <2>2. Board!CloseReturns
    BY <1>7, <2>1 DEF CloseReturns, calling, Board!CloseReturns
  <2> QED BY <2>2 DEF Board!Next
<1> QED BY <1>2, <1>3, <1>4, <1>5, <1>6, <1>7 DEF Next, Reader

\* The scan manager is a job board with one slot: what the download manager
\* promises holds of it too (scan.go:72).
THEOREM ManagerIsBoard == Spec => Board!Spec
<1>1. Init => Board!Init
  BY InitBoard
<1> QED BY <1>1, InitInv, NextKeeps, StepBoard, PTL DEF Spec, Board!Spec
=============================================================================
