---------------------------- MODULE InstalledApps ----------------------------
(***************************************************************************)
(* client/installed_apps.go: the inventory worker of one connection.       *)
(*                                                                         *)
(* The WebSocket reader submits commands, one goroutine collects, one      *)
(* writes the results; they share two bounded channels and the map of      *)
(* pending request IDs, which is guarded by a mutex.                       *)
(***************************************************************************)
EXTENDS Naturals, Sequences, FiniteSets

CONSTANTS Ids,         \* request IDs
          NoId,        \* a goroutine that holds no command
          QueueSize,   \* capacity of jobs (4 in the source)
          ResultSize,  \* capacity of results (8 in the source)
          MaxSubmits   \* bound: commands the server sends on the connection

ASSUME AppsAssumption ==
  /\ NoId \notin Ids
  /\ QueueSize \in Nat \ {0} /\ ResultSize \in Nat \ {0} /\ MaxSubmits \in Nat

VARIABLES
  runCtx,   \* the connection's context: live or done
  submits,  \* commands received so far
  pending,  \* the map of pending request IDs
  jobs,     \* channel of accepted commands
  results,  \* channel of results: <<id, kind>>
  cpc, cid, ckind,  \* the collector, its command and the result it made
  wpc, wid, wkind,  \* the writer and the result it writes
  spoiled   \* history: IDs whose mark was removed by a "busy" answer

collector == <<cpc, cid, ckind>>
writer == <<wpc, wid, wkind>>
appsVars == <<runCtx, submits, pending, jobs, results, collector, writer, spoiled>>

\* A result reports an inventory, a failure, or that the queue was full.
Kinds == {"apps", "failed", "busy"}

AppsTypeOK ==
  /\ runCtx \in {"live", "done"}
  /\ submits \in 0..MaxSubmits
  /\ pending \in SUBSET Ids
  /\ jobs \in Seq(Ids) /\ Len(jobs) <= QueueSize
  /\ results \in Seq(Ids \X Kinds) /\ Len(results) <= ResultSize
  /\ cpc \in {"idle", "collect", "publish", "exit"}
  /\ cid \in Ids \cup {NoId} /\ ckind \in Kinds
  /\ wpc \in {"idle", "send", "unmark", "exit"}
  /\ wid \in Ids \cup {NoId} /\ wkind \in Kinds
  /\ spoiled \in SUBSET Ids

AppsInit ==
  /\ runCtx = "live" /\ submits = 0 /\ pending = {}
  /\ jobs = <<>> /\ results = <<>>
  /\ cpc = "idle" /\ cid = NoId /\ ckind = "failed"
  /\ wpc = "idle" /\ wid = NoId /\ wkind = "failed"
  /\ spoiled = {}

-----------------------------------------------------------------------------
\* submit, called by the reader, under the mutex: duplicates are ignored; a
\* full queue is answered "busy", unless the result channel is full as well.
\* The reader may be handling a message while the context is cancelled.
submit(i) ==
  /\ submits < MaxSubmits
  /\ submits' = submits + 1
  /\ \/ /\ i \in pending
        /\ UNCHANGED <<pending, jobs, results>>
     \/ /\ i \notin pending /\ Len(jobs) < QueueSize
        /\ jobs' = Append(jobs, i)
        /\ pending' = pending \cup {i}
        /\ UNCHANGED results
     \/ /\ i \notin pending /\ Len(jobs) = QueueSize
        /\ results' = IF Len(results) < ResultSize
                      THEN Append(results, <<i, "busy">>) ELSE results
        /\ UNCHANGED <<pending, jobs>>
  /\ UNCHANGED <<runCtx, collector, writer, spoiled>>

\* The connection ends.
Cancel ==
  /\ runCtx = "live"
  /\ runCtx' = "done"
  /\ UNCHANGED <<submits, pending, jobs, results, collector, writer, spoiled>>

\* The collector takes a command; with the context done it may still be picked.
CollectTake ==
  /\ cpc = "idle" /\ jobs # <<>>
  /\ jobs' = Tail(jobs)
  /\ IF runCtx = "done"
     THEN cpc' = "exit" /\ UNCHANGED cid
     ELSE cpc' = "collect" /\ cid' = Head(jobs)
  /\ UNCHANGED <<runCtx, submits, pending, results, ckind, writer, spoiled>>

\* The inventory, or a failure: deadline passed, provider error, too large.
Collect ==
  /\ cpc = "collect"
  /\ cpc' = "publish"
  /\ \/ ckind' = "failed"
     \/ runCtx = "live" /\ ckind' = "apps"
  /\ UNCHANGED <<runCtx, submits, pending, jobs, results, cid, writer, spoiled>>

\* The collector blocks while the result channel is full.
CollectPublish ==
  /\ cpc = "publish" /\ Len(results) < ResultSize
  /\ results' = Append(results, <<cid, ckind>>)
  /\ cpc' = "idle" /\ cid' = NoId
  /\ UNCHANGED <<runCtx, submits, pending, jobs, ckind, writer, spoiled>>

CollectStop ==
  /\ cpc \in {"idle", "publish"} /\ runCtx = "done"
  /\ cpc' = "exit"
  /\ UNCHANGED <<runCtx, submits, pending, jobs, results, cid, ckind, writer, spoiled>>

collect == CollectTake \/ Collect \/ CollectPublish \/ CollectStop

\* Mutant: The mark is removed before the result is written.
WriteTakeUnmarks ==
  /\ wpc = "idle" /\ results # <<>>
  /\ results' = Tail(results)
  /\ wid' = Head(results)[1] /\ wkind' = Head(results)[2]
  /\ pending' = pending \ {wid'}
  /\ wpc' = "send"
  /\ UNCHANGED <<runCtx, submits, jobs, collector, spoiled>>

WriteTake ==
  /\ wpc = "idle" /\ results # <<>>
  /\ results' = Tail(results)
  /\ wid' = Head(results)[1] /\ wkind' = Head(results)[2]
  /\ wpc' = "send"
  /\ UNCHANGED <<runCtx, submits, pending, jobs, collector, spoiled>>

\* The write is bounded by a timeout and its error is ignored.
WriteSend ==
  /\ wpc = "send"
  /\ wpc' = "unmark"
  /\ UNCHANGED <<runCtx, submits, pending, jobs, results, collector, wid, wkind, spoiled>>

\* Mutant: The mark is never removed.
WriteUnmarkForgets ==
  /\ wpc = "unmark"
  /\ wpc' = "idle" /\ wid' = NoId
  /\ UNCHANGED <<runCtx, submits, pending, jobs, results, collector, wkind, spoiled>>

\* The mark of the request goes, whatever kind of result was written.
WriteUnmark ==
  /\ wpc = "unmark"
  /\ pending' = pending \ {wid}
  /\ spoiled' = IF wkind = "busy" /\ wid \in pending THEN spoiled \cup {wid} ELSE spoiled
  /\ wpc' = "idle" /\ wid' = NoId
  /\ UNCHANGED <<runCtx, submits, jobs, results, collector, wkind>>

WriteStop ==
  /\ wpc = "idle" /\ runCtx = "done"
  /\ wpc' = "exit"
  /\ UNCHANGED <<runCtx, submits, pending, jobs, results, collector, wid, wkind, spoiled>>

write == WriteTake \/ WriteSend \/ WriteUnmark \/ WriteStop

AppsNext == (\E i \in Ids : submit(i)) \/ Cancel \/ collect \/ write

AppsSpec == AppsInit /\ [][AppsNext]_appsVars

\* Collection has a deadline and every write a timeout, so both loops go on.
AppsFairSpec == AppsSpec /\ WF_appsVars(collect) /\ WF_appsVars(write)

-----------------------------------------------------------------------------
(* Properties.                                                             *)

\* Accepted commands for i between submit and the removal of the mark.
Copies(i) ==
    Cardinality({n \in 1..Len(jobs) : jobs[n] = i})
  + Cardinality({n \in 1..Len(results) : results[n][1] = i /\ results[n][2] # "busy"})
  + (IF cpc \in {"collect", "publish"} /\ cid = i THEN 1 ELSE 0)
  + (IF wpc \in {"send", "unmark"} /\ wid = i /\ wkind # "busy" THEN 1 ELSE 0)

\* While the connection lives, the map holds exactly the requests in flight,
\* and none is in flight twice, except for a request that was answered "busy"
\* and accepted on a retry before that answer had been written: write() then
\* removes the mark of the accepted one (installed_apps.go:123).  A mark never
\* outlives its request, so "queues and duplicate tracking are bounded".
DuplicatesTracked ==
  /\ AppsTypeOK
  /\ runCtx = "live" =>
       /\ \A i \in Ids \ spoiled : Copies(i) = (IF i \in pending THEN 1 ELSE 0)
       /\ \A i \in pending : Copies(i) > 0
  /\ Cardinality(pending) <= QueueSize + ResultSize + 2

\* An accepted request is answered unless its connection ends; then the
\* workers.Wait of runConnection returns: both goroutines end with the connection,
\* whatever the channels hold and however full they are.
RequestsAnswered ==
  /\ \A i \in Ids : i \in pending ~> (i \notin pending \/ runCtx = "done")
  /\ runCtx = "done" ~> (cpc = "exit" /\ wpc = "exit")
=============================================================================
