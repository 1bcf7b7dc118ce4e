--------------------------- MODULE DownloadManager ---------------------------
(***************************************************************************)
(* download/manager.go: the bounded pool that downloads, verifies and      *)
(* publishes files on behalf of the server.                                *)
(*                                                                         *)
(* The WebSocket reader calls Submit and Reject, one call at a time; the   *)
(* workers take commands from the channel `jobs'; Close may come at any    *)
(* moment.  `active' and the completed cache are guarded by m.mu, so each  *)
(* critical section is one step; m.send is called with the mutex released  *)
(* and is a step of its own wherever another actor could notice.           *)
(***************************************************************************)
EXTENDS Naturals, Sequences, FiniteSets

CONSTANTS Jobs,         \* job IDs
          Urls,         \* temporary download URLs (tokens)
          Dests,        \* destination files
          Commands,     \* DOWNLOAD_FILE commands the server may send
          NoCommand,    \* placeholder of a worker or reader without a command
          Malformed,    \* the commands whose fields validate() refuses
          Workers,      \* the MaxConcurrent worker goroutines
          QueueSize,    \* capacity of the channel jobs
          CacheSize,    \* completed results kept (128 in the source)
          MaxAttempts   \* HTTP attempts of one download (3 in the source)

ASSUME ConstantsAssumption ==
  /\ Commands \subseteq [job : Jobs, url : Urls, dest : Dests]
  /\ NoCommand \notin Commands
  /\ Malformed \subseteq Commands
  /\ QueueSize \in Nat \ {0}
  /\ CacheSize \in Nat \ {0}
  /\ MaxAttempts \in Nat \ {0}

\* There is a worker, and an idle one holds no attempt.
ASSUME PoolAssumption == Workers # {} /\ NoCommand \notin Jobs \X Urls

VARIABLES
  manager,         \* "open", then "closing" (Close waits), then "closed"
  runCtx,          \* the context of Client.Run, inherited by every job
  expired,         \* commands whose expires_at has passed
  jobs,            \* the channel of accepted commands
  active,          \* attempt key -> status; "none" is an absent key
  completed,       \* the keys of the completed map
  completedOrder,  \* its insertion order, oldest first
  rpc, rcmd,       \* the reader: what is left of its current call
  wpc, wcmd,       \* each worker: control point and command
  wtry,            \* HTTP attempt in progress
  wpart,           \* the worker's .part file: none, empty, good, bad, moved
  wout,            \* the result sent for the command: none, FAILED, COMPLETED
  disk,            \* destination file: old (before the agent), good or bad
  landed           \* history: attempts whose file was published

readerVars == <<rpc, rcmd>>
cacheVars  == <<completed, completedOrder>>
diskVars   == <<disk, landed>>
workVars   == <<wpc, wcmd, wtry, wpart, wout>>
envVars    == <<manager, runCtx, expired>>
vars == <<envVars, jobs, active, cacheVars, readerVars, workVars, diskVars>>

Keys == Jobs \X Urls

\* The URL stands for its SHA-256: same job and same URL, same attempt.
commandAttemptKey(c) == <<c.job, c.url>>

Statuses == {"QUEUED", "DOWNLOADING", "VERIFYING"}

\* Control points of a worker that is inside run(), and of one that holds a job.
Running == {"prepare", "request", "backoff", "copy", "verify", "recheck",
            "publish", "remember", "report"}
Holding == Running \cup {"take", "finish"}

TypeOK ==
  /\ manager \in {"open", "closing", "closed"}
  /\ runCtx \in {"live", "done"}
  /\ expired \in SUBSET Commands
  /\ jobs \in Seq(Commands) /\ Len(jobs) \in 0..QueueSize
  /\ active \in [Keys -> Statuses \cup {"none"}]
  /\ completed \in SUBSET Keys
  /\ completedOrder \in Seq(Keys)
  /\ rpc \in {"idle", "fail", "resend", "status", "full"}
  /\ rcmd \in Commands \cup {NoCommand}
  /\ wpc \in [Workers -> Holding \cup {"idle", "exit"}]
  /\ wcmd \in [Workers -> Commands \cup {NoCommand}]
  /\ wtry \in [Workers -> 1..MaxAttempts]
  /\ wpart \in [Workers -> {"none", "empty", "good", "bad", "moved"}]
  /\ wout \in [Workers -> {"none", "FAILED", "COMPLETED"}]
  /\ disk \in [Dests -> {"old", "good", "bad"}]
  /\ landed \in SUBSET Keys

Init ==
  /\ manager = "open"
  /\ runCtx = "live"
  /\ expired = {}
  /\ jobs = <<>>
  /\ active = [k \in Keys |-> "none"]
  /\ completed = {}
  /\ completedOrder = <<>>
  /\ rpc = "idle"
  /\ rcmd = NoCommand
  /\ wpc = [w \in Workers |-> "idle"]
  /\ wcmd = [w \in Workers |-> NoCommand]
  /\ wtry = [w \in Workers |-> 1]
  /\ wpart = [w \in Workers |-> "none"]
  /\ wout = [w \in Workers |-> "none"]
  /\ disk = [d \in Dests |-> "old"]
  /\ landed = {}

-----------------------------------------------------------------------------
(* The clock and the life of the process.                                  *)

\* The expiry time of a temporary URL passes.
Expire(c) ==
  /\ c \notin expired
  /\ expired' = expired \cup {c}
  /\ UNCHANGED <<manager, runCtx, jobs, active, cacheVars, readerVars, workVars, diskVars>>

\* The context handed to Submit by the reader is cancelled.
CancelRun ==
  /\ runCtx = "live"
  /\ runCtx' = "done"
  /\ UNCHANGED <<manager, expired, jobs, active, cacheVars, readerVars, workVars, diskVars>>

\* Close, up to wg.Wait: closed is set, m.ctx cancelled, the channel closed.
Close ==
  /\ manager = "open"
  /\ manager' = "closing"
  /\ UNCHANGED <<runCtx, expired, jobs, active, cacheVars, readerVars, workVars, diskVars>>

\* wg.Wait returns once every worker has left its loop.
CloseReturns ==
  /\ manager = "closing"
  /\ \A w \in Workers : wpc[w] = "exit"
  /\ manager' = "closed"
  /\ UNCHANGED <<runCtx, expired, jobs, active, cacheVars, readerVars, workVars, diskVars>>

-----------------------------------------------------------------------------
(* The reader.                                                             *)

\* validate(): field checks, then expires_at against the clock.
validate(c) == c \notin Malformed /\ c \notin expired

\* A command the WebSocket layer could not decode.
Reject ==
  /\ rpc = "idle"
  /\ rpc' = "fail"
  /\ rcmd' = NoCommand
  /\ UNCHANGED <<envVars, jobs, active, cacheVars, workVars, diskVars>>

\* Mutant: A repeated command is not looked up in the cache.
CachedNever(key) == FALSE

\* m.completed[key]: the command has been carried out before.
cached(key) == key \in completed

\* Submit up to the release of m.mu.  What remains is a message to send, or,
\* when the channel is full, to take back the entry in active.
Submit(c) ==
  /\ rpc = "idle"
  /\ LET key == commandAttemptKey(c) IN
     \/ /\ ~validate(c)
        /\ rpc' = "fail"
        /\ UNCHANGED <<jobs, active>>
     \/ /\ validate(c)
        /\ manager # "open"
        /\ UNCHANGED <<rpc, jobs, active>>
     \/ /\ validate(c)
        /\ manager = "open"
        /\ \/ /\ cached(key)
              /\ rpc' = "resend"
              /\ UNCHANGED <<jobs, active>>
           \/ /\ ~cached(key)
              /\ active[key] # "none"
              /\ rpc' = "status"
              /\ UNCHANGED <<jobs, active>>
           \/ /\ ~cached(key)
              /\ active[key] = "none"
              /\ active' = [active EXCEPT ![key] = "QUEUED"]
              /\ IF Len(jobs) < QueueSize
                 THEN jobs' = Append(jobs, c) /\ rpc' = rpc
                 ELSE rpc' = "full" /\ jobs' = jobs
  /\ rcmd' = IF rpc' = "idle" THEN NoCommand ELSE c
  /\ UNCHANGED <<envVars, cacheVars, workVars, diskVars>>

\* finish(): delete(active, key).
finish(key) == active' = [active EXCEPT ![key] = "none"]

\* Mutant: The full-queue branch forgets to take its entry back.
SubmitUndoLeaks ==
  /\ rpc = "full"
  /\ rpc' = "fail"
  /\ UNCHANGED <<envVars, jobs, active, cacheVars, rcmd, workVars, diskVars>>

\* The full-queue branch: finish, then the failure is reported.
SubmitUndo ==
  /\ rpc = "full"
  /\ finish(commandAttemptKey(rcmd))
  /\ rpc' = "fail"
  /\ UNCHANGED <<envVars, jobs, cacheVars, rcmd, workVars, diskVars>>

\* m.send of a failure, of a cached result or of the status read under m.mu.
Reply ==
  /\ rpc \in {"fail", "resend", "status"}
  /\ rpc' = "idle"
  /\ rcmd' = NoCommand
  /\ UNCHANGED <<envVars, jobs, active, cacheVars, workVars, diskVars>>

-----------------------------------------------------------------------------
(* A worker.                                                               *)

Goto(w, label) == wpc' = [wpc EXCEPT ![w] = label]

\* Mutant: Only the job's own context is looked at, not the manager's.
CancelledByRun == runCtx = "done"

\* ctx.Err() # nil is possible inside run(): Run's context or the manager's.
Cancelled == runCtx = "done" \/ manager # "open"

\* ctx.Err() = nil is possible: the manager's cancellation reaches the job in a
\* goroutine of context.AfterFunc, so it may be seen late.
ctxLive == runCtx = "live"

\* failAt(): the FAILED result is sent and run() returns.
failAt(w) ==
  /\ Goto(w, "finish")
  /\ wout' = [wout EXCEPT ![w] = "FAILED"]

\* setStatus(): active under m.mu (the message that follows is transient).
setStatus(w, status) ==
  active' = [active EXCEPT ![commandAttemptKey(wcmd[w])] = status]

\* `for job := range m.jobs': next job, or leave once closed and drained.
Take(w) ==
  /\ wpc[w] = "idle"
  /\ \/ /\ jobs # <<>>
        /\ wcmd' = [wcmd EXCEPT ![w] = Head(jobs)]
        /\ jobs' = Tail(jobs)
        /\ Goto(w, "take")
     \/ /\ jobs = <<>>
        /\ manager # "open"
        /\ Goto(w, "exit")
        /\ UNCHANGED <<wcmd, jobs>>
  /\ UNCHANGED <<envVars, active, cacheVars, readerVars, wtry, wpart, wout, diskVars>>

\* Mutant: finish() runs before run() instead of after it.
BeginFinished(w) ==
  /\ wpc[w] = "take"
  /\ finish(commandAttemptKey(wcmd[w]))
  /\ Goto(w, IF manager = "open" THEN "prepare" ELSE "finish")
  /\ UNCHANGED <<envVars, jobs, cacheVars, readerVars, wcmd, wtry, wpart, wout, diskVars>>

\* Queued work is discarded once m.ctx is cancelled, otherwise run() starts.
Begin(w) ==
  /\ wpc[w] = "take"
  /\ Goto(w, IF manager = "open" THEN "prepare" ELSE "finish")
  /\ UNCHANGED <<envVars, jobs, active, cacheVars, readerVars, wcmd, wtry, wpart, wout, diskVars>>

\* Destination, boundary, free space, links and the temporary file: each may
\* refuse; the last one leaves an empty .part and the status DOWNLOADING.
Prepare(w) ==
  /\ wpc[w] = "prepare"
  /\ \/ /\ failAt(w)
        /\ UNCHANGED <<active, wpart>>
     \/ /\ wpart' = [wpart EXCEPT ![w] = "empty"]
        /\ setStatus(w, "DOWNLOADING")
        /\ Goto(w, "request")
        /\ UNCHANGED wout
  /\ UNCHANGED <<envVars, jobs, cacheVars, readerVars, wcmd, wtry, diskVars>>

\* Mutant: The attempts are counted from zero: one too many.
RequestOnceMore(w) ==
  /\ wpc[w] = "request"
  /\ \/ failAt(w)
     \/ /\ wcmd[w] \notin expired
        /\ ctxLive
        /\ \/ wtry[w] <= MaxAttempts /\ Goto(w, "backoff")
           \/ Goto(w, "copy")
        /\ UNCHANGED wout
  /\ UNCHANGED <<envVars, jobs, active, cacheVars, readerVars, wcmd, wtry, wpart, diskVars>>

\* One HTTP attempt of doRequest and the checks on its response: it fails for
\* good (expired URL, transport error, refusing status, wrong length), it is a
\* 5xx to retry, or the body may be read.
Request(w) ==
  /\ wpc[w] = "request"
  /\ \/ failAt(w)
     \/ /\ wcmd[w] \notin expired
        /\ ctxLive
        /\ wtry[w] < MaxAttempts
        /\ Goto(w, "backoff")
        /\ UNCHANGED wout
     \/ /\ wcmd[w] \notin expired
        /\ ctxLive
        /\ Goto(w, "copy")
        /\ UNCHANGED wout
  /\ UNCHANGED <<envVars, jobs, active, cacheVars, readerVars, wcmd, wtry, wpart, diskVars>>

\* The wait before the next attempt ends by its timer or by ctx.
Backoff(w) ==
  /\ wpc[w] = "backoff"
  /\ \/ /\ wtry' = [wtry EXCEPT ![w] = @ + 1]
        /\ Goto(w, "request")
        /\ UNCHANGED wout
     \/ /\ Cancelled
        /\ failAt(w)
        /\ UNCHANGED wtry
  /\ UNCHANGED <<envVars, jobs, active, cacheVars, readerVars, wcmd, wpart, diskVars>>

\* The body is read to its end: interrupted, of the wrong size, or complete;
\* complete does not mean correct.  No timeout bounds this read.
Copy(w) ==
  /\ wpc[w] = "copy"
  /\ \/ /\ failAt(w)
        /\ wpart' = [wpart EXCEPT ![w] = "none"]
        /\ UNCHANGED active
     \/ \E content \in {"good", "bad"} :
          /\ wpart' = [wpart EXCEPT ![w] = content]
          /\ setStatus(w, "VERIFYING")
          /\ Goto(w, "verify")
          /\ UNCHANGED wout
  /\ UNCHANGED <<envVars, jobs, cacheVars, readerVars, wcmd, wtry, diskVars>>

\* The read of the body aborts because its context is cancelled.
CopyAborted(w) ==
  /\ wpc[w] = "copy"
  /\ Cancelled
  /\ failAt(w)
  /\ wpart' = [wpart EXCEPT ![w] = "none"]
  /\ UNCHANGED <<envVars, jobs, active, cacheVars, readerVars, wcmd, wtry, diskVars>>

\* SHA-256 of the .part file: unreadable or cancelled, different, or equal.
Verify(w) ==
  /\ wpc[w] = "verify"
  /\ \/ /\ failAt(w)
        /\ wpart' = [wpart EXCEPT ![w] = "none"]
     \/ /\ wpart[w] = "good"
        /\ ctxLive
        /\ Goto(w, "recheck")
        /\ UNCHANGED <<wpart, wout>>
  /\ UNCHANGED <<envVars, jobs, active, cacheVars, readerVars, wcmd, wtry, diskVars>>

\* The last look at ctx and at the links of the destination.
Recheck(w) ==
  /\ wpc[w] = "recheck"
  /\ \/ failAt(w)
     \/ /\ ctxLive
        /\ Goto(w, "publish")
        /\ UNCHANGED wout
  /\ UNCHANGED <<envVars, jobs, active, cacheVars, readerVars, wcmd, wtry, wpart, diskVars>>

\* Mutant: The error of the replacement is ignored.
PublishUnchecked(w) ==
  /\ wpc[w] = "publish"
  /\ \/ /\ wpart' = [wpart EXCEPT ![w] = "none"]
        /\ UNCHANGED diskVars
     \/ /\ disk' = [disk EXCEPT ![wcmd[w].dest] = wpart[w]]
        /\ wpart' = [wpart EXCEPT ![w] = "moved"]
        /\ landed' = landed \cup {commandAttemptKey(wcmd[w])}
  /\ Goto(w, "remember")
  /\ UNCHANGED <<envVars, jobs, active, cacheVars, readerVars, wcmd, wtry, wout>>

\* publish(): the .part file replaces the destination, or nothing changes.
Publish(w) ==
  /\ wpc[w] = "publish"
  /\ \/ /\ failAt(w)
        /\ wpart' = [wpart EXCEPT ![w] = "none"]
        /\ UNCHANGED diskVars
     \/ /\ disk' = [disk EXCEPT ![wcmd[w].dest] = wpart[w]]
        /\ wpart' = [wpart EXCEPT ![w] = "moved"]
        /\ landed' = landed \cup {commandAttemptKey(wcmd[w])}
        /\ Goto(w, "remember")
        /\ UNCHANGED wout
  /\ UNCHANGED <<envVars, jobs, active, cacheVars, readerVars, wcmd, wtry>>

\* Mutant: Eviction shortens the order and leaves the map alone.
RememberUnevicted(key) ==
  LET order == IF key \in completed THEN completedOrder
                                    ELSE Append(completedOrder, key)
  IN /\ completedOrder' = IF Len(order) > CacheSize THEN Tail(order) ELSE order
     /\ completed' = completed \cup {key}

\* remember(): the result enters the cache and the oldest one may leave it.
remember(key) ==
  LET order == IF key \in completed THEN completedOrder
                                    ELSE Append(completedOrder, key)
      all   == completed \cup {key}
  IN IF Len(order) > CacheSize
     THEN completedOrder' = Tail(order) /\ completed' = all \ {Head(order)}
     ELSE completedOrder' = order /\ completed' = all

Remember(w) ==
  /\ wpc[w] = "remember"
  /\ remember(commandAttemptKey(wcmd[w]))
  /\ Goto(w, "report")
  /\ UNCHANGED <<envVars, jobs, active, readerVars, wcmd, wtry, wpart, wout, diskVars>>

\* The COMPLETED result is sent and run() returns.
Report(w) ==
  /\ wpc[w] = "report"
  /\ wout' = [wout EXCEPT ![w] = "COMPLETED"]
  /\ Goto(w, "finish")
  /\ UNCHANGED <<envVars, jobs, active, cacheVars, readerVars, wcmd, wtry, wpart, diskVars>>

\* The deferred removal of the .part file, then finish().
Finish(w) ==
  /\ wpc[w] = "finish"
  /\ finish(commandAttemptKey(wcmd[w]))
  /\ wcmd' = [wcmd EXCEPT ![w] = NoCommand]
  /\ wtry' = [wtry EXCEPT ![w] = 1]
  /\ wpart' = [wpart EXCEPT ![w] = "none"]
  /\ wout' = [wout EXCEPT ![w] = "none"]
  /\ Goto(w, "idle")
  /\ UNCHANGED <<envVars, jobs, cacheVars, readerVars, diskVars>>

\* Everything a worker does by itself; Copy depends on the remote server.
worker(w) ==
  \/ Take(w) \/ Begin(w) \/ Prepare(w) \/ Request(w) \/ Backoff(w)
  \/ CopyAborted(w) \/ Verify(w) \/ Recheck(w) \/ Publish(w)
  \/ Remember(w) \/ Report(w) \/ Finish(w)

Next ==
  \/ CancelRun \/ Close \/ CloseReturns
  \/ Reject \/ SubmitUndo \/ Reply
  \/ \E c \in Commands : Expire(c) \/ Submit(c)
  \/ \E w \in Workers : worker(w) \/ Copy(w)

Spec == Init /\ [][Next]_vars

\* Goroutines are scheduled and every step but the read of a body ends: dials,
\* headers and sends have timeouts, timers fire, file operations return.  The
\* cancellation of Client.Run leads to Close (context.AfterFunc).
Fairness ==
  /\ \A w \in Workers : WF_vars(worker(w))
  /\ WF_vars(SubmitUndo \/ Reply)
  /\ WF_vars(CloseReturns)
  /\ WF_vars(runCtx = "done" /\ Close)

FairSpec == Spec /\ Fairness

-----------------------------------------------------------------------------
(* Properties.                                                             *)

Held(w) == wpc[w] \in Holding
KeyOf(w) == commandAttemptKey(wcmd[w])

\* At most one job exists per attempt: Submit's look at active (manager.go:141)
\* and the workers' finish() (manager.go:172) never let the same command be
\* queued twice, run twice at once, or be queued while it runs.
OneJobPerAttempt ==
  /\ \A i, j \in 1..Len(jobs) :
       commandAttemptKey(jobs[i]) = commandAttemptKey(jobs[j]) => i = j
  /\ \A v, w \in Workers : Held(v) /\ Held(w) /\ KeyOf(v) = KeyOf(w) => v = w
  /\ \A w \in Workers, i \in 1..Len(jobs) :
       Held(w) => KeyOf(w) # commandAttemptKey(jobs[i])

\* No entry of active is leaked and none is missing: a key is present exactly
\* while its job is queued, held by a worker or being taken back by Submit.  A
\* leaked key would make every later copy of the command be answered with a
\* status and never run.
ActiveTracksJobs ==
  \A k \in Keys : active[k] # "none" <=>
    \/ \E i \in 1..Len(jobs) : commandAttemptKey(jobs[i]) = k
    \/ \E w \in Workers : Held(w) /\ KeyOf(w) = k
    \/ rpc = "full" /\ commandAttemptKey(rcmd) = k

\* The cache and its eviction order (manager.go:197) describe the same set,
\* without duplicates and within the limit, so eviction always removes a
\* result that is there and the cache cannot grow without bound.
CacheConsistent ==
  /\ completed = {completedOrder[i] : i \in 1..Len(completedOrder)}
  /\ \A i, j \in 1..Len(completedOrder) :
       completedOrder[i] = completedOrder[j] => i = j
  /\ Len(completedOrder) \in 0..CacheSize

\* COMPLETED is said only of a published file, be it by the worker or from the
\* cache: the worker publishes, remembers, then reports (manager.go:400-410).
CompletedIsPublished ==
  /\ completed \subseteq landed
  /\ \A w \in Workers : wpc[w] \in {"remember", "report"} => KeyOf(w) \in landed
  /\ rpc = "resend" => commandAttemptKey(rcmd) \in landed

\* A destination holds what it held before or a file that passed the size and
\* SHA-256 checks ("never overwrite the destination before verification").
DestinationVerified == \A d \in Dests : disk[d] \in {"old", "good"}

\* The result sent tells what happened to the destination: a job that leaves
\* run() has reported COMPLETED if it replaced the file and FAILED if it did
\* not; only a job discarded by Close reports nothing (manager.go:163-174).
OutcomeMatchesDisk ==
  \A w \in Workers : wpc[w] = "finish" =>
    /\ wout[w] = "COMPLETED" <=> wpart[w] = "moved"
    /\ wout[w] = "none" => manager # "open"

\* Once Close has returned no worker acts: nothing is downloaded, published or
\* cached any more (manager.go:176, "joins every worker").
QuietAfterClose ==
  [][manager = "closed" => UNCHANGED <<jobs, cacheVars, workVars, diskVars>>]_vars

\* What a worker is doing, in the terms of a job board: a job discarded by
\* Close has never been run.
PhaseOf(pc, out) ==
  CASE pc \in {"idle", "exit"}        -> "free"
    [] pc = "take"                    -> "taken"
    [] pc \in {"remember", "report"}  -> "effected"
    [] pc = "finish"                  -> IF out = "none" THEN "taken" ELSE "settled"
    [] OTHER                          -> "running"

Board == INSTANCE JobBoard WITH
  Tasks <- Keys, Slots <- Workers, NoTask <- NoCommand, Room <- QueueSize,
  board <- manager,
  queue <- [i \in 1..Len(jobs) |-> commandAttemptKey(jobs[i])],
  slot  <- [w \in Workers |-> IF Held(w) THEN KeyOf(w) ELSE NoCommand],
  phase <- [w \in Workers |-> PhaseOf(wpc[w], wout[w])],
  done  <- landed,
  kept  <- completed

\* The manager keeps the promise of a job board: a command is queued or run
\* once at a time, in the order of acceptance, never while its result is cached
\* (manager.go:136), its file is published at most once per run and before
\* success is reported, nothing is accepted after Close, and Close returns with
\* nothing queued or running, whatever the workers were doing (manager.go:176).
ImplementsBoard == Board!Promise

\* If no response body stalls for ever, every accepted attempt leaves active:
\* it is run or discarded, and the same command can be accepted again.
AttemptsSettle ==
  (\A w \in Workers : []<>(wpc[w] # "copy"))
    => \A k \in Keys : active[k] # "none" ~> active[k] = "none"
=============================================================================
