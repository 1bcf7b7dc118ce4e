------------------------ MODULE DownloadManagerProofs ------------------------
(***************************************************************************)
(* Proofs about DownloadManager for every set of commands, every number of *)
(* workers and every size of the queue and of the cache.                   *)
(***************************************************************************)
EXTENDS DownloadManager, SequenceTheorems, TLAPS

\* What its control point tells about a worker's private state.
ControlOf(w) ==
  /\ Held(w) => wcmd[w] \in Commands
  /\ wpc[w] = "backoff" => wtry[w] < MaxAttempts
  /\ wpc[w] = "verify" => wpart[w] \in {"good", "bad"}
  /\ wpc[w] \in {"recheck", "publish"} => wpart[w] = "good"
  /\ wpc[w] \in {"remember", "report"} => wpart[w] = "moved"
  /\ wpc[w] \notin {"remember", "report", "finish"} => wpart[w] # "moved"
  /\ wpc[w] # "finish" => wout[w] = "none"
  /\ wpc[w] = "finish" => (wout[w] = "COMPLETED" <=> wpart[w] = "moved")
  /\ wpc[w] = "finish" /\ wout[w] = "none" => manager # "open"

WorkerControl == \A w \in Workers : ControlOf(w)

\* What the reader still needs its command for.
ReaderControl == rpc \in {"full", "resend", "status"} => rcmd \in Commands

Base == TypeOK /\ WorkerControl /\ ReaderControl

\* A key built from a command is a key.
LEMMA KeyType == ASSUME NEW c \in Commands PROVE commandAttemptKey(c) \in Keys
  BY ConstantsAssumption DEF commandAttemptKey, Keys

\* Types and control facts hold initially.
LEMMA InitBase == Init => Base
<1> SUFFICES ASSUME Init PROVE Base
  OBVIOUS
<1> USE ConstantsAssumption DEF Init
<1>1. TypeOK
  BY DEF TypeOK, Holding, Running
<1>2. WorkerControl
  BY DEF WorkerControl, ControlOf, Held, Holding, Running
<1>3. ReaderControl
  BY DEF ReaderControl
<1> QED BY <1>1, <1>2, <1>3 DEF Base

\* Types and control facts are preserved by every step.
LEMMA StepBase == Base /\ [Next]_vars => Base'
<1> SUFFICES ASSUME Base, [Next]_vars PROVE Base'
  OBVIOUS
<1> USE ConstantsAssumption DEF envVars, cacheVars, readerVars, workVars, diskVars,
      Goto, failAt, setStatus, finish, Held, Running, Holding
<1>0. TypeOK /\ WorkerControl /\ ReaderControl
  BY DEF Base
<1>1. CASE CancelRun
  BY <1>0, <1>1 DEF CancelRun, Base, TypeOK, WorkerControl, ControlOf, ReaderControl
<1>2. CASE Close
  BY <1>0, <1>2 DEF Close, Base, TypeOK, WorkerControl, ControlOf, ReaderControl
<1>3. CASE CloseReturns
  BY <1>0, <1>3 DEF CloseReturns, Base, TypeOK, WorkerControl, ControlOf, ReaderControl
<1>4. CASE Reject
  BY <1>0, <1>4 DEF Reject, Base, TypeOK, WorkerControl, ControlOf, ReaderControl
<1>5. CASE SubmitUndo
  BY <1>0, <1>5 DEF SubmitUndo, Base, TypeOK, WorkerControl, ControlOf, ReaderControl
<1>6. CASE Reply
  BY <1>0, <1>6 DEF Reply, Base, TypeOK, WorkerControl, ControlOf, ReaderControl
<1>7. ASSUME NEW c \in Commands, Expire(c) PROVE Base'
  BY <1>0, <1>7 DEF Expire, Base, TypeOK, WorkerControl, ControlOf, ReaderControl
<1>8. ASSUME NEW c \in Commands, Submit(c) PROVE Base'
  <2>1. TypeOK'
    <3>1. active' \in [Keys -> Statuses \cup {"none"}]
      BY <1>0, <1>8, KeyType DEF Submit, cached, Statuses, TypeOK
    <3>2. jobs' \in Seq(Commands) /\ Len(jobs') \in 0..QueueSize
      <4>1. CASE jobs' = jobs
        BY <1>0, <4>1 DEF TypeOK
      <4>2. CASE jobs' = Append(jobs, c) /\ Len(jobs) < QueueSize
        BY <1>0, <4>2 DEF TypeOK
      <4> QED BY <1>8, <4>1, <4>2 DEF Submit, cached
    <3>3. rpc' \in {"idle", "fail", "resend", "status", "full"}
      BY <1>0, <1>8 DEF Submit, cached, TypeOK
    <3>4. rcmd' \in Commands \cup {NoCommand}
      BY <1>0, <1>8 DEF Submit, cached, TypeOK
    <3> QED BY <1>0, <1>8, <3>1, <3>2, <3>3, <3>4 DEF Submit, cached, TypeOK
  <2>2. WorkerControl'
    BY <1>0, <1>8 DEF Submit, cached, WorkerControl, ControlOf
  <2>3. ReaderControl'
    BY <1>0, <1>8 DEF Submit, cached, ReaderControl
  <2> QED BY <2>1, <2>2, <2>3 DEF Base
<1>9. ASSUME NEW w \in Workers, Take(w) PROVE Base'
  <2>1. TypeOK'
    <3>1. CASE jobs # <<>>
      <4>1. Head(jobs) \in Commands /\ Tail(jobs) \in Seq(Commands)
            /\ Len(Tail(jobs)) \in 0..QueueSize
        BY <1>0, <3>1 DEF TypeOK
      <4> QED BY <1>0, <1>9, <3>1, <4>1 DEF Take, TypeOK
    <3>2. CASE jobs = <<>>
      BY <1>0, <1>9, <3>2 DEF Take, TypeOK
    <3> QED BY <3>1, <3>2
  <2>2. ASSUME NEW v \in Workers PROVE ControlOf(v)'
    BY <1>0, <1>9 DEF Take, TypeOK, WorkerControl, ControlOf
  <2>3. ReaderControl'
    BY <1>0, <1>9 DEF Take, ReaderControl
  <2> QED BY <2>1, <2>2, <2>3 DEF Base, WorkerControl
<1>10. ASSUME NEW w \in Workers, Begin(w) PROVE Base'
  <2>1. TypeOK'
    BY <1>0, <1>10 DEF Begin, TypeOK, WorkerControl, ControlOf
  <2>2. ASSUME NEW v \in Workers PROVE ControlOf(v)'
    BY <1>0, <1>10 DEF Begin, TypeOK, WorkerControl, ControlOf
  <2>3. ReaderControl'
    BY <1>0, <1>10 DEF Begin, ReaderControl
  <2> QED BY <2>1, <2>2, <2>3 DEF Base, WorkerControl
<1>11. ASSUME NEW w \in Workers, Prepare(w) PROVE Base'
  <2>1. TypeOK'
    <3>1. active' \in [Keys -> Statuses \cup {"none"}]
      BY <1>0, <1>11 DEF Prepare, Statuses, TypeOK
    <3>2. wpc' \in [Workers -> Holding \cup {"idle", "exit"}]
      <4>1. \/ wpc' = [wpc EXCEPT ![w] = "finish"]
            \/ wpc' = [wpc EXCEPT ![w] = "request"]
        BY <1>11 DEF Prepare
      <4> QED BY <1>0, <4>1 DEF TypeOK
    <3>3. wpart' \in [Workers -> {"none", "empty", "good", "bad", "moved"}]
      BY <1>0, <1>11 DEF Prepare, TypeOK
    <3>4. wout' \in [Workers -> {"none", "FAILED", "COMPLETED"}]
      <4>1. wout' = wout \/ wout' = [wout EXCEPT ![w] = "FAILED"]
        BY <1>11 DEF Prepare
      <4> QED BY <1>0, <4>1 DEF TypeOK
    <3> QED BY <1>0, <1>11, <3>1, <3>2, <3>3, <3>4 DEF Prepare, TypeOK
  <2>2. ASSUME NEW v \in Workers PROVE ControlOf(v)'
    <3>1. ControlOf(v) /\ ControlOf(w)
      BY <1>0 DEF WorkerControl
    <3>2. CASE v # w
      BY <1>0, <1>11, <3>1, <3>2 DEF Prepare, TypeOK, ControlOf
    <3>3. CASE v = w
      BY <1>0, <1>11, <3>1, <3>3 DEF Prepare, TypeOK, ControlOf
    <3> QED BY <3>2, <3>3
  <2>3. ReaderControl'
    BY <1>0, <1>11 DEF Prepare, Statuses, ReaderControl
  <2> QED BY <2>1, <2>2, <2>3 DEF Base, WorkerControl
<1>12. ASSUME NEW w \in Workers, Request(w) PROVE Base'
  <2>1. TypeOK'
    BY <1>0, <1>12 DEF Request, TypeOK, WorkerControl, ControlOf
  <2>2. ASSUME NEW v \in Workers PROVE ControlOf(v)'
    BY <1>0, <1>12 DEF Request, TypeOK, WorkerControl, ControlOf
  <2>3. ReaderControl'
    BY <1>0, <1>12 DEF Request, ReaderControl
  <2> QED BY <2>1, <2>2, <2>3 DEF Base, WorkerControl
<1>13. ASSUME NEW w \in Workers, Backoff(w) PROVE Base'
  <2>1. TypeOK'
    <3>1. wtry[w] \in 1..MaxAttempts /\ wtry[w] < MaxAttempts
      BY <1>0, <1>13 DEF Backoff, TypeOK, WorkerControl, ControlOf
    <3>2. wtry[w] + 1 \in 1..MaxAttempts
      BY <3>1
    <3> QED BY <1>0, <1>13, <3>2 DEF Backoff, TypeOK
  <2>2. ASSUME NEW v \in Workers PROVE ControlOf(v)'
    <3>1. ControlOf(v) /\ wpc[v] \in Holding \cup {"idle", "exit"}
      BY <1>0 DEF WorkerControl, TypeOK
    <3>2. wpc'[v] # "backoff" \/ (wpc'[v] = wpc[v] /\ wtry'[v] = wtry[v])
      BY <1>0, <1>13 DEF Backoff, TypeOK
    <3>3. wpc'[v] = "backoff" => wtry'[v] < MaxAttempts
      BY <3>1, <3>2 DEF ControlOf
    <3> QED BY <1>0, <1>13, <3>1, <3>3 DEF Backoff, TypeOK, ControlOf
  <2>3. ReaderControl'
    BY <1>0, <1>13 DEF Backoff, ReaderControl
  <2> QED BY <2>1, <2>2, <2>3 DEF Base, WorkerControl
<1>14. ASSUME NEW w \in Workers, CopyAborted(w) PROVE Base'
  <2>1. TypeOK'
    BY <1>0, <1>14 DEF CopyAborted, TypeOK, WorkerControl, ControlOf
  <2>2. ASSUME NEW v \in Workers PROVE ControlOf(v)'
    BY <1>0, <1>14 DEF CopyAborted, TypeOK, WorkerControl, ControlOf
  <2>3. ReaderControl'
    BY <1>0, <1>14 DEF CopyAborted, ReaderControl
  <2> QED BY <2>1, <2>2, <2>3 DEF Base, WorkerControl
<1>15. ASSUME NEW w \in Workers, Verify(w) PROVE Base'
  <2>1. TypeOK'
    BY <1>0, <1>15 DEF Verify, TypeOK, WorkerControl, ControlOf
  <2>2. ASSUME NEW v \in Workers PROVE ControlOf(v)'
    BY <1>0, <1>15 DEF Verify, TypeOK, WorkerControl, ControlOf
  <2>3. ReaderControl'
    BY <1>0, <1>15 DEF Verify, ReaderControl
  <2> QED BY <2>1, <2>2, <2>3 DEF Base, WorkerControl
<1>16. ASSUME NEW w \in Workers, Recheck(w) PROVE Base'
  <2>1. TypeOK'
    BY <1>0, <1>16 DEF Recheck, TypeOK, WorkerControl, ControlOf
  <2>2. ASSUME NEW v \in Workers PROVE ControlOf(v)'
    BY <1>0, <1>16 DEF Recheck, TypeOK, WorkerControl, ControlOf
  <2>3. ReaderControl'
    BY <1>0, <1>16 DEF Recheck, ReaderControl
  <2> QED BY <2>1, <2>2, <2>3 DEF Base, WorkerControl
<1>17. ASSUME NEW w \in Workers, Publish(w) PROVE Base'
  <2>1. TypeOK'
    <3>1. wcmd[w] \in Commands /\ wpart[w] = "good"
      BY <1>0, <1>17 DEF Publish, WorkerControl, ControlOf
    <3>2. commandAttemptKey(wcmd[w]) \in Keys
      BY <3>1, KeyType
    <3>3. disk' \in [Dests -> {"old", "good", "bad"}]
      <4>1. disk' = disk \/ disk' = [disk EXCEPT ![wcmd[w].dest] = "good"]
        BY <1>17, <3>1 DEF Publish
      <4> QED BY <1>0, <4>1 DEF TypeOK
    <3>4. landed' \in SUBSET Keys
      BY <1>0, <1>17, <3>2 DEF Publish, TypeOK
    <3> QED BY <1>0, <1>17, <3>3, <3>4 DEF Publish, TypeOK
  <2>2. ASSUME NEW v \in Workers PROVE ControlOf(v)'
    BY <1>0, <1>17 DEF Publish, TypeOK, WorkerControl, ControlOf
  <2>3. ReaderControl'
    BY <1>0, <1>17 DEF Publish, ReaderControl
  <2> QED BY <2>1, <2>2, <2>3 DEF Base, WorkerControl
<1>18. ASSUME NEW w \in Workers, Remember(w) PROVE Base'
  <2>1. TypeOK'
    <3> DEFINE key == commandAttemptKey(wcmd[w])
    <3>1. key \in Keys
      BY <1>0, <1>18, KeyType DEF Remember, WorkerControl, ControlOf
    <3>2. completedOrder' \in Seq(Keys) /\ completed' \in SUBSET Keys
      <4> HIDE DEF key
      <4> DEFINE order == IF key \in completed THEN completedOrder
                                              ELSE Append(completedOrder, key)
      <4>1. order \in Seq(Keys)
        BY <1>0, <3>1 DEF TypeOK
      <4>2. Len(order) > CacheSize => order # <<>>
        BY <4>1
      <4> HIDE DEF order
      <4>3. order # <<>> => Tail(order) \in Seq(Keys)
        BY <4>1
      <4> QED BY <1>0, <1>18, <3>1, <4>1, <4>2, <4>3
            DEF Remember, remember, TypeOK, order, key
    <3> QED BY <1>0, <1>18, <3>2 DEF Remember, TypeOK
  <2>2. ASSUME NEW v \in Workers PROVE ControlOf(v)'
    BY <1>0, <1>18 DEF Remember, remember, TypeOK, WorkerControl, ControlOf
  <2>3. ReaderControl'
    BY <1>0, <1>18 DEF Remember, remember, ReaderControl
  <2> QED BY <2>1, <2>2, <2>3 DEF Base, WorkerControl
<1>19. ASSUME NEW w \in Workers, Report(w) PROVE Base'
  <2>1. TypeOK'
    BY <1>0, <1>19 DEF Report, TypeOK, WorkerControl, ControlOf
  <2>2. ASSUME NEW v \in Workers PROVE ControlOf(v)'
    BY <1>0, <1>19 DEF Report, TypeOK, WorkerControl, ControlOf
  <2>3. ReaderControl'
    BY <1>0, <1>19 DEF Report, ReaderControl
  <2> QED BY <2>1, <2>2, <2>3 DEF Base, WorkerControl
<1>20. ASSUME NEW w \in Workers, Finish(w) PROVE Base'
  <2>1. TypeOK'
    <3>1. 1 \in 1..MaxAttempts
      OBVIOUS
    <3>2. active' \in [Keys -> Statuses \cup {"none"}]
      BY <1>0, <1>20 DEF Finish, TypeOK
    <3> QED BY <1>0, <1>20, <3>1, <3>2 DEF Finish, TypeOK
  <2>2. ASSUME NEW v \in Workers PROVE ControlOf(v)'
    BY <1>0, <1>20 DEF Finish, TypeOK, WorkerControl, ControlOf
  <2>3. ReaderControl'
    BY <1>0, <1>20 DEF Finish, ReaderControl
  <2> QED BY <2>1, <2>2, <2>3 DEF Base, WorkerControl
<1>21. ASSUME NEW w \in Workers, Copy(w) PROVE Base'
  <2>1. TypeOK'
    <3>1. active' \in [Keys -> Statuses \cup {"none"}]
      BY <1>0, <1>21 DEF Copy, Statuses, TypeOK
    <3>2. wpart' \in [Workers -> {"none", "empty", "good", "bad", "moved"}]
      BY <1>0, <1>21 DEF Copy, TypeOK
    <3>3. wpc' \in [Workers -> Holding \cup {"idle", "exit"}]
      <4>1. \/ wpc' = [wpc EXCEPT ![w] = "finish"]
            \/ wpc' = [wpc EXCEPT ![w] = "verify"]
        BY <1>21 DEF Copy
      <4> QED BY <1>0, <4>1 DEF TypeOK
    <3>4. wout' \in [Workers -> {"none", "FAILED", "COMPLETED"}]
      <4>1. wout' = wout \/ wout' = [wout EXCEPT ![w] = "FAILED"]
        BY <1>21 DEF Copy
      <4> QED BY <1>0, <4>1 DEF TypeOK
    <3> QED BY <1>0, <1>21, <3>1, <3>2, <3>3, <3>4 DEF Copy, TypeOK
  <2>2. ASSUME NEW v \in Workers PROVE ControlOf(v)'
    BY <1>0, <1>21 DEF Copy, Statuses, TypeOK, WorkerControl, ControlOf
  <2>3. ReaderControl'
    BY <1>0, <1>21 DEF Copy, Statuses, ReaderControl
  <2> QED BY <2>1, <2>2, <2>3 DEF Base, WorkerControl
<1>22. CASE UNCHANGED vars
  BY <1>0, <1>22 DEF vars, Base, TypeOK, WorkerControl, ControlOf, ReaderControl
<1> QED
  BY <1>1, <1>2, <1>3, <1>4, <1>5, <1>6, <1>7, <1>8, <1>9, <1>10, <1>11,
     <1>12, <1>13, <1>14, <1>15, <1>16, <1>17, <1>18, <1>19, <1>20, <1>21,
     <1>22 DEF Next, worker

\* Every reachable state of the manager is well typed (the fields of Manager,
\* the reader's call and each worker's local state in manager.go).
THEOREM TypeCorrect == Spec => []TypeOK
<1>1. Base => TypeOK
  BY DEF Base
<1> QED BY InitBase, StepBase, <1>1, PTL DEF Spec

-----------------------------------------------------------------------------
(* One job per attempt.                                                    *)

\* Submit's entry that found the channel full has no job behind it.
FullAlone ==
  rpc = "full" =>
    /\ \A i \in 1..Len(jobs) : commandAttemptKey(jobs[i]) # commandAttemptKey(rcmd)
    /\ \A w \in Workers : Held(w) => KeyOf(w) # commandAttemptKey(rcmd)

JobInv == OneJobPerAttempt /\ ActiveTracksJobs /\ FullAlone

\* A worker's step inside its job, which keeps the job and may change the
\* status, preserves JobInv.
LEMMA InnerStep ==
  ASSUME TypeOK, JobInv, NEW w \in Workers, Held(w),
         \E label \in Holding : wpc' = [wpc EXCEPT ![w] = label],
         UNCHANGED <<jobs, wcmd, rpc, rcmd>>,
         \/ active' = active
         \/ \E s \in Statuses : active' = [active EXCEPT ![KeyOf(w)] = s]
  PROVE  JobInv'
<1>1. \A v \in Workers : Held(v)' <=> Held(v)
  BY DEF Held, Holding, Running, TypeOK
<1>2. \A v \in Workers : KeyOf(v)' = KeyOf(v)
  BY DEF KeyOf, commandAttemptKey
<1>3. \A k \in Keys : active'[k] # "none" <=> active[k] # "none"
  BY DEF TypeOK, Statuses, JobInv, ActiveTracksJobs
<1>4. OneJobPerAttempt'
  BY <1>1, <1>2 DEF JobInv, OneJobPerAttempt, commandAttemptKey
<1>5. ActiveTracksJobs'
  BY <1>1, <1>2, <1>3 DEF JobInv, ActiveTracksJobs, commandAttemptKey
<1>6. FullAlone'
  BY <1>1, <1>2 DEF JobInv, FullAlone, commandAttemptKey
<1> QED BY <1>4, <1>5, <1>6 DEF JobInv

\* A worker moves the head of the channel into its own hands.
LEMMA TakeStep ==
  ASSUME Base, JobInv, NEW w \in Workers, Take(w)
  PROVE  JobInv'
<1> USE DEF Take, Goto
<1>0. TypeOK
  BY DEF Base
<1>1. CASE jobs = <<>>
  <2>1. \A v \in Workers : (Held(v)' <=> Held(v)) /\ KeyOf(v)' = KeyOf(v)
    BY <1>0, <1>1 DEF Held, Holding, Running, TypeOK, KeyOf, commandAttemptKey
  <2> QED BY <1>1, <2>1 DEF JobInv, OneJobPerAttempt, ActiveTracksJobs, FullAlone,
            readerVars, commandAttemptKey
<1>2. CASE jobs # <<>>
  <2>1. /\ Len(jobs') = Len(jobs) - 1 /\ Len(jobs) \in Nat \ {0}
        /\ \A i \in 1..Len(jobs') : i + 1 \in 1..Len(jobs) /\ jobs'[i] = jobs[i + 1]
    <3>1. jobs \in Seq(Commands) /\ jobs' = Tail(jobs) /\ Len(jobs) \in Nat \ {0}
      BY <1>0, <1>2, EmptySeq DEF TypeOK
    <3>2. /\ Len(Tail(jobs)) = Len(jobs) - 1
          /\ \A i \in 1..Len(Tail(jobs)) : Tail(jobs)[i] = jobs[i + 1]
      BY <1>2, <3>1, HeadTailProperties
    <3>3. Len(jobs') = Len(jobs) - 1
      BY <3>1, <3>2
    <3>4. ASSUME NEW i \in 1..Len(jobs') PROVE i + 1 \in 1..Len(jobs)
      <4>1. \A n \in Nat : \A j \in 1..(n - 1) : j + 1 \in 1..n
        OBVIOUS
      <4>2. i \in 1..(Len(jobs) - 1)
        BY <3>3
      <4> QED BY <3>1, <4>1, <4>2
    <3>5. ASSUME NEW i \in 1..Len(jobs') PROVE jobs'[i] = jobs[i + 1]
      BY <3>1, <3>2
    <3> QED BY <3>1, <3>3, <3>4, <3>5
  <2>2. \A i \in 2..Len(jobs) : i - 1 \in 1..Len(jobs') /\ jobs[i] = jobs'[i - 1]
    BY <2>1
  <2>3. /\ KeyOf(w)' = commandAttemptKey(jobs[1]) /\ Held(w)' /\ ~Held(w)
        /\ 1 \in 1..Len(jobs)
    BY <1>0, <1>2, <2>1 DEF TypeOK, KeyOf, commandAttemptKey, Held, Holding, Running
  <2>4. \A v \in Workers : v # w => (Held(v)' <=> Held(v)) /\ KeyOf(v)' = KeyOf(v)
    BY <1>0, <1>2 DEF Held, Holding, Running, TypeOK, KeyOf, commandAttemptKey
  <2>5. \A i \in 1..Len(jobs') :
          commandAttemptKey(jobs'[i]) # commandAttemptKey(jobs[1])
    <3> SUFFICES ASSUME NEW i \in 1..Len(jobs')
                 PROVE commandAttemptKey(jobs[i + 1]) # commandAttemptKey(jobs[1])
      BY <2>1
    <3>1. i + 1 # 1 /\ i + 1 \in 1..Len(jobs)
      BY <2>1
    <3> QED BY <2>3, <3>1 DEF JobInv, OneJobPerAttempt
  <2>6. OneJobPerAttempt'
    <3>1. ASSUME NEW i \in 1..Len(jobs'), NEW j \in 1..Len(jobs'),
                 commandAttemptKey(jobs'[i]) = commandAttemptKey(jobs'[j])
          PROVE  i = j
      <4>1. i + 1 = j + 1
        BY <2>1, <3>1 DEF JobInv, OneJobPerAttempt
      <4> QED BY <4>1, <2>1
    <3>2. ASSUME NEW u \in Workers, NEW v \in Workers,
                 Held(u)', Held(v)', KeyOf(u)' = KeyOf(v)'
          PROVE  u = v
      BY <2>3, <2>4, <3>2 DEF JobInv, OneJobPerAttempt
    <3>3. ASSUME NEW v \in Workers, NEW i \in 1..Len(jobs'), Held(v)'
          PROVE  KeyOf(v)' # commandAttemptKey(jobs'[i])
      <4>1. CASE v = w
        BY <2>3, <2>5, <4>1
      <4>2. CASE v # w
        BY <2>1, <2>4, <3>3, <4>2 DEF JobInv, OneJobPerAttempt
      <4> QED BY <4>1, <4>2
    <3> QED BY <3>1, <3>2, <3>3 DEF OneJobPerAttempt, commandAttemptKey
  <2>7. ASSUME NEW k \in Keys
        PROVE  ((\E i \in 1..Len(jobs) : commandAttemptKey(jobs[i]) = k)
                 \/ (\E v \in Workers : Held(v) /\ KeyOf(v) = k))
               <=> ((\E i \in 1..Len(jobs') : commandAttemptKey(jobs'[i]) = k)
                 \/ (\E v \in Workers : Held(v)' /\ KeyOf(v)' = k))
    <3>1. ASSUME NEW i \in 1..Len(jobs), commandAttemptKey(jobs[i]) = k
          PROVE  \/ \E j \in 1..Len(jobs') : commandAttemptKey(jobs'[j]) = k
                 \/ \E v \in Workers : Held(v)' /\ KeyOf(v)' = k
      <4>1. CASE i = 1
        BY <2>3, <3>1, <4>1
      <4>2. CASE i # 1
        <5>1. i \in 2..Len(jobs)
          BY <2>1, <4>2
        <5> QED BY <2>2, <3>1, <5>1
      <4> QED BY <4>1, <4>2
    <3>2. ASSUME NEW v \in Workers, Held(v), KeyOf(v) = k
          PROVE  \E u \in Workers : Held(u)' /\ KeyOf(u)' = k
      BY <2>3, <2>4, <3>2
    <3>3. ASSUME NEW j \in 1..Len(jobs'), commandAttemptKey(jobs'[j]) = k
          PROVE  \E i \in 1..Len(jobs) : commandAttemptKey(jobs[i]) = k
      BY <2>1, <3>3
    <3>4. ASSUME NEW v \in Workers, Held(v)', KeyOf(v)' = k
          PROVE  \/ \E i \in 1..Len(jobs) : commandAttemptKey(jobs[i]) = k
                 \/ \E u \in Workers : Held(u) /\ KeyOf(u) = k
      BY <2>3, <2>4, <3>4
    <3> QED BY <3>1, <3>2, <3>3, <3>4
  <2>8. ActiveTracksJobs'
    BY <2>7 DEF JobInv, ActiveTracksJobs, readerVars, commandAttemptKey
  <2>9. FullAlone'
    <3> SUFFICES ASSUME rpc = "full"
                 PROVE /\ \A i \in 1..Len(jobs') :
                            commandAttemptKey(jobs'[i]) # commandAttemptKey(rcmd)
                       /\ \A v \in Workers : Held(v)' => KeyOf(v)' # commandAttemptKey(rcmd)
      BY DEF FullAlone, readerVars, commandAttemptKey
    <3>1. \A i \in 1..Len(jobs') : commandAttemptKey(jobs'[i]) # commandAttemptKey(rcmd)
      BY <2>1 DEF JobInv, FullAlone
    <3>2. \A v \in Workers : Held(v)' => KeyOf(v)' # commandAttemptKey(rcmd)
      BY <2>3, <2>4 DEF JobInv, FullAlone
    <3> QED BY <3>1, <3>2
  <2> QED BY <2>6, <2>8, <2>9 DEF JobInv
<1> QED BY <1>1, <1>2

\* A worker gives its job back: the key leaves active with it.
LEMMA FinishStep ==
  ASSUME Base, JobInv, NEW w \in Workers, Finish(w)
  PROVE  JobInv'
<1> USE DEF Finish, Goto, finish
<1>0. TypeOK /\ wcmd[w] \in Commands /\ Held(w) /\ KeyOf(w) \in Keys
  BY KeyType DEF Base, WorkerControl, ControlOf, Held, Holding, KeyOf
<1>1. ~Held(w)' /\ \A v \in Workers : v # w => (Held(v)' <=> Held(v)) /\ KeyOf(v)' = KeyOf(v)
  BY <1>0 DEF Held, Holding, Running, TypeOK, KeyOf, commandAttemptKey
<1>2. \A k \in Keys : active'[k] = IF k = KeyOf(w) THEN "none" ELSE active[k]
  BY <1>0 DEF TypeOK, KeyOf
<1>3. UNCHANGED <<jobs, rpc, rcmd>>
  BY DEF readerVars
<1>4. OneJobPerAttempt'
  BY <1>1, <1>3 DEF JobInv, OneJobPerAttempt, commandAttemptKey
<1>5. ActiveTracksJobs'
  <2> SUFFICES ASSUME NEW k \in Keys
               PROVE active'[k] # "none" <=>
                 \/ \E i \in 1..Len(jobs) : commandAttemptKey(jobs[i]) = k
                 \/ \E v \in Workers : Held(v)' /\ KeyOf(v)' = k
                 \/ rpc = "full" /\ commandAttemptKey(rcmd) = k
    BY <1>3 DEF ActiveTracksJobs, commandAttemptKey
  <2>1. CASE k = KeyOf(w)
    <3>1. \A i \in 1..Len(jobs) : commandAttemptKey(jobs[i]) # k
      BY <1>0, <2>1 DEF JobInv, OneJobPerAttempt
    <3>2. \A v \in Workers : Held(v)' => KeyOf(v)' # k
      BY <1>0, <1>1, <2>1 DEF JobInv, OneJobPerAttempt
    <3>3. ~(rpc = "full" /\ commandAttemptKey(rcmd) = k)
      BY <1>0, <2>1 DEF JobInv, FullAlone
    <3> QED BY <1>2, <2>1, <3>1, <3>2, <3>3
  <2>2. CASE k # KeyOf(w)
    <3>1. (\E v \in Workers : Held(v)' /\ KeyOf(v)' = k)
            <=> (\E v \in Workers : Held(v) /\ KeyOf(v) = k)
      BY <1>1, <2>2
    <3> QED BY <1>2, <2>2, <3>1 DEF JobInv, ActiveTracksJobs
  <2> QED BY <2>1, <2>2
<1>6. FullAlone'
  BY <1>1, <1>3 DEF JobInv, FullAlone, commandAttemptKey
<1> QED BY <1>4, <1>5, <1>6 DEF JobInv

\* Submit adds a key only where active had none, with a job or for SubmitUndo.
LEMMA SubmitStep ==
  ASSUME Base, JobInv, NEW c \in Commands, Submit(c)
  PROVE  JobInv'
<1> DEFINE key == commandAttemptKey(c)
<1>0. TypeOK /\ rpc = "idle" /\ key \in Keys
  BY KeyType DEF Base, Submit, cached
<1>1. \A v \in Workers : (Held(v)' <=> Held(v)) /\ KeyOf(v)' = KeyOf(v)
  BY DEF Submit, cached, workVars, Held, KeyOf, commandAttemptKey
<1>2. CASE jobs' = jobs /\ active' = active /\ rpc' # "full"
  BY <1>0, <1>1, <1>2 DEF JobInv, OneJobPerAttempt, ActiveTracksJobs, FullAlone, commandAttemptKey
<1>3. CASE /\ active[key] = "none"
           /\ active' = [active EXCEPT ![key] = "QUEUED"]
           /\ jobs' = Append(jobs, c) \/ (jobs' = jobs /\ rpc' = "full" /\ rcmd' = c)
           /\ jobs' = jobs \/ rpc' = rpc
  <2>1. \A i \in 1..Len(jobs) : commandAttemptKey(jobs[i]) # key
    BY <1>0, <1>3 DEF JobInv, ActiveTracksJobs
  <2>2. \A v \in Workers : Held(v) => KeyOf(v) # key
    BY <1>0, <1>3 DEF JobInv, ActiveTracksJobs
  <2>3. \A k \in Keys : active'[k] = IF k = key THEN "QUEUED" ELSE active[k]
    BY <1>0, <1>3 DEF TypeOK
  <2> HIDE DEF key
  <2>4. CASE jobs' = Append(jobs, c) /\ rpc' = rpc
    <3>1. /\ Len(jobs) \in Nat /\ Len(jobs') = Len(jobs) + 1 /\ jobs'[Len(jobs) + 1] = c
          /\ \A i \in 1..Len(jobs) : jobs'[i] = jobs[i]
      BY <1>0, <2>4, AppendProperties, LenProperties DEF TypeOK
    <3>2. /\ \A i \in 1..Len(jobs') : i \in 1..Len(jobs) \/ i = Len(jobs')
          /\ \A i \in 1..Len(jobs) : i \in 1..Len(jobs') /\ i # Len(jobs')
          /\ Len(jobs') \in 1..Len(jobs')
      BY <3>1
    <3>3. /\ \A i \in 1..Len(jobs) : commandAttemptKey(jobs'[i]) = commandAttemptKey(jobs[i])
          /\ commandAttemptKey(jobs'[Len(jobs')]) = key
      BY <3>1 DEF key
    <3>4. OneJobPerAttempt'
      <4>1. ASSUME NEW i \in 1..Len(jobs'), NEW j \in 1..Len(jobs'),
                   commandAttemptKey(jobs'[i]) = commandAttemptKey(jobs'[j])
            PROVE  i = j
        BY <2>1, <3>2, <3>3, <4>1 DEF JobInv, OneJobPerAttempt
      <4>2. \A v \in Workers, i \in 1..Len(jobs') :
              Held(v)' => KeyOf(v)' # commandAttemptKey(jobs'[i])
        BY <1>1, <2>2, <3>2, <3>3 DEF JobInv, OneJobPerAttempt
      <4>3. \A u, v \in Workers : Held(u)' /\ Held(v)' /\ KeyOf(u)' = KeyOf(v)' => u = v
        BY <1>1 DEF JobInv, OneJobPerAttempt
      <4> QED BY <4>1, <4>2, <4>3 DEF OneJobPerAttempt, commandAttemptKey
    <3>5. ASSUME NEW k \in Keys
          PROVE  (\E i \in 1..Len(jobs') : commandAttemptKey(jobs'[i]) = k)
                 <=> k = key \/ (\E i \in 1..Len(jobs) : commandAttemptKey(jobs[i]) = k)
      BY <3>2, <3>3
    <3>6. ActiveTracksJobs'
      BY <1>0, <1>1, <2>3, <2>4, <3>5 DEF JobInv, ActiveTracksJobs, commandAttemptKey
    <3>7. FullAlone'
      BY <1>0, <2>4 DEF FullAlone
    <3> QED BY <3>4, <3>6, <3>7 DEF JobInv
  <2>5. CASE jobs' = jobs /\ rpc' = "full" /\ rcmd' = c
    <3>1. OneJobPerAttempt'
      BY <1>1, <2>5 DEF JobInv, OneJobPerAttempt, commandAttemptKey
    <3>2. ActiveTracksJobs'
      BY <1>0, <1>1, <2>3, <2>5 DEF JobInv, ActiveTracksJobs, commandAttemptKey, key
    <3>3. FullAlone'
      BY <1>1, <2>1, <2>2, <2>5 DEF FullAlone, commandAttemptKey, key
    <3> QED BY <3>1, <3>2, <3>3 DEF JobInv
  <2>6. jobs' = Append(jobs, c) => jobs' # jobs
    <3>1. Len(Append(jobs, c)) = Len(jobs) + 1 /\ Len(jobs) \in Nat
      BY <1>0, AppendProperties, LenProperties DEF TypeOK
    <3> QED BY <3>1
  <2> QED BY <1>3, <2>4, <2>5, <2>6
<1>4. rpc' = "full" => rcmd' = c
  BY DEF Submit, cached
<1> QED BY <1>0, <1>2, <1>3, <1>4 DEF Submit, cached

\* The entry of a refused submission is taken back.
LEMMA UndoStep ==
  ASSUME Base, JobInv, SubmitUndo
  PROVE  JobInv'
<1> DEFINE key == commandAttemptKey(rcmd)
<1>0. TypeOK /\ rpc = "full" /\ rpc' = "fail" /\ key \in Keys
  BY KeyType DEF Base, ReaderControl, SubmitUndo
<1>1. \A v \in Workers : (Held(v)' <=> Held(v)) /\ KeyOf(v)' = KeyOf(v)
  BY DEF SubmitUndo, workVars, Held, KeyOf, commandAttemptKey
<1>2. \A k \in Keys : active'[k] = IF k = key THEN "none" ELSE active[k]
  BY <1>0 DEF TypeOK, SubmitUndo, finish
<1>3. jobs' = jobs
  BY DEF SubmitUndo
<1>4. OneJobPerAttempt'
  BY <1>1, <1>3 DEF JobInv, OneJobPerAttempt, commandAttemptKey
<1>5. ActiveTracksJobs'
  BY <1>0, <1>1, <1>2, <1>3 DEF JobInv, FullAlone, ActiveTracksJobs, commandAttemptKey
<1>6. FullAlone'
  BY <1>0 DEF FullAlone
<1> QED BY <1>4, <1>5, <1>6 DEF JobInv

\* JobInv holds initially: nothing is queued, held or active.
LEMMA InitJobs == Init => JobInv
  BY DEF Init, JobInv, OneJobPerAttempt, ActiveTracksJobs, FullAlone, Held, Holding, Running

\* Every step of the reader and of a worker preserves JobInv.
LEMMA StepJobs == Base /\ JobInv /\ [Next]_vars => JobInv'
<1> SUFFICES ASSUME Base, JobInv, [Next]_vars PROVE JobInv'
  OBVIOUS
<1>0. TypeOK
  BY DEF Base
<1>1. ASSUME UNCHANGED <<jobs, active, wpc, wcmd>>,
             UNCHANGED <<rpc, rcmd>> \/ (rpc # "full" /\ rpc' # "full")
      PROVE  JobInv'
  BY <1>1 DEF JobInv, OneJobPerAttempt, ActiveTracksJobs, FullAlone, Held, KeyOf,
       commandAttemptKey
<1>2. CASE CancelRun \/ Close \/ CloseReturns \/ Reject \/ Reply \/ UNCHANGED vars
  BY <1>1, <1>2 DEF CancelRun, Close, CloseReturns, Reject, Reply, vars, readerVars, workVars
<1>3. ASSUME NEW c \in Commands, Expire(c) PROVE JobInv'
  BY <1>1, <1>3 DEF Expire, readerVars, workVars
<1>4. ASSUME NEW w \in Workers, Held(w), UNCHANGED <<jobs, wcmd, rpc, rcmd>>,
             \E label \in Holding : wpc' = [wpc EXCEPT ![w] = label],
             \/ active' = active
             \/ \E s \in Statuses : active' = [active EXCEPT ![KeyOf(w)] = s]
      PROVE  JobInv'
  BY <1>0, <1>4, InnerStep
<1>5. ASSUME NEW w \in Workers, Begin(w) PROVE JobInv'
  BY <1>4, <1>5 DEF Begin, Goto, Held, Holding, Running, readerVars
<1>6. ASSUME NEW w \in Workers, Prepare(w) PROVE JobInv'
  BY <1>4, <1>6 DEF Prepare, Goto, failAt, Held, Holding, Running, readerVars, setStatus, KeyOf, Statuses
<1>7. ASSUME NEW w \in Workers, Request(w) PROVE JobInv'
  BY <1>4, <1>7 DEF Request, Goto, failAt, Held, Holding, Running, readerVars
<1>8. ASSUME NEW w \in Workers, Backoff(w) PROVE JobInv'
  BY <1>4, <1>8 DEF Backoff, Goto, failAt, Held, Holding, Running, readerVars
<1>9. ASSUME NEW w \in Workers, CopyAborted(w) PROVE JobInv'
  BY <1>4, <1>9 DEF CopyAborted, Goto, failAt, Held, Holding, Running, readerVars
<1>10. ASSUME NEW w \in Workers, Verify(w) PROVE JobInv'
  BY <1>4, <1>10 DEF Verify, Goto, failAt, Held, Holding, Running, readerVars
<1>11. ASSUME NEW w \in Workers, Recheck(w) PROVE JobInv'
  BY <1>4, <1>11 DEF Recheck, Goto, failAt, Held, Holding, Running, readerVars
<1>12. ASSUME NEW w \in Workers, Publish(w) PROVE JobInv'
  BY <1>4, <1>12 DEF Publish, Goto, failAt, Held, Holding, Running, readerVars
<1>13. ASSUME NEW w \in Workers, Remember(w) PROVE JobInv'
  BY <1>4, <1>13 DEF Remember, Goto, Held, Holding, Running, readerVars
<1>14. ASSUME NEW w \in Workers, Report(w) PROVE JobInv'
  BY <1>4, <1>14 DEF Report, Goto, Held, Holding, Running, readerVars
<1>15. ASSUME NEW w \in Workers, Copy(w) PROVE JobInv'
  BY <1>4, <1>15 DEF Copy, Goto, failAt, Held, Holding, Running, readerVars, setStatus, KeyOf, Statuses
<1> QED
  BY TakeStep, FinishStep, SubmitStep, UndoStep, <1>2, <1>3, <1>5, <1>6, <1>7,
     <1>8, <1>9, <1>10, <1>11, <1>12, <1>13, <1>14, <1>15 DEF Next, worker

-----------------------------------------------------------------------------
(* The cache, the destination and the end of the manager.                  *)

\* remember() keeps the cache consistent and adds nothing but its key.
LEMMA RememberCache ==
  ASSUME TypeOK, CacheConsistent, NEW key \in Keys, remember(key)
  PROVE  /\ CacheConsistent' /\ key \in completed'
         /\ completed' \subseteq completed \cup {key}
<1> DEFINE order == IF key \in completed THEN completedOrder
                                         ELSE Append(completedOrder, key)
           all == completed \cup {key}
           n == Len(order)
<1>1. completedOrder \in Seq(Keys) /\ Len(completedOrder) \in 0..CacheSize /\ CacheSize \in Nat \ {0}
  BY ConstantsAssumption DEF TypeOK, CacheConsistent
<1>2. /\ order \in Seq(Keys) /\ n \in Nat
      /\ n \in 0..CacheSize \/ n = CacheSize + 1
      /\ \A i, j \in 1..n : order[i] = order[j] => i = j
      /\ all = {order[i] : i \in 1..n}
  <2>1. CASE key \in completed
    BY <1>1, <2>1 DEF CacheConsistent
  <2>2. CASE key \notin completed
    <3>1. /\ order = Append(completedOrder, key) /\ order \in Seq(Keys)
          /\ n = Len(completedOrder) + 1 /\ order[n] = key
          /\ \A i \in 1..Len(completedOrder) : order[i] = completedOrder[i]
      BY <1>1, <2>2, AppendProperties
    <3>2. /\ \A i \in 1..n : i \in 1..Len(completedOrder) \/ i = n
          /\ \A i \in 1..Len(completedOrder) : i \in 1..n
          /\ n \in 1..n
      BY <1>1, <3>1
    <3>3. \A i \in 1..Len(completedOrder) : completedOrder[i] # key
      BY <2>2 DEF CacheConsistent
    <3> HIDE DEF order, n
    <3>4. \A i, j \in 1..n : order[i] = order[j] => i = j
      BY <3>1, <3>2, <3>3 DEF CacheConsistent
    <3>5. all = {order[i] : i \in 1..n}
      BY <3>1, <3>2 DEF CacheConsistent
    <3>6. n \in Nat /\ (n \in 0..CacheSize \/ n = CacheSize + 1)
      BY <1>1, <3>1
    <3> QED BY <3>1, <3>4, <3>5, <3>6
  <2> QED BY <2>1, <2>2
<1>3. CASE ~(n > CacheSize)
  <2>1. completedOrder' = order /\ completed' = all
    BY <1>3 DEF remember
  <2> HIDE DEF order, all, n
  <2>2. n \in 0..CacheSize
    BY <1>1, <1>2, <1>3
  <2>3. CacheConsistent'
    BY <1>2, <2>1, <2>2 DEF CacheConsistent, n
  <2> QED BY <2>1, <2>3 DEF all
<1>4. CASE n > CacheSize
  <2>1. completedOrder' = Tail(order) /\ completed' = all \ {Head(order)}
    BY <1>4 DEF remember
  <2> HIDE DEF order, all
  <2>2. n = CacheSize + 1 /\ order # <<>>
    BY <1>1, <1>2, <1>4
  <2>3. /\ Len(Tail(order)) = n - 1 /\ Head(order) = order[1]
        /\ \A i \in 1..Len(Tail(order)) : Tail(order)[i] = order[i + 1]
    BY <1>2, <2>2, HeadTailProperties
  <2> HIDE DEF n
  <2>4. /\ \A i \in 1..(n - 1) : i + 1 \in 1..n /\ i + 1 # 1
        /\ \A i \in 1..n : i = 1 \/ (i - 1 \in 1..(n - 1) /\ (i - 1) + 1 = i)
        /\ \A i, j \in 1..(n - 1) : i + 1 = j + 1 => i = j
        /\ 1 \in 1..n /\ n - 1 \in 0..CacheSize
    BY <1>1, <1>2, <2>2
  <2>5. \A i, j \in 1..(n - 1) : order[i + 1] = order[j + 1] => i = j
    BY <1>2, <2>4
  <2>6. all \ {order[1]} = {order[i + 1] : i \in 1..(n - 1)}
    <3>1. ASSUME NEW k \in all \ {order[1]} PROVE k \in {order[i + 1] : i \in 1..(n - 1)}
      <4>1. PICK i \in 1..n : k = order[i] /\ i # 1
        BY <1>2, <3>1
      <4>2. i - 1 \in 1..(n - 1) /\ (i - 1) + 1 = i
        BY <2>4, <4>1
      <4>3. k = order[(i - 1) + 1]
        BY <4>1, <4>2
      <4> QED BY <4>2, <4>3
    <3>2. ASSUME NEW i \in 1..(n - 1) PROVE order[i + 1] \in all \ {order[1]}
      BY <1>2, <2>4
    <3> QED BY <3>1, <3>2
  <2>7. CacheConsistent'
    <3>1. Len(completedOrder') = n - 1
      BY <2>1, <2>3
    <3>2. \A i \in 1..(n - 1) : completedOrder'[i] = order[i + 1]
      BY <2>1, <2>3
    <3>3. completed' = {completedOrder'[i] : i \in 1..(n - 1)}
      BY <2>1, <2>3, <2>6, <3>2
    <3> QED BY <2>4, <2>5, <3>1, <3>2, <3>3 DEF CacheConsistent
  <2>8. completed' \subseteq all
    BY <2>1
  <2>9. key \in completed'
    <3>1. key = order[n] /\ n \in 1..n /\ n # 1
      <4>1. Len(completedOrder) \in Nat /\ Len(completedOrder) # n
        BY <1>1, <2>2
      <4>2. order = Append(completedOrder, key)
        BY <4>1 DEF order, n
      <4> QED BY <1>1, <2>2, <4>2, AppendProperties DEF n
    <3>2. order[n] # order[1]
      BY <1>2, <2>4, <3>1
    <3> QED BY <2>1, <2>3, <3>1, <3>2 DEF all
  <2> QED BY <2>7, <2>8, <2>9 DEF all
<1> QED BY <1>3, <1>4

\* A result in the cache is never asked for again: no job of a cached attempt
\* is queued or on its way (manager.go:136).
NoRedownload ==
  /\ \A i \in 1..Len(jobs) : commandAttemptKey(jobs[i]) \notin completed
  /\ \A w \in Workers :
       wpc[w] \in (Running \ {"report"}) \cup {"take"} => KeyOf(w) \notin completed

\* wg.Wait: a closed manager has no worker left.
ClosedExit == manager = "closed" => \A w \in Workers : wpc[w] = "exit"

Effects == /\ CacheConsistent /\ NoRedownload /\ CompletedIsPublished
           /\ DestinationVerified /\ ClosedExit

IInv == Base /\ JobInv /\ Effects

\* Effects holds initially: nothing is cached, published or closed.
LEMMA InitEffects == Init => Effects
  BY ConstantsAssumption DEF Init, Effects, CacheConsistent, NoRedownload, CompletedIsPublished,
     DestinationVerified, ClosedExit, Running

\* Effects is preserved by every step.
LEMMA StepEffects == IInv /\ [Next]_vars => Effects'
<1> SUFFICES ASSUME IInv, [Next]_vars PROVE Effects'
  OBVIOUS
<1> USE DEF Running, Holding, Goto, failAt
<1>0. TypeOK /\ WorkerControl /\ ReaderControl /\ OneJobPerAttempt
      /\ CacheConsistent /\ NoRedownload /\ CompletedIsPublished /\ DestinationVerified
      /\ ClosedExit
  BY DEF IInv, Base, JobInv, Effects
<1>1. ASSUME UNCHANGED <<cacheVars, diskVars, jobs, wpc, wcmd>>,
             manager' = manager \/ manager' # "closed",
             rpc' # "resend" \/ UNCHANGED <<rpc, rcmd>>
      PROVE  Effects'
  BY <1>0, <1>1 DEF Effects, CacheConsistent, NoRedownload, CompletedIsPublished,
       DestinationVerified, ClosedExit, cacheVars, diskVars, KeyOf, commandAttemptKey
<1>2. CASE CancelRun \/ Close \/ Reject \/ Reply \/ SubmitUndo \/ UNCHANGED vars
  BY <1>1, <1>2 DEF CancelRun, Close, Reject, Reply, SubmitUndo, vars, envVars, readerVars, workVars
<1>3. CASE CloseReturns
  BY <1>0, <1>3 DEF CloseReturns, Effects, CacheConsistent, NoRedownload, CompletedIsPublished,
       DestinationVerified, ClosedExit, cacheVars, diskVars, readerVars, workVars, KeyOf, commandAttemptKey
<1>4. ASSUME NEW c \in Commands, Expire(c) PROVE Effects'
  BY <1>1, <1>4 DEF Expire, readerVars, workVars
<1>5. ASSUME NEW c \in Commands, Submit(c) PROVE Effects'
  <2>1. UNCHANGED <<manager, completed, completedOrder, disk, landed, wpc, wcmd>>
    BY <1>5 DEF Submit, cached, envVars, cacheVars, diskVars, workVars
  <2>2. CacheConsistent' /\ DestinationVerified' /\ ClosedExit'
    BY <1>0, <2>1 DEF CacheConsistent, DestinationVerified, ClosedExit
  <2>3. NoRedownload'
    <3>1. \A i \in 1..Len(jobs') : commandAttemptKey(jobs'[i]) \notin completed
      <4>1. CASE jobs' = jobs
        BY <1>0, <4>1 DEF NoRedownload
      <4>2. CASE jobs' = Append(jobs, c) /\ commandAttemptKey(c) \notin completed
        <5>1. /\ Len(jobs) \in Nat /\ Len(jobs') = Len(jobs) + 1 /\ jobs'[Len(jobs) + 1] = c
              /\ \A i \in 1..Len(jobs) : jobs'[i] = jobs[i]
          BY <1>0, <4>2, AppendProperties, LenProperties DEF TypeOK
        <5>2. \A i \in 1..Len(jobs') : i \in 1..Len(jobs) \/ i = Len(jobs) + 1
          BY <5>1
        <5> QED BY <1>0, <4>2, <5>1, <5>2 DEF NoRedownload
      <4> QED BY <1>5, <4>1, <4>2 DEF Submit, cached
    <3> QED BY <1>0, <2>1, <3>1 DEF NoRedownload, KeyOf, commandAttemptKey
  <2>4. CompletedIsPublished'
    <3>1. rpc' = "resend" => commandAttemptKey(rcmd') \in completed
      BY <1>5 DEF Submit, cached
    <3> QED BY <1>0, <2>1, <3>1 DEF CompletedIsPublished, KeyOf, commandAttemptKey
  <2> QED BY <2>2, <2>3, <2>4 DEF Effects
<1>6. ASSUME NEW w \in Workers, Take(w) PROVE Effects'
  <2>1. UNCHANGED <<manager, completed, completedOrder, disk, landed, rpc, rcmd>>
    BY <1>6 DEF Take, envVars, cacheVars, diskVars, readerVars
  <2>2. CacheConsistent' /\ DestinationVerified'
    BY <1>0, <2>1 DEF CacheConsistent, DestinationVerified
  <2>3. ClosedExit'
    BY <1>0, <1>6, <2>1 DEF ClosedExit, Take
  <2>4. CompletedIsPublished'
    BY <1>0, <1>6, <2>1 DEF Take, CompletedIsPublished, KeyOf, commandAttemptKey, TypeOK
  <2>5. CASE jobs = <<>>
    <3>1. NoRedownload'
      BY <1>0, <1>6, <2>1, <2>5 DEF Take, NoRedownload, KeyOf, commandAttemptKey, TypeOK
    <3> QED BY <2>2, <2>3, <2>4, <3>1 DEF Effects
  <2>6. CASE jobs # <<>>
    <3>1. /\ Len(jobs) \in Nat \ {0} /\ Len(Tail(jobs)) = Len(jobs) - 1
          /\ \A i \in 1..Len(Tail(jobs)) : Tail(jobs)[i] = jobs[i + 1]
          /\ Head(jobs) = jobs[1]
      BY <1>0, <2>6, EmptySeq, HeadTailProperties DEF TypeOK
    <3>2. \A n \in Nat \ {0} : 1 \in 1..n /\ \A j \in 1..(n - 1) : j + 1 \in 1..n
      OBVIOUS
    <3>3. \A i \in 1..Len(Tail(jobs)) : commandAttemptKey(Tail(jobs)[i]) \notin completed
      BY <1>0, <3>1, <3>2 DEF NoRedownload
    <3>4. commandAttemptKey(Head(jobs)) \notin completed
      BY <1>0, <3>1, <3>2 DEF NoRedownload
    <3>5. ASSUME NEW v \in Workers, wpc'[v] \in (Running \ {"report"}) \cup {"take"}
          PROVE  KeyOf(v)' \notin completed
      <4>1. CASE v = w
        BY <1>0, <1>6, <2>6, <3>4, <4>1 DEF Take, KeyOf, commandAttemptKey, TypeOK
      <4>2. CASE v # w
        BY <1>0, <1>6, <2>6, <3>5, <4>2 DEF Take, NoRedownload, KeyOf, commandAttemptKey, TypeOK
      <4> QED BY <4>1, <4>2
    <3>6. NoRedownload'
      BY <1>6, <2>1, <2>6, <3>3, <3>5 DEF Take, NoRedownload, commandAttemptKey
    <3> QED BY <2>2, <2>3, <2>4, <3>6 DEF Effects
  <2> QED BY <2>5, <2>6
<1>7. ASSUME NEW w \in Workers, wpc[w] # "exit", UNCHANGED <<manager, jobs, wcmd, rpc, rcmd>>,
             UNCHANGED <<completed, completedOrder, disk, landed>>,
             \E label \in Holding \ {"remember", "report"} :
               /\ wpc' = [wpc EXCEPT ![w] = label]
               /\ label # "finish" => wpc[w] \in (Running \ {"report"}) \cup {"take"}
      PROVE  Effects'
  <2>1. CacheConsistent' /\ DestinationVerified' /\ ClosedExit'
    BY <1>0, <1>7 DEF CacheConsistent, DestinationVerified, ClosedExit
  <2>2. CompletedIsPublished'
    BY <1>0, <1>7 DEF CompletedIsPublished, KeyOf, commandAttemptKey, TypeOK
  <2>3. NoRedownload'
    BY <1>0, <1>7 DEF NoRedownload, KeyOf, commandAttemptKey, TypeOK
  <2> QED BY <2>1, <2>2, <2>3 DEF Effects
<1>8. ASSUME NEW w \in Workers, Begin(w) PROVE Effects'
  BY <1>7, <1>8 DEF Begin, envVars, cacheVars, readerVars, diskVars
<1>9. ASSUME NEW w \in Workers, Prepare(w) PROVE Effects'
  BY <1>7, <1>9 DEF Prepare, envVars, cacheVars, readerVars, diskVars
<1>10. ASSUME NEW w \in Workers, Request(w) PROVE Effects'
  BY <1>7, <1>10 DEF Request, envVars, cacheVars, readerVars, diskVars
<1>11. ASSUME NEW w \in Workers, Backoff(w) PROVE Effects'
  BY <1>7, <1>11 DEF Backoff, envVars, cacheVars, readerVars, diskVars
<1>12. ASSUME NEW w \in Workers, CopyAborted(w) PROVE Effects'
  BY <1>7, <1>12 DEF CopyAborted, envVars, cacheVars, readerVars, diskVars
<1>13. ASSUME NEW w \in Workers, Verify(w) PROVE Effects'
  BY <1>7, <1>13 DEF Verify, envVars, cacheVars, readerVars, diskVars
<1>14. ASSUME NEW w \in Workers, Recheck(w) PROVE Effects'
  BY <1>7, <1>14 DEF Recheck, envVars, cacheVars, readerVars, diskVars
<1>15. ASSUME NEW w \in Workers, Report(w) PROVE Effects'
  BY <1>7, <1>15 DEF Report, envVars, cacheVars, readerVars, diskVars
<1>16. ASSUME NEW w \in Workers, Copy(w) PROVE Effects'
  BY <1>7, <1>16 DEF Copy, envVars, cacheVars, readerVars, diskVars
<1>17. ASSUME NEW w \in Workers, Publish(w) PROVE Effects'
  <2>0. wpart[w] = "good" /\ UNCHANGED <<manager, jobs, wcmd, rpc, rcmd, completed, completedOrder>>
    BY <1>0, <1>17 DEF Publish, WorkerControl, ControlOf, envVars, cacheVars, readerVars
  <2>1. CacheConsistent' /\ ClosedExit'
    BY <1>0, <1>17, <2>0 DEF Publish, CacheConsistent, ClosedExit
  <2>2. DestinationVerified'
    <3>1. disk' = disk \/ disk' = [disk EXCEPT ![wcmd[w].dest] = "good"]
      BY <1>17, <2>0 DEF Publish, diskVars
    <3> QED BY <1>0, <3>1 DEF DestinationVerified, TypeOK
  <2>3. CompletedIsPublished'
    BY <1>0, <1>17, <2>0 DEF Publish, diskVars, CompletedIsPublished, KeyOf, commandAttemptKey, TypeOK
  <2>4. NoRedownload'
    BY <1>0, <1>17, <2>0 DEF Publish, NoRedownload, KeyOf, commandAttemptKey, TypeOK
  <2> QED BY <2>1, <2>2, <2>3, <2>4 DEF Effects
<1>18. ASSUME NEW w \in Workers, Remember(w) PROVE Effects'
  <2>0. /\ wpc[w] = "remember" /\ wpc' = [wpc EXCEPT ![w] = "report"]
        /\ UNCHANGED <<manager, jobs, wcmd, rpc, rcmd, disk, landed>>
    BY <1>18 DEF Remember, envVars, readerVars, diskVars
  <2>1. KeyOf(w) \in Keys /\ KeyOf(w) \in landed /\ Held(w)
    BY <1>0, <2>0, KeyType DEF WorkerControl, ControlOf, Held, KeyOf, CompletedIsPublished
  <2>2. CacheConsistent' /\ completed' \subseteq completed \cup {KeyOf(w)}
    BY <1>0, <1>18, <2>1, RememberCache DEF Remember, KeyOf
  <2>3. DestinationVerified' /\ ClosedExit'
    BY <1>0, <2>0 DEF DestinationVerified, ClosedExit
  <2>4. CompletedIsPublished'
    BY <1>0, <2>0, <2>1, <2>2 DEF CompletedIsPublished, KeyOf, commandAttemptKey, TypeOK
  <2>5. NoRedownload'
    <3>1. \A i \in 1..Len(jobs) : commandAttemptKey(jobs[i]) \notin completed'
      BY <1>0, <2>1, <2>2 DEF NoRedownload, OneJobPerAttempt
    <3>2. ASSUME NEW v \in Workers, wpc'[v] \in (Running \ {"report"}) \cup {"take"}
          PROVE  KeyOf(v) \notin completed'
      <4>1. v # w /\ wpc[v] = wpc'[v] /\ Held(v)
        BY <1>0, <2>0, <3>2 DEF TypeOK, Held
      <4>2. KeyOf(v) # KeyOf(w)
        BY <1>0, <2>1, <4>1 DEF OneJobPerAttempt
      <4>3. KeyOf(v) \notin completed
        BY <1>0, <3>2, <4>1 DEF NoRedownload
      <4> QED BY <2>2, <4>2, <4>3
    <3> QED BY <2>0, <3>1, <3>2 DEF NoRedownload, KeyOf, commandAttemptKey
  <2> QED BY <2>2, <2>3, <2>4, <2>5 DEF Effects
<1>19. ASSUME NEW w \in Workers, Finish(w) PROVE Effects'
  <2>0. /\ wpc[w] = "finish" /\ wpc' = [wpc EXCEPT ![w] = "idle"]
        /\ wcmd' = [wcmd EXCEPT ![w] = NoCommand]
        /\ UNCHANGED <<manager, jobs, rpc, rcmd, completed, completedOrder, disk, landed>>
    BY <1>19 DEF Finish, envVars, cacheVars, readerVars, diskVars
  <2>1. CacheConsistent' /\ DestinationVerified' /\ ClosedExit'
    BY <1>0, <2>0 DEF CacheConsistent, DestinationVerified, ClosedExit
  <2>2. CompletedIsPublished'
    BY <1>0, <2>0 DEF CompletedIsPublished, KeyOf, commandAttemptKey, TypeOK
  <2>3. NoRedownload'
    BY <1>0, <2>0 DEF NoRedownload, KeyOf, commandAttemptKey, TypeOK
  <2> QED BY <2>1, <2>2, <2>3 DEF Effects
<1> QED
  BY <1>2, <1>3, <1>4, <1>5, <1>6, <1>8, <1>9, <1>10, <1>11, <1>12, <1>13,
     <1>14, <1>15, <1>16, <1>17, <1>18, <1>19 DEF Next, worker

\* IInv is an inductive invariant of the manager.
THEOREM Inductive == Spec => []IInv
<1>1. Init => IInv
  BY InitBase, InitJobs, InitEffects DEF IInv
<1>2. IInv /\ [Next]_vars => IInv'
  BY StepBase, StepJobs, StepEffects DEF IInv
<1> QED BY <1>1, <1>2, PTL DEF Spec

\* Whatever the server sends and whenever Close comes, the same attempt is
\* never queued or run twice at once, and active holds exactly the attempts
\* that have a job (Submit, worker and finish in manager.go).
THEOREM AttemptsExclusive == Spec => [](OneJobPerAttempt /\ ActiveTracksJobs)
<1>1. IInv => OneJobPerAttempt /\ ActiveTracksJobs
  BY DEF IInv, JobInv
<1> QED BY Inductive, <1>1, PTL

\* The completed cache stays consistent and bounded, and a cached attempt is
\* never downloaded again (remember and Submit in manager.go).
THEOREM CacheCorrect == Spec => [](CacheConsistent /\ NoRedownload)
<1>1. IInv => CacheConsistent /\ NoRedownload
  BY DEF IInv, Effects
<1> QED BY Inductive, <1>1, PTL

\* COMPLETED is only said of published files, only verified files reach a
\* destination, and the result sent matches the destination (run in manager.go).
THEOREM ResultsTruthful ==
  Spec => [](CompletedIsPublished /\ DestinationVerified /\ OutcomeMatchesDisk)
<1>1. IInv => CompletedIsPublished /\ DestinationVerified /\ OutcomeMatchesDisk
  BY DEF IInv, Effects, Base, WorkerControl, ControlOf, OutcomeMatchesDisk
<1> QED BY Inductive, <1>1, PTL

\* After Close has returned no step touches the queue, the cache, a worker or a
\* file (Close and worker in manager.go).
THEOREM ClosedIsQuiet == Spec => QuietAfterClose
<1>1. IInv /\ [Next]_vars =>
        [manager = "closed" => UNCHANGED <<jobs, cacheVars, workVars, diskVars>>]_vars
  <2> SUFFICES ASSUME IInv, Next, manager = "closed"
               PROVE UNCHANGED <<jobs, cacheVars, workVars, diskVars>>
    OBVIOUS
  <2>1. \A w \in Workers : wpc[w] = "exit"
    BY DEF IInv, Effects, ClosedExit
  <2>2. \A w \in Workers : ~(worker(w) \/ Copy(w))
    BY <2>1 DEF worker, Take, Begin, Prepare, Request, Backoff, CopyAborted, Verify, Recheck,
         Publish, Remember, Report, Finish, Copy
  <2>3. \A c \in Commands : Submit(c) => UNCHANGED <<jobs, cacheVars, workVars, diskVars>>
    BY DEF Submit, cached
  <2> QED BY <2>2, <2>3 DEF Next, CancelRun, Close, CloseReturns, Reject, SubmitUndo, Reply, Expire
<1> QED BY Inductive, <1>1, PTL DEF Spec, QuietAfterClose

-----------------------------------------------------------------------------
(* DownloadManager implements JobBoard: the initial states map to initial  *)
(* states and every step maps to a step of the board or to a stutter.      *)
(* That Close returns (Drains) is a liveness property and stays with TLC.  *)

\* The channel as the board sees it.
Attempts(s) == [i \in 1..Len(s) |-> commandAttemptKey(s[i])]

\* A worker leaves only a closed and drained channel.
Drained == \A w \in Workers : wpc[w] = "exit" => manager # "open" /\ jobs = <<>>

\* Attempts maps the operations of a channel to those of a sequence of keys.
LEMMA AttemptsSeq ==
  ASSUME NEW s \in Seq(Commands)
  PROVE  /\ Attempts(s) \in Seq(Keys) /\ Len(Attempts(s)) = Len(s)
         /\ \A c \in Commands :
              Attempts(Append(s, c)) = Append(Attempts(s), commandAttemptKey(c))
         /\ s # <<>> => /\ Attempts(s) # <<>>
                        /\ Head(Attempts(s)) = commandAttemptKey(Head(s))
                        /\ Attempts(Tail(s)) = Tail(Attempts(s))
         /\ s = <<>> => Attempts(s) = <<>>
<1>1. Attempts(s) \in Seq(Keys) /\ Len(Attempts(s)) = Len(s)
  <2>1. \A i \in 1..Len(s) : commandAttemptKey(s[i]) \in Keys
    BY KeyType, ElementOfSeq
  <2> HIDE DEF commandAttemptKey
  <2> QED BY <2>1, LenProperties, IsASeq DEF Attempts
<1>2. ASSUME NEW c \in Commands
      PROVE Attempts(Append(s, c)) = Append(Attempts(s), commandAttemptKey(c))
  <2>1. commandAttemptKey(c) \in Keys
    BY KeyType
  <2>2. /\ Append(s, c) \in Seq(Commands) /\ Len(Append(s, c)) = Len(s) + 1
        /\ \A i \in 1..Len(s) : Append(s, c)[i] = s[i]
        /\ Append(s, c)[Len(s) + 1] = c /\ Len(s) \in Nat
    BY AppendProperties, LenProperties
  <2>3. /\ Append(Attempts(s), commandAttemptKey(c)) \in Seq(Keys)
        /\ Len(Append(Attempts(s), commandAttemptKey(c))) = Len(s) + 1
        /\ \A i \in 1..Len(s) : Append(Attempts(s), commandAttemptKey(c))[i] = commandAttemptKey(s[i])
        /\ Append(Attempts(s), commandAttemptKey(c))[Len(s) + 1] = commandAttemptKey(c)
    BY <1>1, <2>1, AppendProperties DEF Attempts
  <2>4. \A i \in 1..(Len(s) + 1) : i \in 1..Len(s) \/ i = Len(s) + 1
    BY <2>2
  <2>5. \A i \in 1..(Len(s) + 1) :
          commandAttemptKey(Append(s, c)[i]) = Append(Attempts(s), commandAttemptKey(c))[i]
    BY <2>2, <2>3, <2>4
  <2> DEFINE t == Append(Attempts(s), commandAttemptKey(c))
  <2>6. t = [i \in 1..(Len(s) + 1) |-> t[i]]
    BY <2>3, LenProperties
  <2> QED BY <2>2, <2>5, <2>6 DEF Attempts
<1>3. ASSUME s # <<>>
      PROVE /\ Attempts(s) # <<>>
            /\ Head(Attempts(s)) = commandAttemptKey(Head(s))
            /\ Attempts(Tail(s)) = Tail(Attempts(s))
  <2>1. Len(s) \in Nat /\ Len(s) # 0 /\ Attempts(s) # <<>>
    BY <1>1, <1>3, EmptySeq, LenProperties
  <2>2. /\ Head(s) = s[1] /\ Tail(s) \in Seq(Commands) /\ Len(Tail(s)) = Len(s) - 1
        /\ \A i \in 1..Len(Tail(s)) : Tail(s)[i] = s[i + 1]
    BY <1>3, HeadTailProperties
  <2>3. /\ Head(Attempts(s)) = Attempts(s)[1] /\ Tail(Attempts(s)) \in Seq(Keys)
        /\ Len(Tail(Attempts(s))) = Len(s) - 1
        /\ \A i \in 1..Len(Tail(Attempts(s))) : Tail(Attempts(s))[i] = Attempts(s)[i + 1]
    BY <1>1, <2>1, HeadTailProperties
  <2>4. \A i \in 1..(Len(s) - 1) : i + 1 \in 1..Len(s)
    BY <2>1
  <2>5. 1 \in 1..Len(s)
    BY <2>1
  <2>6. \A i \in 1..(Len(s) - 1) : commandAttemptKey(Tail(s)[i]) = Tail(Attempts(s))[i]
    BY <2>2, <2>3, <2>4 DEF Attempts
  <2> DEFINE t == Tail(Attempts(s))
  <2>7. t = [i \in 1..(Len(s) - 1) |-> t[i]]
    BY <2>3, LenProperties
  <2>8. Attempts(Tail(s)) = Tail(Attempts(s))
    BY <2>2, <2>6, <2>7 DEF Attempts
  <2>9. Head(Attempts(s)) = commandAttemptKey(Head(s))
    BY <2>2, <2>3, <2>5 DEF Attempts
  <2> QED BY <2>1, <2>8, <2>9
<1>4. s = <<>> => Attempts(s) = <<>>
  BY <1>1, EmptySeq
<1> QED BY <1>1, <1>2, <1>3, <1>4

\* The initial states are initial states of the board.
LEMMA InitBoard == Init => Board!Init
  BY DEF Init, Board!Init, PhaseOf, Held, Holding, Running

\* The phases of a worker.
LEMMA Phases ==
  ASSUME NEW out
  PROVE  /\ \A pc \in {"idle", "exit"} : PhaseOf(pc, out) = "free"
         /\ PhaseOf("take", out) = "taken"
         /\ \A pc \in {"remember", "report"} : PhaseOf(pc, out) = "effected"
         /\ PhaseOf("finish", out) = IF out = "none" THEN "taken" ELSE "settled"
         /\ \A pc \in Running \ {"remember", "report"} : PhaseOf(pc, out) = "running"
<1>1. \A pc \in {"idle", "exit"} : PhaseOf(pc, out) = "free"
  BY DEF PhaseOf
<1>2. PhaseOf("take", out) = "taken"
  BY DEF PhaseOf
<1>3. \A pc \in {"remember", "report"} : PhaseOf(pc, out) = "effected"
  BY DEF PhaseOf
<1>4. PhaseOf("finish", out) = IF out = "none" THEN "taken" ELSE "settled"
  BY DEF PhaseOf
<1>5. \A pc \in Running \ {"remember", "report"} : PhaseOf(pc, out) = "running"
  BY DEF PhaseOf, Running
<1> QED BY <1>1, <1>2, <1>3, <1>4, <1>5

\* Drained holds initially and is preserved: the channel is closed before a
\* worker leaves, and Submit adds nothing to a closed one.
LEMMA StepDrained == Drained /\ Base /\ [Next]_vars => Drained'
<1> SUFFICES ASSUME Drained, Base, [Next]_vars PROVE Drained'
  OBVIOUS
<1>0. TypeOK
  BY DEF Base
<1>1. ASSUME UNCHANGED <<jobs, manager>>, \A v \in Workers : wpc'[v] = "exit" => wpc[v] = "exit"
      PROVE  Drained'
  BY <1>1 DEF Drained
<1>2. ASSUME UNCHANGED <<jobs, wpc>>, manager' # "open" \/ manager' = manager PROVE Drained'
  BY <1>2 DEF Drained
<1>3. CASE CancelRun \/ Close \/ CloseReturns \/ Reject \/ SubmitUndo \/ Reply \/ UNCHANGED vars
  BY <1>2, <1>3 DEF CancelRun, Close, CloseReturns, Reject, SubmitUndo, Reply, vars, envVars, workVars
<1>4. ASSUME NEW c \in Commands, Expire(c) \/ Submit(c) PROVE Drained'
  BY <1>4 DEF Expire, Submit, cached, Drained, envVars, workVars
<1>5. ASSUME NEW w \in Workers, Take(w) PROVE Drained'
  BY <1>0, <1>5 DEF Take, Goto, Drained, TypeOK, envVars
<1>6. ASSUME NEW w \in Workers, worker(w) \/ Copy(w), ~Take(w) PROVE Drained'
  BY <1>0, <1>1, <1>6 DEF worker, Copy, Begin, Prepare, Request, Backoff, CopyAborted, Verify,
       Recheck, Publish, Remember, Report, Finish, Goto, failAt, envVars, TypeOK
<1> QED BY <1>3, <1>4, <1>5, <1>6 DEF Next

SlotOf == [w \in Workers |-> IF Held(w) THEN KeyOf(w) ELSE NoCommand]
PhasesOf == [w \in Workers |-> PhaseOf(wpc[w], wout[w])]

\* A step of one worker that keeps its command leaves the slots alone and moves
\* at most the worker's own phase.
LEMMA OneMoves ==
  ASSUME TypeOK, NEW w \in Workers, Held(w), wcmd' = wcmd,
         NEW label \in Holding, wpc' = [wpc EXCEPT ![w] = label],
         \A v \in Workers \ {w} : wout'[v] = wout[v]
  PROVE  /\ SlotOf' = SlotOf
         /\ PhasesOf' = [PhasesOf EXCEPT ![w] = PhaseOf(label, wout'[w])]
<1>1. \A v \in Workers : (Held(v)' <=> Held(v)) /\ KeyOf(v)' = KeyOf(v)
  BY DEF Held, KeyOf, commandAttemptKey, TypeOK
<1>2. SlotOf' = SlotOf
  BY <1>1 DEF SlotOf
<1>3. \A v \in Workers : wpc'[v] = IF v = w THEN label ELSE wpc[v]
  BY DEF TypeOK
<1>4. PhasesOf' = [PhasesOf EXCEPT ![w] = PhaseOf(label, wout'[w])]
  <2>1. \A v \in Workers : PhaseOf(wpc'[v], wout'[v]) =
          IF v = w THEN PhaseOf(label, wout'[w]) ELSE PhaseOf(wpc[v], wout[v])
    BY <1>3
  <2>2. PhasesOf' = [v \in Workers |-> PhaseOf(wpc'[v], wout'[v])]
    BY DEF PhasesOf, PhaseOf
  <2> QED BY <2>1, <2>2 DEF PhasesOf
<1> QED BY <1>2, <1>4

\* What a board sees of a step that touches none of its state.
LEMMA Unseen ==
  ASSUME UNCHANGED <<manager, jobs, wpc, wcmd, wout, landed, completed>>
  PROVE  UNCHANGED Board!vars
<1>1. \A v \in Workers : (Held(v)' <=> Held(v)) /\ KeyOf(v)' = KeyOf(v)
  BY DEF Held, KeyOf, commandAttemptKey
<1> QED BY <1>1 DEF Board!vars, PhaseOf, commandAttemptKey

\* Close and its return.
LEMMA StepClosing ==
  ASSUME IInv, Drained, Close \/ CloseReturns
  PROVE  Board!Next
<1>1. CASE Close
  <2>1. UNCHANGED <<jobs, wpc, wcmd, wout, landed, completed>>
    BY <1>1 DEF Close, workVars, diskVars, cacheVars
  <2>2. \A v \in Workers : (Held(v)' <=> Held(v)) /\ KeyOf(v)' = KeyOf(v)
    BY <2>1 DEF Held, KeyOf, commandAttemptKey
  <2>3. Board!Close
    BY <1>1, <2>1, <2>2 DEF Close, Board!Close, commandAttemptKey, PhaseOf
  <2> QED BY <2>3 DEF Board!Next
<1>2. CASE CloseReturns
  <2>1. UNCHANGED <<jobs, wpc, wcmd, wout, landed, completed>>
    BY <1>2 DEF CloseReturns, workVars, diskVars, cacheVars
  <2>2. \A v \in Workers : (Held(v)' <=> Held(v)) /\ KeyOf(v)' = KeyOf(v)
    BY <2>1 DEF Held, KeyOf, commandAttemptKey
  <2>3. /\ Attempts(jobs) = <<>>
        /\ \A w \in Workers : PhaseOf(wpc[w], wout[w]) = "free"
    <3>1. jobs = <<>> /\ jobs \in Seq(Commands)
      BY <1>2, PoolAssumption DEF CloseReturns, Drained, IInv, Base, TypeOK
    <3> QED BY <1>2, <3>1, AttemptsSeq, Phases DEF CloseReturns
  <2>4. Board!CloseReturns
    BY <1>2, <2>1, <2>2, <2>3 DEF CloseReturns, Board!CloseReturns, Attempts, commandAttemptKey, PhaseOf
  <2> QED BY <2>4 DEF Board!Next
<1> QED BY <1>1, <1>2

\* A command is accepted, or nothing changes on the board.
LEMMA StepSubmit ==
  ASSUME IInv, NEW c \in Commands, Submit(c)
  PROVE  Board!Next \/ UNCHANGED Board!vars
<1> DEFINE key == commandAttemptKey(c)
<1>0. UNCHANGED <<manager, wpc, wcmd, wout, landed, completed>>
  BY DEF Submit, cached, envVars, cacheVars, workVars, diskVars
<1>1. CASE jobs' = jobs
  BY <1>0, <1>1, Unseen
<1>2. CASE jobs' # jobs
  <2>1. /\ manager = "open" /\ key \notin completed /\ active[key] = "none"
        /\ Len(jobs) < QueueSize /\ jobs' = Append(jobs, c)
    BY <1>2 DEF Submit, cached
  <2>2. key \in Keys /\ jobs \in Seq(Commands)
    BY KeyType DEF IInv, Base, TypeOK
  <2>3. /\ \A i \in 1..Len(jobs) : commandAttemptKey(jobs[i]) # key
        /\ \A w \in Workers : Held(w) => KeyOf(w) # key
    BY <2>1, <2>2 DEF IInv, JobInv, ActiveTracksJobs
  <2>4. ~Board!OnBoard(key)
    <3>1. key # NoCommand
      BY <2>2, PoolAssumption DEF Keys
    <3>2. ~Board!Queued(key)
      BY <2>2, <2>3, AttemptsSeq DEF Board!Queued, Attempts
    <3>3. \A w \in Workers : (IF Held(w) THEN KeyOf(w) ELSE NoCommand) # key
      BY <2>3, <3>1
    <3> HIDE DEF key
    <3> QED BY <3>2, <3>3 DEF Board!OnBoard
  <2>5. Attempts(jobs') = Append(Attempts(jobs), key) /\ Len(Attempts(jobs)) = Len(jobs)
    BY <2>1, <2>2, AttemptsSeq
  <2>6. \A v \in Workers : (Held(v)' <=> Held(v)) /\ KeyOf(v)' = KeyOf(v)
    BY <1>0 DEF Held, KeyOf, commandAttemptKey
  <2>7. Board!Accept(key)
    <3> HIDE DEF key
    <3> QED BY <1>0, <2>1, <2>4, <2>5, <2>6 DEF Board!Accept, Attempts, PhaseOf
  <2> QED BY <2>2, <2>7 DEF Board!Next
<1> QED BY <1>1, <1>2

\* A worker takes the head of the channel, or leaves unseen.
LEMMA StepTake ==
  ASSUME IInv, NEW w \in Workers, Take(w)
  PROVE  Board!Next \/ UNCHANGED Board!vars
<1>0. TypeOK /\ wpc[w] = "idle" /\ UNCHANGED <<manager, wout, landed, completed>>
  BY DEF IInv, Base, Take, envVars, diskVars, cacheVars
<1>1. CASE jobs = <<>>
  <2>1. UNCHANGED <<jobs, wcmd>> /\ wpc' = [wpc EXCEPT ![w] = "exit"]
    BY <1>1 DEF Take, Goto
  <2>2. SlotOf' = SlotOf
    BY <1>0, <2>1 DEF SlotOf, Held, Holding, Running, KeyOf, commandAttemptKey, TypeOK
  <2>3. PhasesOf' = PhasesOf
    <3>1. \A v \in Workers : PhaseOf(wpc'[v], wout'[v]) = PhaseOf(wpc[v], wout[v])
      BY <1>0, <2>1, Phases DEF TypeOK
    <3>2. PhasesOf' = [v \in Workers |-> PhaseOf(wpc'[v], wout'[v])]
      BY DEF PhasesOf, PhaseOf
    <3> QED BY <3>1, <3>2 DEF PhasesOf
  <2> QED BY <1>0, <2>1, <2>2, <2>3 DEF Board!vars, SlotOf, PhasesOf, commandAttemptKey
<1>2. CASE jobs # <<>>
  <2>1. /\ wcmd' = [wcmd EXCEPT ![w] = Head(jobs)] /\ jobs' = Tail(jobs)
        /\ wpc' = [wpc EXCEPT ![w] = "take"]
    BY <1>2 DEF Take, Goto
  <2>2. /\ Attempts(jobs) # <<>> /\ Attempts(jobs') = Tail(Attempts(jobs))
        /\ Head(Attempts(jobs)) = commandAttemptKey(Head(jobs))
    BY <1>0, <1>2, <2>1, AttemptsSeq DEF TypeOK
  <2>3. \A v \in Workers : wpc'[v] = (IF v = w THEN "take" ELSE wpc[v])
                          /\ wcmd'[v] = (IF v = w THEN Head(jobs) ELSE wcmd[v])
    BY <1>0, <2>1 DEF TypeOK
  <2>4. SlotOf' = [SlotOf EXCEPT ![w] = Head(Attempts(jobs))]
    <3>1. SlotOf' = [v \in Workers |-> IF wpc'[v] \in Holding THEN commandAttemptKey(wcmd'[v])
                                                              ELSE NoCommand]
      BY DEF SlotOf, Held, KeyOf, commandAttemptKey
    <3>2. SlotOf = [v \in Workers |-> IF wpc[v] \in Holding THEN commandAttemptKey(wcmd[v])
                                                            ELSE NoCommand]
      BY DEF SlotOf, Held, KeyOf
    <3>3. \A v \in Workers :
            (IF wpc'[v] \in Holding THEN commandAttemptKey(wcmd'[v]) ELSE NoCommand)
            = IF v = w THEN Head(Attempts(jobs))
              ELSE IF wpc[v] \in Holding THEN commandAttemptKey(wcmd[v]) ELSE NoCommand
      BY <2>2, <2>3 DEF Holding
    <3> QED BY <3>1, <3>2, <3>3
  <2>5. PhasesOf' = [PhasesOf EXCEPT ![w] = "taken"] /\ PhasesOf[w] = "free"
    <3>1. \A v \in Workers : PhaseOf(wpc'[v], wout'[v]) =
            IF v = w THEN "taken" ELSE PhaseOf(wpc[v], wout[v])
      BY <1>0, <2>3, Phases
    <3>2. PhasesOf' = [v \in Workers |-> PhaseOf(wpc'[v], wout'[v])]
      BY DEF PhasesOf, PhaseOf
    <3>3. PhasesOf[w] = "free"
      BY <1>0, Phases DEF PhasesOf
    <3> QED BY <3>1, <3>2, <3>3 DEF PhasesOf
  <2>6. Board!Take(w)
    BY <1>0, <2>2, <2>4, <2>5 DEF Board!Take, SlotOf, PhasesOf, Attempts
  <2> QED BY <2>6 DEF Board!Next
<1> QED BY <1>1, <1>2

\* A worker's step inside its job is the board's step of that phase.
LEMMA StepInner ==
  ASSUME IInv, NEW w \in Workers,
         Begin(w) \/ Prepare(w) \/ Request(w) \/ Backoff(w) \/ CopyAborted(w) \/ Copy(w)
         \/ Verify(w) \/ Recheck(w) \/ Publish(w) \/ Remember(w) \/ Report(w)
  PROVE  Board!Next \/ UNCHANGED Board!vars
<1>0. TypeOK /\ WorkerControl /\ UNCHANGED <<manager, jobs, wcmd>>
  BY DEF IInv, Base, Begin, Prepare, Request, Backoff, CopyAborted, Copy, Verify, Recheck,
         Publish, Remember, Report, envVars
<1>1. /\ wout[w] = "none" /\ Held(w)
      /\ \A v \in Workers \ {w} : wout'[v] = wout[v]
  BY <1>0 DEF WorkerControl, ControlOf, Begin, Prepare, Request, Backoff, CopyAborted, Copy, Verify,
         Recheck, Publish, Remember, Report, failAt, workVars, Held, Holding, Running, TypeOK
<1>2. SlotOf[w] = KeyOf(w) /\ PhasesOf[w] = PhaseOf(wpc[w], wout[w])
  BY <1>1 DEF SlotOf, PhasesOf
<1>3. ASSUME NEW label \in Holding, wpc' = [wpc EXCEPT ![w] = label]
      PROVE  SlotOf' = SlotOf /\ PhasesOf' = [PhasesOf EXCEPT ![w] = PhaseOf(label, wout'[w])]
  BY <1>0, <1>1, <1>3, OneMoves
<1>4. Attempts(jobs') = Attempts(jobs)
  BY <1>0
<1>5. ASSUME PhasesOf[w] \in {"running", "effected"}, UNCHANGED <<landed, completed>>,
             wpc' = [wpc EXCEPT ![w] = "finish"], wout'[w] # "none"
      PROVE  Board!Next
  <2>1. SlotOf' = SlotOf /\ PhasesOf' = [PhasesOf EXCEPT ![w] = "settled"]
    <3>1. PhaseOf("finish", wout'[w]) = "settled"
      BY <1>5, Phases
    <3> QED BY <1>3, <1>5, <3>1 DEF Holding
  <2>2. Board!Settle(w)
    BY <1>0, <1>4, <1>5, <2>1 DEF Board!Settle, Board!Move, SlotOf, PhasesOf, Attempts
  <2> QED BY <2>2 DEF Board!Next
<1>6. ASSUME NEW label \in Holding, wpc' = [wpc EXCEPT ![w] = label],
             PhasesOf[w] = PhaseOf(label, wout'[w]), UNCHANGED <<landed, completed>>
      PROVE  UNCHANGED Board!vars
  <2>1. SlotOf' = SlotOf /\ PhasesOf' = PhasesOf
    BY <1>3, <1>6 DEF PhasesOf
  <2> QED BY <1>0, <1>4, <1>6, <2>1 DEF Board!vars, SlotOf, PhasesOf, Attempts
<1>7. CASE Begin(w)
  <2>0. wpc[w] = "take" /\ UNCHANGED <<landed, completed, wout>>
    BY <1>7 DEF Begin, diskVars, cacheVars
  <2>1. CASE manager = "open"
    <3>1. wpc' = [wpc EXCEPT ![w] = "prepare"] /\ "prepare" \in Holding
      BY <1>7, <2>1 DEF Begin, Goto, Holding, Running
    <3>2. SlotOf' = SlotOf /\ PhasesOf' = [PhasesOf EXCEPT ![w] = "running"]
      BY <1>3, <3>1, Phases DEF Running
    <3>3. PhasesOf[w] = "taken"
      BY <1>2, <2>0, Phases
    <3>4. Board!Run(w)
      BY <1>0, <1>4, <2>0, <3>2, <3>3 DEF Board!Run, Board!Move, SlotOf, PhasesOf, Attempts
    <3> QED BY <3>4 DEF Board!Next
  <2>2. CASE manager # "open"
    <3>1. wpc' = [wpc EXCEPT ![w] = "finish"] /\ "finish" \in Holding
      BY <1>7, <2>2 DEF Begin, Goto, Holding
    <3>2. PhasesOf[w] = "taken" /\ PhaseOf("finish", wout'[w]) = "taken"
      BY <1>1, <1>2, <2>0, Phases
    <3> QED BY <1>6, <2>0, <3>1, <3>2
  <2> QED BY <2>1, <2>2
<1>8. ASSUME wpc[w] \in Running \ {"remember", "report"}, UNCHANGED <<landed, completed>>,
             \/ failAt(w)
             \/ \E label \in Running \ {"remember", "report"} :
                  wout' = wout /\ wpc' = [wpc EXCEPT ![w] = label]
      PROVE  Board!Next \/ UNCHANGED Board!vars
  <2>1. PhasesOf[w] = "running"
    BY <1>2, <1>8, Phases
  <2>2. CASE failAt(w)
    BY <1>0, <1>5, <1>8, <2>1, <2>2 DEF failAt, Goto, TypeOK
  <2>3. ASSUME NEW label \in Running \ {"remember", "report"},
               wout' = wout /\ wpc' = [wpc EXCEPT ![w] = label]
        PROVE  UNCHANGED Board!vars
    BY <1>6, <1>8, <2>1, <2>3, Phases DEF Holding
  <2> QED BY <1>8, <2>2, <2>3
<1>9. CASE Prepare(w) \/ Request(w) \/ Backoff(w) \/ CopyAborted(w) \/ Copy(w) \/ Verify(w)
           \/ Recheck(w)
  BY <1>8, <1>9 DEF Prepare, Request, Backoff, CopyAborted, Copy, Verify, Recheck, Goto, Running,
       diskVars, cacheVars
<1>10. CASE Publish(w)
  <2>0. wpc[w] = "publish" /\ UNCHANGED <<completed>> /\ PhasesOf[w] = "running"
    BY <1>2, <1>10, Phases DEF Publish, cacheVars, Running
  <2>1. CASE failAt(w) /\ UNCHANGED diskVars
    BY <1>0, <1>5, <2>0, <2>1 DEF failAt, Goto, TypeOK, diskVars
  <2>2. CASE wout' = wout /\ landed' = landed \cup {KeyOf(w)} /\ wpc' = [wpc EXCEPT ![w] = "remember"]
    <3>1. SlotOf' = SlotOf /\ PhasesOf' = [PhasesOf EXCEPT ![w] = "effected"]
      BY <1>3, <2>2, Phases DEF Holding, Running
    <3>2. Board!Effect(w)
      BY <1>0, <1>2, <1>4, <2>0, <2>2, <3>1 DEF Board!Effect, Board!Move, SlotOf, PhasesOf, Attempts
    <3> QED BY <3>2 DEF Board!Next
  <2> QED BY <1>10, <2>1, <2>2 DEF Publish, Goto, KeyOf
<1>11. CASE Remember(w)
  <2>0. /\ wpc[w] = "remember" /\ UNCHANGED <<landed, wout>> /\ remember(KeyOf(w))
        /\ wpc' = [wpc EXCEPT ![w] = "report"] /\ PhasesOf[w] = "effected"
    BY <1>2, <1>11, Phases DEF Remember, diskVars, Goto, KeyOf
  <2>1. SlotOf' = SlotOf /\ PhasesOf' = [PhasesOf EXCEPT ![w] = "effected"]
    BY <1>3, <2>0, Phases DEF Holding, Running
  <2>2. PhasesOf' = PhasesOf
    BY <2>0, <2>1 DEF PhasesOf
  <2>3. KeyOf(w) \in completed' /\ completed' \subseteq completed \cup {KeyOf(w)}
    BY <1>0, <1>1, <2>0, KeyType, RememberCache DEF IInv, Effects, KeyOf, WorkerControl, ControlOf
  <2>4. Board!Keep(w)
    BY <1>0, <1>2, <1>4, <2>0, <2>1, <2>2, <2>3 DEF Board!Keep, SlotOf, PhasesOf, Attempts
  <2> QED BY <2>4 DEF Board!Next
<1>12. CASE Report(w)
  <2>1. PhasesOf[w] = "effected" /\ UNCHANGED <<landed, completed>> /\ wout'[w] # "none"
        /\ wpc' = [wpc EXCEPT ![w] = "finish"]
    BY <1>0, <1>2, <1>12, Phases DEF Report, diskVars, cacheVars, Goto, TypeOK
  <2> QED BY <1>5, <2>1
<1> QED BY <1>7, <1>9, <1>10, <1>11, <1>12

\* finish(): the attempt leaves the board.
LEMMA StepFinish ==
  ASSUME IInv, NEW w \in Workers, Finish(w)
  PROVE  Board!Next
<1>0. /\ TypeOK /\ WorkerControl /\ wpc[w] = "finish"
      /\ UNCHANGED <<manager, jobs, landed, completed>>
  BY DEF IInv, Base, Finish, envVars, diskVars, cacheVars
<1>1. \A v \in Workers : /\ wpc'[v] = (IF v = w THEN "idle" ELSE wpc[v])
                         /\ wcmd'[v] = (IF v = w THEN NoCommand ELSE wcmd[v])
                         /\ v # w => wout'[v] = wout[v]
  BY <1>0 DEF Finish, Goto, TypeOK
<1>2. SlotOf' = [SlotOf EXCEPT ![w] = NoCommand]
  <2>1. SlotOf' = [v \in Workers |-> IF wpc'[v] \in Holding THEN commandAttemptKey(wcmd'[v])
                                                            ELSE NoCommand]
    BY DEF SlotOf, Held, KeyOf, commandAttemptKey
  <2>2. SlotOf = [v \in Workers |-> IF wpc[v] \in Holding THEN commandAttemptKey(wcmd[v])
                                                          ELSE NoCommand]
    BY DEF SlotOf, Held, KeyOf
  <2>3. \A v \in Workers :
          (IF wpc'[v] \in Holding THEN commandAttemptKey(wcmd'[v]) ELSE NoCommand)
          = IF v = w THEN NoCommand
            ELSE IF wpc[v] \in Holding THEN commandAttemptKey(wcmd[v]) ELSE NoCommand
    BY <1>1 DEF Holding, Running
  <2> QED BY <2>1, <2>2, <2>3
<1>3. PhasesOf' = [PhasesOf EXCEPT ![w] = "free"]
  <2>1. \A v \in Workers : PhaseOf(wpc'[v], wout'[v]) =
          IF v = w THEN "free" ELSE PhaseOf(wpc[v], wout[v])
    BY <1>1, Phases
  <2>2. PhasesOf' = [v \in Workers |-> PhaseOf(wpc'[v], wout'[v])]
    BY DEF PhasesOf, PhaseOf
  <2> QED BY <2>1, <2>2 DEF PhasesOf
<1>4. PhasesOf[w] = "settled" \/ (PhasesOf[w] = "taken" /\ manager # "open")
  BY <1>0, Phases DEF PhasesOf, WorkerControl, ControlOf
<1>5. Board!Leave(w)
  BY <1>0, <1>2, <1>3, <1>4 DEF Board!Leave, SlotOf, PhasesOf, commandAttemptKey
<1> QED BY <1>5 DEF Board!Next

\* The download manager is a job board: whatever the server sends, whatever
\* fails and whenever Close comes, a command is accepted once at a time and
\* never while its result is cached, its file is published before success is
\* reported, and Close returns with nothing queued or running.
THEOREM ManagerIsBoard == Spec => Board!Spec
<1>1. Init => Board!Init /\ Drained
  BY InitBoard DEF Init, Drained
<1>2. IInv /\ Drained /\ [Next]_vars => [Board!Next]_(Board!vars) /\ Drained'
  <2> SUFFICES ASSUME IInv, Drained, [Next]_vars
               PROVE  (Board!Next \/ UNCHANGED Board!vars) /\ Drained'
    OBVIOUS
  <2>1. Drained'
    BY StepDrained DEF IInv
  <2>2. CASE Close \/ CloseReturns
    BY <2>1, <2>2, StepClosing DEF Board!Next
  <2>3. CASE CancelRun \/ Reject \/ SubmitUndo \/ Reply \/ UNCHANGED vars
    BY <2>1, <2>3, Unseen DEF CancelRun, Reject, SubmitUndo, Reply, vars, envVars, workVars, diskVars, cacheVars
  <2>4. ASSUME NEW c \in Commands, Expire(c) PROVE UNCHANGED Board!vars
    BY <2>4, Unseen DEF Expire, workVars, diskVars, cacheVars
  <2> QED BY <2>1, <2>2, <2>3, <2>4, StepSubmit, StepTake, StepInner, StepFinish DEF Next, worker
<1> QED BY <1>1, <1>2, Inductive, PTL DEF Spec, Board!Spec
=============================================================================
