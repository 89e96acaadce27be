------------------------ MODULE AriaScheduler_proofs ------------------------
(***************************************************************************)
(* The Aria scheduler, for every number of shards, every batch and every   *)
(* number of RPC failures: its two barriers, what it installs, and the     *)
(* fallback phase on the shards that are through.                          *)
(*                                                                         *)
(* The barriers: a shard reports done after its coordinators are done, and *)
(* gets behind the first barrier with the reports of all shards, so that   *)
(* nothing is read or staged any more once one shard is there.  It reports *)
(* its conflicts once to every shard and gets behind the second barrier    *)
(* with the reports of all, so that all shards unite the same sets, and no *)
(* report is left that could come later.                                   *)
(*                                                                         *)
(* The installation: a transaction without conflicts reads nothing that an *)
(* earlier one writes, so that it computes from the snapshot what it would *)
(* compute behind the successes in front of it.                            *)
(*                                                                         *)
(* The fallback: it is a batch of LockingBatch, with the conflicts as its  *)
(* members, on the state that the successes leave; a shard that has not    *)
(* installed yet counts as one that has and has not begun.  What is proved *)
(* of LockingBatch is used through that instance.                          *)
(***************************************************************************)
EXTENDS AriaScheduler, Namespace_proofs

-----------------------------------------------------------------------------
(* The inductive invariant *)

\* What shards are in before and while they report that they are done.
BeforeDone == {"idle", "execution", "report_done", "done_barrier"}

Statuses == BeforeDone \cup {"report_failures", "failure_barrier", "install",
                             "waiting", "running", "done", "failed"}

BarrierType ==
    /\ batch \in Batches
    /\ status \in [Shards -> Statuses]
    /\ report_to \in [Shards -> SUBSET Shards]
    /\ DOMAIN local_failed = Shards /\ DOMAIN failed = Shards
    /\ coord \in [Txs -> {"none", "read", "execute", "stage", "ok", "err"}]
    /\ DOMAIN snapshot = Txs
    /\ done_reports \in [Shards -> SUBSET Shards]
    /\ DOMAIN failure_reports = Shards
    /\ stray_entries \subseteq Shards
    /\ pc \in [Shards -> [Txs -> {"none", "locks", "send", "collect", "ok", "err"}]]

\* A shard is behind the first barrier, and alive or in the fallback.
PastDone(s) == status[s] \notin BeforeDone \cup {"failed"}

InFallback(s) == \E i \in Txs : pc[s][i] # "none"

AllOk == \A i \in Txs : coord[i] = "ok"

\* The first barrier: the executor of a shard goes on when its coordinators are
\* done, and the reports of all shards let it pass.
DoneBarrier ==
    /\ \A i \in Txs : coord[i] # "none" => status[Home(i)] # "idle"
    /\ \A s \in Shards : status[s] \notin {"idle", "execution", "failed"} => CoordinatorsDone(s)
    /\ \A t \in Shards : \A u \in done_reports[t] : CoordinatorsDone(u)
    /\ \A s \in Shards : PastDone(s) \/ InFallback(s) => AllOk

\* As long as some coordinator is not done, nothing has been installed, and what
\* was read is what the batch found.
Snapshots ==
    /\ ~AllOk => \A k \in Keys : store[Owner[k]][k] = start[k]
    /\ SnapshotReads
    /\ \A i \in Txs : coord[i] \in {"none", "read"} =>
          DOMAIN snapshot[i] \subseteq ReadSet(batch[i]) /\ DOMAIN snapshot[i] # ReadSet(batch[i])

Reporters(t) == {r.from : r \in failure_reports[t]}

\* The second barrier: the reports are the final conflicts of their senders, each
\* of them is sent once, and a shard decides with the reports of all.
FailureBarrier ==
    /\ \A s \in Shards : status[s] \in {"report_done", "report_failures"} => report_to[s] # {}
    /\ \A t \in Shards : \A r \in failure_reports[t] :
          /\ r.from \in Shards /\ status[r.from] \notin BeforeDone
          /\ r.failed = local_failed[r.from]
          /\ status[r.from] = "report_failures" => t \notin report_to[r.from]
    /\ \A s \in Shards : Decided(s) =>
          /\ Shards \subseteq Reporters(s)
          /\ failed[s] = UNION {local_failed[u] : u \in Shards}

\* A coordinator executes on its whole read set and has somewhere to stage.
Staging ==
    /\ start \in State
    /\ targets \in [Txs -> SUBSET Shards]
    /\ \A i \in Txs : coord[i] \in {"execute", "stage"} => DOMAIN snapshot[i] = ReadSet(batch[i])
    /\ \A i \in Txs : coord[i] = "stage" => targets[i] # {}

BarrierInv == /\ BarrierType /\ Staging
              /\ DoneBarrier /\ Snapshots /\ FailureBarrier /\ NoStrayEntry

-----------------------------------------------------------------------------
(* Transactions *)

\* A position of the batch holds a transaction, its result shard is one of the
\* shards, and it reads keys.
LEMMA TxFacts ==
    ASSUME batch \in Batches, NEW i \in Txs
    PROVE  i \in Nat /\ batch[i] \in OrderedTx /\ Home(i) \in Shards /\ ReadSet(batch[i]) \subseteq Keys
<1>1. batch \in Seq(OrderedTx)
    BY AriaAssumption
<1>2. i \in Nat /\ batch[i] \in OrderedTx
    BY <1>1 DEF Txs
<1>3. batch[i].tx_id \in Nat /\ batch[i].op \in FsOp
    BY <1>2 DEF OrderedTx
<1>4. Home(i) \in Shards
    BY <1>3, RouterAssumption DEF Home, aria_result_shard, Shards
<1> QED BY <1>2, <1>3, <1>4, SetsInKeys DEF ReadSet

-----------------------------------------------------------------------------
(* The fallback, as the barriers see it *)

\* A step of the fallback phase, or of one of its failing RPCs.
FallbackStep ==
    /\ UNCHANGED <<start, optVars>>
    /\ \/ Fallback!TaskStep
       \/ \E s \in Shards, i \in Txs : Fallback!FailReadResult(s, i)

\* Workers of the fallback are spawned by a shard that was waiting for it.
SpawnedOnly(s) == InFallback(s)' => InFallback(s) \/ status[s] = "waiting"

\* How a step of the fallback moves the executors.
FallbackMoves(s) ==
    \/ status'[s] = status[s]
    \/ status[s] = "waiting" /\ status'[s] = "running"
    \/ status[s] = "running" /\ status'[s] \in {"done", "failed"}

\* Worker i of shard s moves on, and no other one.
LEMMA OneWorkerMoves ==
    ASSUME BarrierType, batch' = batch, NEW s \in Shards, NEW i \in Txs,
           NEW where \in {"send", "collect", "ok", "err"},
           pc[s][i] # "none", pc' = [pc EXCEPT ![s][i] = where]
    PROVE  /\ pc' \in [Shards -> [Txs' -> {"none", "locks", "send", "collect", "ok", "err"}]]
           /\ \A t \in Shards : SpawnedOnly(t)
<1>1. pc' \in [Shards -> [Txs' -> {"none", "locks", "send", "collect", "ok", "err"}]]
    BY DEF BarrierType, Txs
<1>2. \A t \in Shards, j \in Txs : pc'[t][j] # "none" => pc[t][j] # "none"
    BY DEF BarrierType
<1> QED BY <1>1, <1>2 DEF SpawnedOnly, InFallback, Txs

\* What a step of a worker moves: its own control, and neither executors nor other
\* workers.
LEMMA WorkerMoves ==
    ASSUME BarrierType, NEW s \in Shards, NEW i \in Txs,
           Fallback!Worker(s, i) \/ Fallback!FailReadResult(s, i)
    PROVE  /\ batch' = batch /\ status' = status
           /\ pc[s][i] # "none"
           /\ \/ pc' = pc
              \/ \E where \in {"send", "collect", "ok", "err"} :
                    pc' = [pc EXCEPT ![s][i] = where]
<1>1. CASE Fallback!AcquireAndRead(s, i)
    <2>1. pc' = [pc EXCEPT ![s][i] = "send"] \/ pc' = [pc EXCEPT ![s][i] = "collect"]
          \/ pc' = [pc EXCEPT ![s][i] = "ok"]
        BY <1>1 DEF Fallback!AcquireAndRead, Fallback!Goto, Fallback!AfterSend
    <2> QED BY <1>1, <2>1 DEF Fallback!AcquireAndRead, Fallback!history, Fallback!shardVars
<1>2. CASE Fallback!SendReadResult(s, i)
    <2>1. pc' = [pc EXCEPT ![s][i] = "send"] \/ pc' = [pc EXCEPT ![s][i] = "collect"]
          \/ pc' = [pc EXCEPT ![s][i] = "ok"] \/ pc' = [pc EXCEPT ![s][i] = "err"]
        BY <1>2 DEF Fallback!SendReadResult, Fallback!Goto, Fallback!AfterSend
    <2> QED BY <1>2, <2>1 DEF Fallback!SendReadResult, Fallback!history, Fallback!shardVars
<1>3. CASE Fallback!CollectReadResult(s, i)
    BY <1>3 DEF Fallback!CollectReadResult, Fallback!Goto, Fallback!history,
                Fallback!shardVars
<1>4. CASE Fallback!ExecuteAndApply(s, i)
    BY <1>4 DEF Fallback!ExecuteAndApply, Fallback!Goto, Fallback!history
<1>5. CASE Fallback!OrphanFails(s, i)
    BY <1>5 DEF Fallback!OrphanFails, Fallback!Goto, Fallback!history, Fallback!shardVars
<1>6. CASE Fallback!FailReadResult(s, i)
    BY <1>6 DEF Fallback!FailReadResult, Fallback!Goto, Fallback!history,
                Fallback!shardVars
<1> QED BY <1>1, <1>2, <1>3, <1>4, <1>5, <1>6 DEF Fallback!Worker

\* A step of the fallback leaves the optimistic phase as it is, moves executors
\* that are behind the barriers, and writes to stores only from its workers.
LEMMA FallbackEffect ==
    ASSUME BarrierType, FallbackStep
    PROVE  /\ UNCHANGED <<batch, start, optVars>>
           /\ status' \in [Shards -> Statuses]
           /\ pc' \in [Shards -> [Txs' -> {"none", "locks", "send", "collect", "ok", "err"}]]
           /\ \A s \in Shards : FallbackMoves(s) /\ SpawnedOnly(s)
           /\ store' # store => \E s \in Shards : InFallback(s)
<1> USE DEF Statuses, FallbackMoves
<1>1. UNCHANGED <<start, optVars>>
    BY DEF FallbackStep
<1>2. ASSUME NEW s \in Shards, Fallback!StartBatch(s)
      PROVE  /\ batch' = batch
             /\ status' \in [Shards -> Statuses]
             /\ pc' \in [Shards -> [Txs' -> {"none", "locks", "send", "collect", "ok", "err"}]]
             /\ \A t \in Shards : FallbackMoves(t) /\ SpawnedOnly(t)
             /\ store' = store
    <2>1. batch' = batch /\ store' = store
        BY <1>2 DEF Fallback!StartBatch, Fallback!history
    <2>2. /\ status[s] = "waiting"
          /\ status' = [status EXCEPT ![s] = "running"]
          /\ pc' = [pc EXCEPT ![s] =
                [i \in Txs |-> IF Fallback!Relevant(s, i) THEN "locks" ELSE "none"]]
        BY <1>2 DEF Fallback!StartBatch, Fallback!Txs, Txs
    <2>3. pc' \in [Shards -> [Txs' -> {"none", "locks", "send", "collect", "ok", "err"}]]
        BY <2>1, <2>2 DEF BarrierType, Txs
    <2>4. \A t \in Shards : t # s => pc'[t] = pc[t]
        BY <2>2 DEF BarrierType
    <2> QED BY <2>1, <2>2, <2>3, <2>4 DEF BarrierType, SpawnedOnly, InFallback, Txs
<1>3. ASSUME NEW s \in Shards, NEW i \in Txs, Fallback!CollectOutcome(s, i)
      PROVE  /\ batch' = batch
             /\ status' \in [Shards -> Statuses]
             /\ \A t \in Shards : FallbackMoves(t)
             /\ pc' = pc /\ store' = store
    BY <1>3 DEF Fallback!CollectOutcome, Fallback!history, Fallback!workVars, BarrierType
<1>4. ASSUME NEW s \in Shards, Fallback!FinishBatch(s)
      PROVE  /\ batch' = batch
             /\ status' \in [Shards -> Statuses]
             /\ \A t \in Shards : FallbackMoves(t)
             /\ pc' = pc /\ store' = store
    BY <1>4 DEF Fallback!FinishBatch, Fallback!history, Fallback!workVars, BarrierType
<1>5. ASSUME NEW s \in Shards, NEW i \in Txs,
             Fallback!Worker(s, i) \/ Fallback!FailReadResult(s, i)
      PROVE  /\ batch' = batch /\ status' = status
             /\ pc[s][i] # "none"
             /\ \/ pc' = pc
                \/ \E where \in {"send", "collect", "ok", "err"} :
                      pc' = [pc EXCEPT ![s][i] = where]
    BY <1>5, WorkerMoves
<1>6. batch' = batch /\ pc' = pc => \A t \in Shards : SpawnedOnly(t)
    BY DEF SpawnedOnly, InFallback, Txs
<1>7. CASE \E s \in Shards : Fallback!Coordinator(s)
    <2>1. PICK s \in Shards : \/ Fallback!StartBatch(s) \/ Fallback!FinishBatch(s)
                              \/ \E i \in Txs : Fallback!CollectOutcome(s, i)
        BY <1>7 DEF Fallback!Coordinator, Fallback!Txs, Txs
    <2>2. CASE Fallback!StartBatch(s)
        BY <1>1, <1>2, <2>2
    <2>3. CASE Fallback!FinishBatch(s) \/ \E i \in Txs : Fallback!CollectOutcome(s, i)
        <3>1. /\ batch' = batch
              /\ status' \in [Shards -> Statuses]
              /\ \A t \in Shards : FallbackMoves(t)
              /\ pc' = pc /\ store' = store
            BY <1>3, <1>4, <2>3
        <3> QED BY <1>1, <1>6, <3>1 DEF BarrierType, Txs
    <2> QED BY <2>1, <2>2, <2>3
<1>8. CASE \E s \in Shards, i \in Txs : Fallback!Worker(s, i) \/ Fallback!FailReadResult(s, i)
    <2>1. PICK s \in Shards, i \in Txs : Fallback!Worker(s, i) \/ Fallback!FailReadResult(s, i)
        BY <1>8
    <2>2. /\ batch' = batch /\ status' = status
          /\ pc[s][i] # "none"
          /\ \/ pc' = pc
             \/ \E where \in {"send", "collect", "ok", "err"} :
                   pc' = [pc EXCEPT ![s][i] = where]
        BY <2>1, <1>5
    <2>3. InFallback(s)
        BY <2>2 DEF InFallback
    <2>4. /\ pc' \in [Shards -> [Txs' -> {"none", "locks", "send", "collect", "ok", "err"}]]
          /\ \A t \in Shards : SpawnedOnly(t)
        <3>1. CASE pc' = pc
            BY <3>1, <2>2, <1>6 DEF BarrierType, Txs
        <3>2. CASE pc' # pc
            BY <3>2, <2>2, OneWorkerMoves
        <3> QED BY <3>1, <3>2
    <2> QED BY <1>1, <2>2, <2>3, <2>4 DEF BarrierType
<1>9. \/ \E s \in Shards : Fallback!Coordinator(s)
      \/ \E s \in Shards, i \in Txs : Fallback!Worker(s, i) \/ Fallback!FailReadResult(s, i)
    BY DEF FallbackStep, Fallback!TaskStep, Fallback!Txs, Txs, Fallback!Shards, Shards
<1> QED BY <1>7, <1>8, <1>9

\* The invariant does not look at the rest of the fallback.
LEMMA FallbackKeepsBarriers ==
    ASSUME BarrierInv, FallbackStep
    PROVE  BarrierInv'
<1> USE DEF BarrierInv
<1>1. /\ UNCHANGED <<batch, start, optVars>>
      /\ status' \in [Shards -> Statuses]
      /\ pc' \in [Shards -> [Txs' -> {"none", "locks", "send", "collect", "ok", "err"}]]
      /\ \A s \in Shards : FallbackMoves(s) /\ SpawnedOnly(s)
      /\ store' # store => \E s \in Shards : InFallback(s)
    BY FallbackEffect
<1>2. /\ UNCHANGED <<batch, start, report_to, local_failed, failed, coord, snapshot,
                     done_reports, failure_reports, stray_entries>>
      /\ Txs' = Txs
    BY <1>1 DEF optVars, coordVars, entryVars, Txs
<1>3. BarrierType'
    BY <1>1, <1>2 DEF BarrierType
<1>4. \A s \in Shards : PastDone(s)' \/ InFallback(s)' => PastDone(s) \/ InFallback(s)
    BY <1>1 DEF FallbackMoves, SpawnedOnly, PastDone, BeforeDone
<1>5. DoneBarrier'
    <2>1. \A i \in Txs : Home(i)' = Home(i)
        BY <1>2 DEF Home
    <2>2. \A s \in Shards : CoordinatorsDone(s)' = CoordinatorsDone(s)
        BY <1>2, <2>1 DEF CoordinatorsDone
    <2>3. AllOk' = AllOk
        BY <1>2 DEF AllOk
    <2>4. \A i \in Txs : Home(i) \in Shards
        BY TxFacts DEF BarrierType
    <2>5. \A i \in Txs : (coord[i] # "none" => status[Home(i)] # "idle")'
        BY <1>1, <1>2, <2>1, <2>4 DEF DoneBarrier, FallbackMoves
    <2>6. \A s \in Shards : (status[s] \notin {"idle", "execution", "failed"} => CoordinatorsDone(s))'
        BY <1>1, <2>2 DEF DoneBarrier, FallbackMoves
    <2>7. \A t \in Shards : \A u \in done_reports'[t] : CoordinatorsDone(u)'
        BY <1>2, <2>2 DEF DoneBarrier, BarrierType
    <2>8. \A s \in Shards : PastDone(s)' \/ InFallback(s)' => AllOk'
        BY <1>4, <2>3 DEF DoneBarrier
    <2> QED BY <1>2, <2>5, <2>6, <2>7, <2>8 DEF DoneBarrier
<1>6. Snapshots'
    <2>1. ~AllOk' => store' = store
        BY <1>1, <1>2 DEF DoneBarrier, AllOk
    <2> QED BY <1>2, <2>1 DEF Snapshots, SnapshotReads, AllOk
<1>7. FailureBarrier'
    <2>1. \A s \in Shards : Decided(s)' => Decided(s)
        BY <1>1 DEF Decided, Installed, FallbackMoves
    <2>2. \A s \in Shards : Reporters(s)' = Reporters(s)
        BY <1>2 DEF Reporters
    <2>3. \A s \in Shards : /\ status'[s] = "report_failures" => status[s] = "report_failures"
                            /\ status'[s] = "report_done" => status[s] = "report_done"
                            /\ status[s] \notin BeforeDone => status'[s] \notin BeforeDone
        BY <1>1 DEF FallbackMoves, BeforeDone
    <2>4. \A t \in Shards : \A r \in failure_reports'[t] :
              /\ r.from \in Shards /\ status'[r.from] \notin BeforeDone
              /\ r.failed = local_failed'[r.from]
              /\ status'[r.from] = "report_failures" => t \notin report_to'[r.from]
        BY <1>2, <2>3 DEF FailureBarrier
    <2> QED BY <1>2, <2>1, <2>2, <2>3, <2>4 DEF FailureBarrier
<1>8. NoStrayEntry'
    BY <1>1, <1>2 DEF NoStrayEntry, FallbackMoves, BarrierType
<1>9. Staging'
    BY <1>1, <1>2 DEF Staging, optVars, coordVars
<1> QED BY <1>3, <1>5, <1>6, <1>7, <1>8, <1>9

-----------------------------------------------------------------------------
(* The optimistic phase *)

\* An operation on a registry entry leaves a stray one only at a shard that has
\* ended.
LEMMA TouchEffect ==
    ASSUME NEW t \in Shards, Touch(t)
    PROVE  \A s \in stray_entries' : s \in stray_entries \/ (s = t /\ Ended(t))
BY DEF Touch

\* As long as a coordinator is not done no shard is done, so that its reads and
\* writes find the entries of live shards.
LEMMA CoordinatorKeepsBarriers ==
    ASSUME BarrierInv, NEW i \in Txs, coord[i] \in {"read", "execute", "stage"},
           NEW where \in {"read", "execute", "stage", "ok", "err"},
           coord' = [coord EXCEPT ![i] = where],
           UNCHANGED <<batch, status, report_to, local_failed, failed,
                       done_reports, failure_reports, pc>>,
           DOMAIN snapshot' = Txs,
           \/ stray_entries' = stray_entries
           \/ \E t \in Shards : Touch(t)
    PROVE  BarrierType' /\ DoneBarrier' /\ FailureBarrier' /\ NoStrayEntry'
<1> USE DEF BarrierInv
<1>1. Txs' = Txs /\ \A j \in Txs : Home(j)' = Home(j)
    BY DEF Txs, Home
<1>2. ~AllOk
    BY DEF AllOk
<1>3. \A s \in Shards : ~PastDone(s) /\ ~InFallback(s)
    BY <1>2 DEF DoneBarrier
<1>4. \A s \in stray_entries' : s \in stray_entries \/ (s \in Shards /\ Ended(s))
    BY TouchEffect
<1>5. NoStrayEntry'
    <2>1. \A s \in Shards : status[s] # "done"
        BY <1>3 DEF PastDone, BeforeDone
    <2> QED BY <1>4, <2>1 DEF NoStrayEntry, Ended
<1>6. BarrierType'
    BY <1>1, <1>4 DEF BarrierType
<1>7. \A j \in Txs : /\ coord[j] = "ok" => coord'[j] = "ok"
                     /\ coord'[j] # "none" => coord[j] # "none"
    BY DEF BarrierType
<1>8. \A s \in Shards : CoordinatorsDone(s) => CoordinatorsDone(s)'
    BY <1>1, <1>7 DEF CoordinatorsDone
<1>9. \A s \in Shards : ~PastDone(s)' /\ ~InFallback(s)'
    BY <1>1, <1>3 DEF PastDone, InFallback
<1>10. DoneBarrier'
    <2>1. \A j \in Txs : (coord[j] # "none" => status[Home(j)] # "idle")'
        BY <1>1, <1>7 DEF DoneBarrier
    <2>2. \A s \in Shards : (status[s] \notin {"idle", "execution", "failed"} => CoordinatorsDone(s))'
        BY <1>8 DEF DoneBarrier
    <2>3. \A t \in Shards : \A u \in done_reports'[t] : CoordinatorsDone(u)'
        BY <1>8 DEF DoneBarrier, BarrierType
    <2> QED BY <1>1, <1>9, <2>1, <2>2, <2>3 DEF DoneBarrier
<1>11. FailureBarrier'
    BY DEF FailureBarrier, Decided, Installed, Reporters
<1> QED BY <1>5, <1>6, <1>10, <1>11

\* A coordinator reads what the batch found.
LEMMA ReadKeepsBarriers ==
    ASSUME BarrierInv, NEW i \in Txs, ReadSnapshot(i), UNCHANGED pc
    PROVE  BarrierInv'
<1> USE DEF BarrierInv
<1> DEFINE k == NextKey(i)
<1>1. k \in ReadSet(batch[i]) /\ k \notin DOMAIN snapshot[i]
    BY DEF NextKey, Snapshots, ReadSnapshot
<1>2. k \in Keys /\ Owner[k] \in Shards
    BY <1>1, TxFacts, RouterAssumption DEF BarrierType
<1> HIDE DEF k
<1>3. /\ snapshot' = [snapshot EXCEPT ![i] =
             [l \in DOMAIN snapshot[i] \cup {k} |->
                 IF l = k THEN store[Owner[k]][k] ELSE snapshot[i][l]]]
      /\ Touch(Owner[k])
    BY DEF ReadSnapshot, k
<1>4. /\ DOMAIN snapshot' = Txs
      /\ DOMAIN snapshot'[i] = DOMAIN snapshot[i] \cup {k}
      /\ snapshot'[i][k] = store[Owner[k]][k]
      /\ \A l \in DOMAIN snapshot[i] : snapshot'[i][l] = snapshot[i][l]
      /\ \A j \in Txs : j # i => snapshot'[j] = snapshot[j]
    BY <1>1, <1>3 DEF BarrierType
<1>5. /\ coord[i] = "read"
      /\ coord' = IF DOMAIN snapshot'[i] = ReadSet(batch[i])
                  THEN [coord EXCEPT ![i] = "execute"] ELSE coord
      /\ UNCHANGED <<batch, start, store, status, report_to, local_failed, failed,
                     done_reports, failure_reports>>
    BY DEF ReadSnapshot, history, shardVars
<1>6. coord' = [coord EXCEPT ![i] = IF DOMAIN snapshot'[i] = ReadSet(batch[i])
                                    THEN "execute" ELSE "read"]
    BY <1>5 DEF BarrierType
<1>7. BarrierType' /\ DoneBarrier' /\ FailureBarrier' /\ NoStrayEntry'
    <2>1. CASE DOMAIN snapshot'[i] = ReadSet(batch[i])
        BY <1>2, <1>3, <1>4, <1>5, <1>6, <2>1, CoordinatorKeepsBarriers
    <2>2. CASE DOMAIN snapshot'[i] # ReadSet(batch[i])
        BY <1>2, <1>3, <1>4, <1>5, <1>6, <2>2, CoordinatorKeepsBarriers
    <2> QED BY <2>1, <2>2
<1>8. Snapshots'
    <2>1. ~AllOk /\ Txs' = Txs
        BY <1>5 DEF AllOk, Txs
    <2>2. \A l \in Keys : store[Owner[l]][l] = start[l]
        BY <2>1 DEF Snapshots
    <2>3. SnapshotReads'
        BY <1>2, <1>4, <1>5, <2>1, <2>2 DEF SnapshotReads, Snapshots
    <2>4. \A j \in Txs : coord'[j] \in {"none", "read"} =>
              /\ DOMAIN snapshot'[j] \subseteq ReadSet(batch'[j])
              /\ DOMAIN snapshot'[j] # ReadSet(batch'[j])
        BY <1>1, <1>4, <1>5, <1>6 DEF Snapshots, BarrierType
    <2> QED BY <1>5, <2>1, <2>2, <2>3, <2>4 DEF Snapshots
<1>9. Staging'
    <2>1. Txs' = Txs /\ targets' = targets
        BY <1>5 DEF Txs, ReadSnapshot
    <2> QED BY <1>4, <1>5, <1>6, <2>1 DEF Staging, BarrierType
<1> QED BY <1>7, <1>8, <1>9

\* The next shard to stage at is one of those that are left.
LEMMA TargetIsShard ==
    ASSUME Staging, NEW i \in Txs, coord[i] = "stage"
    PROVE  Min(targets[i]) \in targets[i] /\ Min(targets[i]) \in Shards
<1>1. targets[i] \subseteq Nat /\ targets[i] # {} /\ targets[i] \subseteq Shards
    BY RouterAssumption DEF Staging, Shards
<1> QED BY <1>1, MinIsLeast

\* A transaction executed on its snapshot has an outcome that its write set
\* allows.
LEMMA SnapshotOutcome ==
    ASSUME BarrierType, Staging, SnapshotReads, NEW i \in Txs,
           DOMAIN snapshot[i] = ReadSet(batch[i])
    PROVE  OutputOf(i) \in Outcome(WriteSet(batch[i]))
<1>1. batch[i].op \in FsOp /\ ReadSet(batch[i]) \subseteq Keys
    BY TxFacts DEF OrderedTx, BarrierType
<1>2. \A k \in ReadSet(batch[i]) : snapshot[i][k] \in ReadValue
    BY <1>1 DEF SnapshotReads, Staging, State
<1> QED BY <1>1, <1>2, WritesStayInWriteSet DEF OutputOf, ReadSet, WriteSet

\* Its writes have owners.
LEMMA WriteOwnersAreShards ==
    ASSUME BarrierType, Staging, SnapshotReads, NEW i \in Txs,
           DOMAIN snapshot[i] = ReadSet(batch[i])
    PROVE  WriteOwners(i) \subseteq Shards
<1>1. OutputOf(i) \in Outcome(WriteSet(batch[i]))
    BY SnapshotOutcome
<1>2. WriteSet(batch[i]) \subseteq Keys
    BY TxFacts, SetsInKeys DEF OrderedTx, BarrierType, WriteSet
<1>3. OutputOf(i).writes \in Seq([key : WriteSet(batch[i]), value : ReadValue])
    BY <1>1 DEF Outcome, Writes
<1>4. \A w \in DOMAIN OutputOf(i).writes : OutputOf(i).writes[w].key \in WriteSet(batch[i])
    <2> DEFINE ws == OutputOf(i).writes
    <2> HIDE DEF ws
    <2>1. \A w \in DOMAIN ws : ws[w] \in [key : WriteSet(batch[i]), value : ReadValue]
        BY <1>3, ElementType DEF ws
    <2> QED BY <2>1 DEF ws
<1> QED BY <1>2, <1>4, RouterAssumption DEF WriteOwners

\* The other steps of a coordinator read nothing.
LEMMA StageKeepsBarriers ==
    ASSUME BarrierInv, NEW i \in Txs, ExecuteTx(i) \/ StageOutcome(i) \/ FailCoordinator(i),
           UNCHANGED pc
    PROVE  BarrierInv'
<1> USE DEF BarrierInv
<1>1. UNCHANGED <<batch, start, store, status, report_to, local_failed, failed,
                  done_reports, failure_reports, snapshot>>
    BY DEF ExecuteTx, StageOutcome, FailCoordinator, history, shardVars, entryVars
<1>2. coord[i] \in {"read", "execute", "stage"}
    BY DEF ExecuteTx, StageOutcome, FailCoordinator
<1>3. coord' = [coord EXCEPT ![i] = "stage"] \/ coord' = [coord EXCEPT ![i] = "ok"]
      \/ coord' = [coord EXCEPT ![i] = "err"]
    BY DEF ExecuteTx, StageOutcome, FailCoordinator, BarrierType
<1>4. stray_entries' = stray_entries \/ \E t \in Shards : Touch(t)
    <2>1. CASE ExecuteTx(i)
        BY <2>1 DEF ExecuteTx
    <2>2. CASE StageOutcome(i)
        BY <2>2, TargetIsShard DEF StageOutcome, Stage
    <2>3. CASE FailCoordinator(i)
        <3>1. coord[i] = "read" => NextKey(i) \in ReadSet(batch[i])
            BY DEF NextKey, Snapshots
        <3>2. coord[i] = "read" => Owner[NextKey(i)] \in Shards
            BY <3>1, TxFacts, RouterAssumption DEF BarrierType
        <3> QED BY <2>3, <3>2, TargetIsShard DEF FailCoordinator, Stage
    <2> QED BY <2>1, <2>2, <2>3
<1>5. BarrierType' /\ DoneBarrier' /\ FailureBarrier' /\ NoStrayEntry'
    <2>1. DOMAIN snapshot' = Txs
        BY <1>1 DEF BarrierType
    <2> QED BY <1>1, <1>2, <1>3, <1>4, <2>1, CoordinatorKeepsBarriers
<1>6. Snapshots'
    <2>1. ~AllOk /\ Txs' = Txs
        BY <1>1, <1>2 DEF AllOk, Txs
    <2>2. \A j \in Txs : coord'[j] \in {"none", "read"} => coord[j] \in {"none", "read"}
        BY <1>2, <1>3 DEF BarrierType
    <2> QED BY <1>1, <2>1, <2>2 DEF Snapshots, SnapshotReads
<1>7. Staging'
    <2>1. CASE ExecuteTx(i)
        <3>1. targets' = [targets EXCEPT ![i] = WriteOwners(i) \cup {Home(i)}]
              /\ coord' = [coord EXCEPT ![i] = "stage"]
            BY <2>1 DEF ExecuteTx
        <3>2. Txs' = Txs /\ coord[i] = "execute"
            BY <1>1, <2>1 DEF Txs, ExecuteTx
        <3>3. WriteOwners(i) \cup {Home(i)} \subseteq Shards
            BY <3>2, WriteOwnersAreShards, TxFacts DEF BarrierType, Staging, Snapshots
        <3> QED BY <1>1, <3>1, <3>2, <3>3 DEF Staging, BarrierType
    <2>2. CASE StageOutcome(i)
        <3>1. /\ targets' = [targets EXCEPT ![i] = @ \ {Min(targets[i])}]
              /\ coord[i] = "stage"
              /\ coord' = IF targets[i] = {Min(targets[i])} THEN [coord EXCEPT ![i] = "ok"]
                          ELSE coord
            BY <2>2 DEF StageOutcome
        <3>2. Txs' = Txs /\ Min(targets[i]) \in targets[i]
            BY <1>1, <3>1, TargetIsShard DEF Txs
        <3> QED BY <1>1, <3>1, <3>2 DEF Staging, BarrierType
    <2>3. CASE FailCoordinator(i)
        <3>1. coord' = [coord EXCEPT ![i] = "err"] /\ targets' = targets
            BY <2>3 DEF FailCoordinator
        <3> QED BY <1>1, <3>1 DEF Staging, BarrierType, Txs
    <2> QED BY <2>1, <2>2, <2>3
<1> QED BY <1>5, <1>6, <1>7

\* The rest of the invariant, for the steps of an executor that leave reads,
\* stores and coordinators alone.
LEMMA SnapshotsKept ==
    ASSUME BarrierInv, UNCHANGED <<batch, start, store, coord, snapshot, targets>>
    PROVE  Snapshots' /\ Staging'
BY DEF BarrierInv, Snapshots, SnapshotReads, Staging, AllOk, Txs

\* StartBatch starts coordinators that had not been started.
LEMMA StartKeepsBarriers ==
    ASSUME BarrierInv, NEW s \in Shards, StartBatch(s), UNCHANGED pc
    PROVE  BarrierInv'
<1> USE DEF BarrierInv
<1>1. /\ UNCHANGED <<batch, start, store, report_to, local_failed, failed, snapshot, targets,
                     done_reports, failure_reports, stray_entries>>
      /\ status[s] = "idle"
      /\ status' = [status EXCEPT ![s] = "execution"]
      /\ coord' = [i \in Txs |-> IF Home(i) = s THEN "read" ELSE coord[i]]
    BY DEF StartBatch, Goto, history, entryVars
<1>2. Txs' = Txs /\ \A j \in Txs : Home(j)' = Home(j)
    BY <1>1 DEF Txs, Home
<1>3. \A i \in Txs : coord[i] # "none" => coord'[i] = coord[i]
    BY <1>1 DEF DoneBarrier
<1>4. BarrierType'
    BY <1>1, <1>2 DEF BarrierType, Statuses, BeforeDone
<1>5. \A u \in Shards : CoordinatorsDone(u) => CoordinatorsDone(u)'
    BY <1>2, <1>3 DEF CoordinatorsDone
<1>6. AllOk => AllOk'
    BY <1>2, <1>3 DEF AllOk
<1>7. AllOk' => AllOk
    BY <1>1, <1>2 DEF AllOk
<1>8. DoneBarrier'
    <2>1. \A i \in Txs : (coord[i] # "none" => status[Home(i)] # "idle")'
        BY <1>1, <1>2, TxFacts DEF DoneBarrier, BarrierType
    <2>2. \A u \in Shards : (status[u] \notin {"idle", "execution", "failed"} => CoordinatorsDone(u))'
        BY <1>1, <1>5 DEF DoneBarrier, BarrierType
    <2>3. \A t \in Shards : \A u \in done_reports'[t] : CoordinatorsDone(u)'
        BY <1>1, <1>5 DEF DoneBarrier, BarrierType
    <2>4. \A u \in Shards : PastDone(u)' \/ InFallback(u)' => PastDone(u) \/ InFallback(u)
        BY <1>1, <1>2 DEF PastDone, InFallback, BeforeDone, BarrierType
    <2> QED BY <1>2, <1>6, <2>1, <2>2, <2>3, <2>4 DEF DoneBarrier
<1>9. Snapshots' /\ Staging'
    <2>1. \A i \in Txs : coord'[i] # coord[i] => coord[i] = "none" /\ coord'[i] = "read"
        BY <1>1, <1>3
    <2>2. Snapshots'
        BY <1>1, <1>2, <1>6, <1>7, <2>1 DEF Snapshots, SnapshotReads
    <2>3. Staging'
        BY <1>1, <1>2, <2>1 DEF Staging
    <2> QED BY <2>2, <2>3
<1>10. FailureBarrier' /\ NoStrayEntry'
    BY <1>1 DEF FailureBarrier, Decided, Installed, Reporters, BeforeDone, NoStrayEntry, BarrierType
<1> QED BY <1>4, <1>8, <1>9, <1>10

\* The first barrier, when coordinators do not move and executors get behind it
\* only with all reports.
LEMMA DoneBarrierKept ==
    ASSUME BarrierInv, UNCHANGED <<batch, coord, pc>>,
           \A u \in Shards : status'[u] = "idle" => status[u] = "idle",
           \A u \in Shards : status'[u] \notin {"idle", "execution", "failed"} => CoordinatorsDone(u),
           \A t \in Shards : \A u \in done_reports'[t] : CoordinatorsDone(u),
           \A u \in Shards : PastDone(u)' => AllOk
    PROVE  DoneBarrier'
<1> USE DEF BarrierInv
<1>1. Txs' = Txs /\ \A j \in Txs : Home(j)' = Home(j)
    BY DEF Txs, Home
<1>2. \A u : CoordinatorsDone(u)' = CoordinatorsDone(u)
    BY <1>1 DEF CoordinatorsDone
<1>3. AllOk' = AllOk /\ \A u \in Shards : InFallback(u)' = InFallback(u)
    BY <1>1 DEF AllOk, InFallback
<1>4. \A i \in Txs : (coord[i] # "none" => status[Home(i)] # "idle")'
    BY <1>1, TxFacts DEF DoneBarrier, BarrierType
<1> QED BY <1>1, <1>2, <1>3, <1>4 DEF DoneBarrier

\* The coordinators of a shard are in, or have failed.
LEMMA CollectKeepsBarriers ==
    ASSUME BarrierInv, NEW s \in Shards, CollectCoordinators(s), UNCHANGED pc
    PROVE  BarrierInv'
<1> USE DEF BarrierInv
<1>1. /\ UNCHANGED <<batch, start, store, coord, snapshot, targets, local_failed, failed,
                     done_reports, failure_reports, stray_entries>>
      /\ status[s] = "execution"
      /\ \/ /\ CoordinatorsDone(s)
            /\ status' = [status EXCEPT ![s] = "report_done"]
            /\ report_to' = [report_to EXCEPT ![s] = Shards]
         \/ /\ status' = [status EXCEPT ![s] = "failed"]
            /\ report_to' = report_to
    BY DEF CollectCoordinators, Goto, history, entryVars, coordVars
<1>2. BarrierType'
    BY <1>1 DEF BarrierType, Statuses, BeforeDone, Txs
<1>3. DoneBarrier'
    <2>1. \A u \in Shards : status'[u] \notin {"idle", "execution", "failed"} => CoordinatorsDone(u)
        BY <1>1 DEF BarrierType, DoneBarrier
    <2>2. \A t \in Shards : \A u \in done_reports'[t] : CoordinatorsDone(u)
        BY <1>1 DEF DoneBarrier
    <2>3. \A u \in Shards : PastDone(u)' => PastDone(u)
        BY <1>1 DEF BarrierType, PastDone, BeforeDone
    <2>4. \A u \in Shards : status'[u] = "idle" => status[u] = "idle"
        BY <1>1 DEF BarrierType
    <2>5. \A u \in Shards : PastDone(u)' => AllOk
        BY <2>3 DEF DoneBarrier
    <2> QED BY <1>1, <2>1, <2>2, <2>4, <2>5, DoneBarrierKept
<1>4. Snapshots' /\ Staging'
    BY <1>1, SnapshotsKept
<1>5. FailureBarrier'
    <2>1. \A u \in Shards : Decided(u)' => Decided(u)
        BY <1>1 DEF Decided, Installed, BarrierType
    <2>2. \A u \in Shards : Reporters(u)' = Reporters(u)
        BY <1>1 DEF Reporters
    <2>3. \A u \in Shards : status'[u] \in {"report_done", "report_failures"} => report_to'[u] # {}
        BY <1>1 DEF BarrierType, FailureBarrier
    <2>4. \A t \in Shards : \A r \in failure_reports'[t] : r.from # s
        BY <1>1 DEF FailureBarrier, BeforeDone
    <2>5. \A t \in Shards : \A r \in failure_reports'[t] :
              /\ r.from \in Shards /\ status'[r.from] \notin BeforeDone
              /\ r.failed = local_failed'[r.from]
              /\ status'[r.from] = "report_failures" => t \notin report_to'[r.from]
        BY <1>1, <2>4 DEF FailureBarrier, BarrierType
    <2> QED BY <1>1, <2>1, <2>2, <2>3, <2>5 DEF FailureBarrier
<1>6. NoStrayEntry'
    BY <1>1 DEF NoStrayEntry, BarrierType
<1> QED BY <1>2, <1>3, <1>4, <1>5, <1>6

\* Waiting changes nothing that matters.
LEMMA WaitKeepsBarriers ==
    ASSUME BarrierInv, NEW s \in Shards, KeepWaiting(s) \/ Notified(s), UNCHANGED pc
    PROVE  BarrierInv'
<1>1. UNCHANGED <<batch, start, store, status, report_to, local_failed, failed,
                  coord, snapshot, targets, done_reports, failure_reports, stray_entries, pc>>
    BY DEF KeepWaiting, Notified, history, shardVars, coordVars, entryVars
<1>2. Txs' = Txs
    BY <1>1 DEF Txs
<1>3. BarrierType' /\ NoStrayEntry'
    BY <1>1, <1>2 DEF BarrierInv, BarrierType, NoStrayEntry
<1>4. DoneBarrier'
    BY <1>1, <1>2 DEF BarrierInv, DoneBarrier, CoordinatorsDone, PastDone, InFallback, AllOk, Home
<1>5. FailureBarrier'
    BY <1>1 DEF BarrierInv, FailureBarrier, Decided, Installed, Reporters
<1> QED BY <1>1, <1>3, <1>4, <1>5, SnapshotsKept DEF BarrierInv

\* Behind the first barrier every coordinator is done.
LEMMA AllReportedIsAllOk ==
    ASSUME BarrierType, DoneBarrier, NEW s \in Shards, Shards \subseteq done_reports[s]
    PROVE  AllOk
BY TxFacts DEF BarrierType, DoneBarrier, CoordinatorsDone, AllOk

\* A shard passes the first barrier.
LEMMA PassDoneKeepsBarriers ==
    ASSUME BarrierInv, NEW s \in Shards, PassDoneBarrier(s), UNCHANGED pc
    PROVE  BarrierInv'
<1> USE DEF BarrierInv
<1>1. /\ UNCHANGED <<batch, start, store, coord, snapshot, targets, failed,
                     done_reports, failure_reports, stray_entries>>
      /\ status[s] = "done_barrier"
      /\ Shards \subseteq done_reports[s]
      /\ status' = [status EXCEPT ![s] = "report_failures"]
      /\ report_to' = [report_to EXCEPT ![s] = Shards]
      /\ local_failed' = [local_failed EXCEPT ![s] = LocalFailedIndices(s)]
    BY DEF PassDoneBarrier, Goto, HasAllReports, Reported, history, entryVars, coordVars
<1>2. AllOk
    BY <1>1, AllReportedIsAllOk
<1>3. BarrierType'
    BY <1>1 DEF BarrierType, Statuses, BeforeDone, Txs
<1>4. DoneBarrier'
    <2>1. \A u \in Shards : status'[u] \notin {"idle", "execution", "failed"} => CoordinatorsDone(u)
        BY <1>1 DEF BarrierType, DoneBarrier
    <2>2. \A t \in Shards : \A u \in done_reports'[t] : CoordinatorsDone(u)
        BY <1>1 DEF DoneBarrier
    <2>3. \A u \in Shards : status'[u] = "idle" => status[u] = "idle"
        BY <1>1 DEF BarrierType
    <2> QED BY <1>1, <1>2, <2>1, <2>2, <2>3, DoneBarrierKept
<1>5. Snapshots' /\ Staging'
    BY <1>1, SnapshotsKept
<1>6. FailureBarrier'
    <2>1. \A u \in Shards : Decided(u)' => Decided(u)
        BY <1>1 DEF Decided, Installed, BarrierType
    <2>2. \A u \in Shards : Reporters(u)' = Reporters(u)
        BY <1>1 DEF Reporters
    <2>3. \A u \in Shards : status'[u] \in {"report_done", "report_failures"} => report_to'[u] # {}
        BY <1>1 DEF BarrierType, FailureBarrier
    <2>4. \A t \in Shards : \A r \in failure_reports'[t] : r.from # s
        BY <1>1 DEF FailureBarrier, BeforeDone
    <2>5. \A t \in Shards : \A r \in failure_reports'[t] :
              /\ r.from \in Shards /\ status'[r.from] \notin BeforeDone
              /\ r.failed = local_failed'[r.from]
              /\ status'[r.from] = "report_failures" => t \notin report_to'[r.from]
        BY <1>1, <2>4 DEF FailureBarrier, BarrierType
    <2>6. \A u \in Shards : ~Decided(u)
        <3>1. SUFFICES ASSUME NEW u \in Shards, Decided(u) PROVE FALSE
            OBVIOUS
        <3>2. s \in Reporters(u)
            BY <3>1 DEF FailureBarrier
        <3> QED BY <3>2, <2>4, <1>1 DEF Reporters
    <2> QED BY <1>1, <2>1, <2>2, <2>3, <2>5, <2>6 DEF FailureBarrier
<1>7. NoStrayEntry'
    BY <1>1 DEF NoStrayEntry, BarrierType
<1> QED BY <1>3, <1>4, <1>5, <1>6, <1>7

\* A shard passes the second barrier: it unites the conflicts of all shards.
LEMMA PassFailureKeepsBarriers ==
    ASSUME BarrierInv, NEW s \in Shards, PassFailureBarrier(s), UNCHANGED pc
    PROVE  BarrierInv'
<1> USE DEF BarrierInv
<1>1. /\ UNCHANGED <<batch, start, store, coord, snapshot, targets, local_failed, report_to,
                     done_reports, failure_reports, stray_entries>>
      /\ status[s] = "failure_barrier"
      /\ Shards \subseteq Reporters(s)
      /\ status' = [status EXCEPT ![s] = "install"]
      /\ failed' = [failed EXCEPT ![s] = UNION {r.failed : r \in failure_reports[s]}]
    BY DEF PassFailureBarrier, Goto, HasAllReports, Reported, Reporters, history, entryVars, coordVars
<1>2. UNION {r.failed : r \in failure_reports[s]} = UNION {local_failed[u] : u \in Shards}
    <2>1. \A r \in failure_reports[s] : r.from \in Shards /\ r.failed = local_failed[r.from]
        BY DEF FailureBarrier
    <2>2. \A u \in Shards : \E r \in failure_reports[s] : r.from = u
        BY <1>1 DEF Reporters
    <2>3. \A u \in Shards : \E r \in failure_reports[s] : r.failed = local_failed[u]
        BY <2>1, <2>2
    <2>4. {r.failed : r \in failure_reports[s]} = {local_failed[u] : u \in Shards}
        BY <2>1, <2>3
    <2> QED BY <2>4
<1>3. BarrierType'
    BY <1>1 DEF BarrierType, Statuses, BeforeDone, Txs
<1>4. DoneBarrier'
    <2>1. \A u \in Shards : status'[u] \notin {"idle", "execution", "failed"} => CoordinatorsDone(u)
        BY <1>1 DEF BarrierType, DoneBarrier
    <2>2. \A t \in Shards : \A u \in done_reports'[t] : CoordinatorsDone(u)
        BY <1>1 DEF DoneBarrier
    <2>3. \A u \in Shards : status'[u] = "idle" => status[u] = "idle"
        BY <1>1 DEF BarrierType
    <2>4. AllOk
        BY <1>1 DEF DoneBarrier, PastDone, BeforeDone
    <2> QED BY <1>1, <2>1, <2>2, <2>3, <2>4, DoneBarrierKept
<1>5. Snapshots' /\ Staging'
    BY <1>1, SnapshotsKept
<1>6. FailureBarrier'
    <2>1. \A u \in Shards : Decided(u)' => Decided(u) \/ u = s
        BY <1>1 DEF Decided, Installed, BarrierType
    <2>2. \A u \in Shards : Reporters(u)' = Reporters(u)
        BY <1>1 DEF Reporters
    <2>3. \A u \in Shards : status'[u] \in {"report_done", "report_failures"} => report_to'[u] # {}
        BY <1>1 DEF BarrierType, FailureBarrier
    <2>4. \A u \in Shards : status'[u] = status[u] \/ status'[u] = "install"
        BY <1>1 DEF BarrierType
    <2>5. \A t \in Shards : \A r \in failure_reports'[t] :
              /\ r.from \in Shards /\ status'[r.from] \notin BeforeDone
              /\ r.failed = local_failed'[r.from]
              /\ status'[r.from] = "report_failures" => t \notin report_to'[r.from]
        BY <1>1, <2>4 DEF FailureBarrier, BarrierType, BeforeDone
    <2>6. \A u \in Shards : Decided(u)' =>
              /\ Shards \subseteq Reporters(u)'
              /\ failed'[u] = UNION {local_failed'[v] : v \in Shards}
        <3>1. failed'[s] = UNION {r.failed : r \in failure_reports[s]}
            BY <1>1 DEF BarrierType
        <3>2. \A u \in Shards : u # s => failed'[u] = failed[u]
            BY <1>1 DEF BarrierType
        <3>3. \A u \in Shards : Decided(u) =>
                  Shards \subseteq Reporters(u) /\ failed[u] = UNION {local_failed[v] : v \in Shards}
            BY DEF FailureBarrier
        <3> QED BY <1>1, <1>2, <2>1, <2>2, <3>1, <3>2, <3>3
    <2> QED BY <2>3, <2>5, <2>6 DEF FailureBarrier
<1>7. NoStrayEntry'
    BY <1>1 DEF NoStrayEntry, BarrierType
<1> QED BY <1>3, <1>4, <1>5, <1>6, <1>7

\* A shard installs, when no coordinator reads any more.
LEMMA InstallKeepsBarriers ==
    ASSUME BarrierInv, NEW s \in Shards, Install(s), UNCHANGED pc
    PROVE  BarrierInv'
<1> USE DEF BarrierInv
<1>1. /\ UNCHANGED <<batch, start, coord, snapshot, targets, local_failed, failed, report_to,
                     done_reports, failure_reports, stray_entries>>
      /\ status[s] = "install"
      /\ \/ status' = [status EXCEPT ![s] = "done"]
         \/ status' = [status EXCEPT ![s] = "waiting"]
    BY DEF Install, Goto, history, entryVars, coordVars
<1>2. AllOk
    BY <1>1 DEF DoneBarrier, PastDone, BeforeDone
<1>3. BarrierType'
    BY <1>1 DEF BarrierType, Statuses, BeforeDone, Txs
<1>4. DoneBarrier'
    <2>1. \A u \in Shards : status'[u] \notin {"idle", "execution", "failed"} => CoordinatorsDone(u)
        BY <1>1 DEF BarrierType, DoneBarrier
    <2>2. \A t \in Shards : \A u \in done_reports'[t] : CoordinatorsDone(u)
        BY <1>1 DEF DoneBarrier
    <2>3. \A u \in Shards : status'[u] = "idle" => status[u] = "idle"
        BY <1>1 DEF BarrierType
    <2> QED BY <1>1, <1>2, <2>1, <2>2, <2>3, DoneBarrierKept
<1>5. Snapshots' /\ Staging'
    <2>1. AllOk' /\ Txs' = Txs
        BY <1>1, <1>2 DEF AllOk, Txs
    <2> QED BY <1>1, <2>1 DEF Snapshots, SnapshotReads, Staging
<1>6. FailureBarrier'
    <2>1. \A u \in Shards : Decided(u)' => Decided(u)
        BY <1>1 DEF Decided, Installed, BarrierType
    <2>2. \A u \in Shards : Reporters(u)' = Reporters(u)
        BY <1>1 DEF Reporters
    <2>3. \A u \in Shards : status'[u] = status[u] \/ status'[u] \in {"done", "waiting"}
        BY <1>1 DEF BarrierType
    <2>4. \A t \in Shards : \A r \in failure_reports'[t] :
              /\ r.from \in Shards /\ status'[r.from] \notin BeforeDone
              /\ r.failed = local_failed'[r.from]
              /\ status'[r.from] = "report_failures" => t \notin report_to'[r.from]
        BY <1>1, <2>3 DEF FailureBarrier, BarrierType, BeforeDone
    <2> QED BY <1>1, <2>1, <2>2, <2>3, <2>4 DEF FailureBarrier
<1>7. NoStrayEntry'
    BY <1>1 DEF NoStrayEntry, BarrierType
<1> QED BY <1>3, <1>4, <1>5, <1>6, <1>7

\* The next shard to report to is one of those that are left, and it has not
\* passed the barrier that the report is for.
LEMMA ReportTarget ==
    ASSUME BarrierInv, NEW s \in Shards, status[s] \in {"report_done", "report_failures"}
    PROVE  /\ Min(report_to[s]) \in report_to[s]
           /\ Min(report_to[s]) \in Shards
           /\ ~Decided(Min(report_to[s]))
<1> USE DEF BarrierInv
<1> DEFINE t == Min(report_to[s])
<1>1. report_to[s] \subseteq Nat /\ report_to[s] # {} /\ report_to[s] \subseteq Shards
    BY RouterAssumption DEF BarrierType, FailureBarrier, Shards
<1>2. t \in report_to[s] /\ t \in Shards
    BY <1>1, MinIsLeast
<1> HIDE DEF t
<1>3. ASSUME Decided(t) PROVE FALSE
    <2>1. s \in Reporters(t)
        BY <1>2, <1>3 DEF FailureBarrier
    <2>2. PICK r \in failure_reports[t] : r.from = s
        BY <2>1 DEF Reporters
    <2> QED BY <1>2, <2>2 DEF FailureBarrier, BeforeDone
<1> QED BY <1>2, <1>3 DEF t

\* A shard reports that its coordinators are done.
LEMMA ReportDoneKeepsBarriers ==
    ASSUME BarrierInv, NEW s \in Shards, status[s] = "report_done", UNCHANGED pc,
           NEW t, t = Min(report_to[s]),
           UNCHANGED <<batch, start, store, coord, snapshot, targets, local_failed, failed,
                       failure_reports>>,
           \/ UNCHANGED <<done_reports, stray_entries>>
           \/ RecordDone(s, t) /\ Touch(t),
           \/ status' = [status EXCEPT ![s] = "failed"] /\ report_to' = report_to
           \/ AfterReport(s, t, "done_barrier")
    PROVE  BarrierInv'
<1> USE DEF BarrierInv
<1>1. t \in report_to[s] /\ t \in Shards /\ ~Decided(t)
    BY ReportTarget
<1>2. \A u \in Shards : done_reports'[u] \subseteq done_reports[u] \cup {s}
    BY DEF RecordDone, BarrierType
<1>3. done_reports' \in [Shards -> SUBSET Shards]
    BY DEF RecordDone, BarrierType
<1>4. \A u \in stray_entries' : u \in stray_entries \/ (u = t /\ Ended(t))
    BY <1>1, TouchEffect
<1>5. \/ status' = [status EXCEPT ![s] = "failed"] /\ report_to' = report_to
      \/ /\ report_to' = [report_to EXCEPT ![s] = @ \ {t}]
         /\ \/ status' = status /\ report_to[s] # {t}
            \/ status' = [status EXCEPT ![s] = "done_barrier"]
    BY DEF AfterReport
<1>6. BarrierType'
    <2>1. stray_entries' \subseteq Shards
        BY <1>1, <1>4 DEF BarrierType
    <2>2. status' \in [Shards -> Statuses] /\ report_to' \in [Shards -> SUBSET Shards]
        BY <1>5 DEF BarrierType, Statuses, BeforeDone
    <2> QED BY <1>3, <2>1, <2>2 DEF BarrierType, Txs
<1>7. \A u \in Shards : u # s => status'[u] = status[u] /\ report_to'[u] = report_to[u]
    BY <1>5 DEF BarrierType
<1>8. status'[s] \in {"report_done", "done_barrier", "failed"}
    BY <1>5 DEF BarrierType
<1>9. DoneBarrier'
    <2>1. \A u \in Shards : status'[u] \notin {"idle", "execution", "failed"} => CoordinatorsDone(u)
        BY <1>7, <1>8 DEF DoneBarrier
    <2>2. \A u \in Shards : \A v \in done_reports'[u] : CoordinatorsDone(v)
        BY <1>2 DEF DoneBarrier
    <2>3. \A u \in Shards : status'[u] = "idle" => status[u] = "idle"
        BY <1>7, <1>8
    <2>4. \A u \in Shards : PastDone(u)' => PastDone(u)
        BY <1>7, <1>8 DEF PastDone, BeforeDone
    <2>5. \A u \in Shards : PastDone(u)' => AllOk
        BY <2>4 DEF DoneBarrier
    <2> QED BY <2>1, <2>2, <2>3, <2>5, DoneBarrierKept
<1>10. Snapshots' /\ Staging'
    BY SnapshotsKept
<1>11. FailureBarrier'
    <2>1. \A u \in Shards : Decided(u)' => Decided(u)
        BY <1>7, <1>8 DEF Decided, Installed
    <2>2. \A u \in Shards : Reporters(u)' = Reporters(u)
        BY DEF Reporters
    <2>3. \A u \in Shards : status'[u] \in {"report_done", "report_failures"} => report_to'[u] # {}
        <3>1. status'[s] = "report_done" => report_to'[s] # {}
            BY <1>1, <1>5 DEF BarrierType
        <3> QED BY <1>7, <1>8, <3>1 DEF FailureBarrier
    <2>4. \A u \in Shards : \A r \in failure_reports'[u] : r.from # s
        BY DEF FailureBarrier, BeforeDone
    <2>5. \A u \in Shards : \A r \in failure_reports'[u] :
              /\ r.from \in Shards /\ status'[r.from] \notin BeforeDone
              /\ r.failed = local_failed'[r.from]
              /\ status'[r.from] = "report_failures" => u \notin report_to'[r.from]
        BY <1>7, <2>4 DEF FailureBarrier
    <2> QED BY <2>1, <2>2, <2>3, <2>5 DEF FailureBarrier
<1>12. NoStrayEntry'
    <2>1. status[t] # "done"
        BY <1>1 DEF Decided, Installed
    <2>2. \A u \in Shards : status[u] = "failed" => status'[u] = "failed"
        BY <1>7
    <2> QED BY <1>1, <1>4, <2>1, <2>2 DEF NoStrayEntry, Ended, BarrierType
<1> QED BY <1>6, <1>9, <1>10, <1>11, <1>12

\* A shard reports its conflicts.
LEMMA ReportFailuresKeepsBarriers ==
    ASSUME BarrierInv, NEW s \in Shards, status[s] = "report_failures", UNCHANGED pc,
           NEW t, t = Min(report_to[s]),
           UNCHANGED <<batch, start, store, coord, snapshot, targets, local_failed, failed,
                       done_reports>>,
           \/ /\ UNCHANGED <<failure_reports, stray_entries>>
              /\ status' = [status EXCEPT ![s] = "failed"] /\ report_to' = report_to
           \/ /\ RecordFailures(s, t) /\ Touch(t)
              /\ \/ status' = [status EXCEPT ![s] = "failed"] /\ report_to' = report_to
                 \/ AfterReport(s, t, "failure_barrier")
    PROVE  BarrierInv'
<1> USE DEF BarrierInv
<1>1. t \in report_to[s] /\ t \in Shards /\ ~Decided(t)
    BY ReportTarget
<1>2. /\ \A u \in Shards : u # t => failure_reports'[u] = failure_reports[u]
      /\ \A r \in failure_reports'[t] :
            r \in failure_reports[t] \/ r = [from |-> s, failed |-> local_failed[s]]
      /\ DOMAIN failure_reports' = Shards
      /\ \A u \in Shards : failure_reports[u] \subseteq failure_reports'[u]
    BY <1>1 DEF RecordFailures, BarrierType
<1>3. \A u \in stray_entries' : u \in stray_entries \/ (u = t /\ Ended(t))
    BY <1>1, TouchEffect
<1>4. \/ status' = [status EXCEPT ![s] = "failed"] /\ report_to' = report_to
      \/ /\ report_to' = [report_to EXCEPT ![s] = @ \ {t}]
         /\ \/ status' = status /\ report_to[s] # {t}
            \/ status' = [status EXCEPT ![s] = "failure_barrier"]
    BY DEF AfterReport
<1>5. BarrierType'
    <2>1. stray_entries' \subseteq Shards
        BY <1>1, <1>3 DEF BarrierType
    <2>2. status' \in [Shards -> Statuses] /\ report_to' \in [Shards -> SUBSET Shards]
        BY <1>4 DEF BarrierType, Statuses
    <2>3. DOMAIN failure_reports' = Shards
        BY <1>2
    <2> QED BY <2>1, <2>2, <2>3 DEF BarrierType, Txs
<1>6. \A u \in Shards : u # s => status'[u] = status[u] /\ report_to'[u] = report_to[u]
    BY <1>4 DEF BarrierType
<1>7. status'[s] \in {"report_failures", "failure_barrier", "failed"}
    BY <1>4 DEF BarrierType
<1>8. DoneBarrier'
    <2>1. \A u \in Shards : status'[u] \notin {"idle", "execution", "failed"} => CoordinatorsDone(u)
        BY <1>6, <1>7 DEF DoneBarrier
    <2>2. \A u \in Shards : \A v \in done_reports'[u] : CoordinatorsDone(v)
        BY DEF DoneBarrier
    <2>3. \A u \in Shards : status'[u] = "idle" => status[u] = "idle"
        BY <1>6, <1>7
    <2>4. \A u \in Shards : PastDone(u)' => PastDone(u)
        BY <1>6, <1>7 DEF PastDone, BeforeDone
    <2>5. \A u \in Shards : PastDone(u)' => AllOk
        BY <2>4 DEF DoneBarrier
    <2> QED BY <2>1, <2>2, <2>3, <2>5, DoneBarrierKept
<1>9. Snapshots' /\ Staging'
    BY SnapshotsKept
<1>10. FailureBarrier'
    <2>1. \A u \in Shards : Decided(u)' => Decided(u)
        BY <1>6, <1>7 DEF Decided, Installed
    <2>2. \A u \in Shards : Reporters(u) \subseteq Reporters(u)'
        BY <1>2 DEF Reporters
    <2>3. \A u \in Shards : status'[u] \in {"report_done", "report_failures"} => report_to'[u] # {}
        <3>1. status'[s] = "report_failures" => report_to'[s] # {}
            BY <1>1, <1>4 DEF BarrierType
        <3> QED BY <1>6, <1>7, <3>1 DEF FailureBarrier
    <2>4. \A u \in Shards : \A r \in failure_reports'[u] :
              r \in failure_reports[u] \/ (u = t /\ r.from = s /\ r.failed = local_failed[s])
        BY <1>2
    <2>5. status'[s] = "report_failures" =>
              report_to'[s] \subseteq report_to[s] /\ t \notin report_to'[s]
        BY <1>1, <1>4 DEF BarrierType
    <2>6. \A u \in Shards : \A r \in failure_reports'[u] :
              /\ r.from \in Shards /\ status'[r.from] \notin BeforeDone
              /\ r.failed = local_failed'[r.from]
              /\ status'[r.from] = "report_failures" => u \notin report_to'[r.from]
        BY <1>6, <1>7, <2>4, <2>5 DEF FailureBarrier, BeforeDone
    <2> QED BY <2>1, <2>2, <2>3, <2>6 DEF FailureBarrier
<1>11. NoStrayEntry'
    <2>1. status[t] # "done"
        BY <1>1 DEF Decided, Installed
    <2>2. \A u \in Shards : status[u] = "failed" => status'[u] = "failed"
        BY <1>6
    <2> QED BY <1>1, <1>3, <2>1, <2>2 DEF NoStrayEntry, Ended, BarrierType
<1> QED BY <1>5, <1>8, <1>9, <1>10, <1>11

\* All steps of executors that report.
LEMMA ReportKeepsBarriers ==
    ASSUME BarrierInv, NEW s \in Shards, ReportDone(s) \/ ReportFailures(s) \/ FailReport(s),
           UNCHANGED pc
    PROVE  BarrierInv'
<1> DEFINE t == Min(report_to[s])
<1>1. UNCHANGED <<batch, start, store, coord, snapshot, targets, local_failed, failed>>
    BY DEF ReportDone, ReportFailures, FailReport, history, coordVars
<1>2. CASE ReportDone(s)
    <2>1. /\ status[s] = "report_done" /\ UNCHANGED failure_reports
          /\ RecordDone(s, t) /\ Touch(t) /\ AfterReport(s, t, "done_barrier")
        BY <1>2 DEF ReportDone
    <2> HIDE DEF t
    <2>2. t = Min(report_to[s])
        BY DEF t
    <2> QED BY <1>1, <2>1, <2>2, ReportDoneKeepsBarriers
<1>3. CASE ReportFailures(s)
    <2>1. /\ status[s] = "report_failures" /\ UNCHANGED done_reports
          /\ RecordFailures(s, t) /\ Touch(t) /\ AfterReport(s, t, "failure_barrier")
        BY <1>3 DEF ReportFailures
    <2> HIDE DEF t
    <2>2. t = Min(report_to[s])
        BY DEF t
    <2> QED BY <1>1, <2>1, <2>2, ReportFailuresKeepsBarriers
<1>4. CASE FailReport(s)
    <2>1. /\ status' = [status EXCEPT ![s] = "failed"] /\ report_to' = report_to
          /\ \/ /\ status[s] = "report_done" /\ UNCHANGED failure_reports
                /\ \/ UNCHANGED <<done_reports, stray_entries>>
                   \/ RecordDone(s, t) /\ Touch(t)
             \/ /\ status[s] = "report_failures" /\ UNCHANGED done_reports
                /\ \/ UNCHANGED <<failure_reports, stray_entries>>
                   \/ RecordFailures(s, t) /\ Touch(t)
        BY <1>4 DEF FailReport, Goto
    <2> HIDE DEF t
    <2>2. t = Min(report_to[s])
        BY DEF t
    <2> QED BY <1>1, <2>1, <2>2, ReportDoneKeepsBarriers, ReportFailuresKeepsBarriers
<1> QED BY <1>2, <1>3, <1>4

-----------------------------------------------------------------------------
(* The theorems *)

\* The invariant holds when a batch arrives.
LEMMA BarrierInit == SchedulerInit => BarrierInv
<1> SUFFICES ASSUME SchedulerInit PROVE BarrierInv
    OBVIOUS
<1>1. BarrierType
    BY DEF SchedulerInit, Init, BarrierType, Statuses, BeforeDone, Txs
<1>2. Staging
    BY AriaAssumption DEF SchedulerInit, Init, Staging
<1>3. DoneBarrier
    BY DEF SchedulerInit, Init, DoneBarrier, PastDone, InFallback, BeforeDone
<1>4. Snapshots
    <2>1. \A k \in Keys : store[Owner[k]][k] = start[k]
        BY RouterAssumption DEF SchedulerInit, Init
    <2>2. \A i \in Txs : DOMAIN snapshot[i] = {}
        BY DEF SchedulerInit, Init
    <2>3. \A i \in Txs : ReadSet(batch[i]) # {}
        BY <1>1, TxFacts, SetsInKeys DEF ReadSet, OrderedTx, BarrierType
    <2> QED BY <2>1, <2>2, <2>3 DEF Snapshots, SnapshotReads
<1>5. FailureBarrier
    BY DEF SchedulerInit, Init, FailureBarrier, Decided, Installed
<1>6. NoStrayEntry
    BY DEF SchedulerInit, Init, NoStrayEntry
<1> QED BY <1>1, <1>2, <1>3, <1>4, <1>5, <1>6 DEF BarrierInv

\* Every step of either phase keeps it.
LEMMA BarrierStep == BarrierInv /\ [SchedulerNext]_allVars => BarrierInv'
<1> SUFFICES ASSUME BarrierInv, [SchedulerNext]_allVars PROVE BarrierInv'
    OBVIOUS
<1>1. CASE FallBack \/ (UNCHANGED <<start, optVars>> /\ \E s \in Shards, i \in Txs : Fallback!FailReadResult(s, i))
    BY <1>1, FallbackKeepsBarriers DEF FallBack, FallbackStep
<1>2. CASE (TaskStep \/ RpcStep) /\ UNCHANGED fallbackVars
    <2>1. pc' = pc
        BY <1>2 DEF fallbackVars
    <2>2. CASE \E i \in Txs : Coordinator(i) \/ FailCoordinator(i)
        BY <2>1, <2>2, ReadKeepsBarriers, StageKeepsBarriers DEF Coordinator
    <2>3. CASE \E s \in Shards : Executor(s) \/ FailReport(s)
        <3>1. PICK s \in Shards : Executor(s) \/ FailReport(s)
            BY <2>3
        <3> QED BY <2>1, <3>1, StartKeepsBarriers, CollectKeepsBarriers, WaitKeepsBarriers,
                   PassDoneKeepsBarriers, PassFailureKeepsBarriers, InstallKeepsBarriers,
                   ReportKeepsBarriers DEF Executor
    <2> QED BY <1>2, <2>2, <2>3 DEF TaskStep, RpcStep
<1>3. CASE UNCHANGED allVars
    <2>1. UNCHANGED <<batch, start, store, status, report_to, local_failed, failed,
                      coord, snapshot, targets, done_reports, failure_reports, stray_entries, pc>>
        BY <1>3 DEF allVars, vars, history, shardVars, coordVars, entryVars, fallbackVars
    <2>2. Txs' = Txs
        BY <2>1 DEF Txs
    <2>3. BarrierType' /\ NoStrayEntry'
        BY <2>1, <2>2 DEF BarrierInv, BarrierType, NoStrayEntry
    <2>4. DoneBarrier'
        BY <2>1, <2>2 DEF BarrierInv, DoneBarrier, CoordinatorsDone, PastDone, InFallback, AllOk, Home
    <2>5. FailureBarrier'
        BY <2>1 DEF BarrierInv, FailureBarrier, Decided, Installed, Reporters
    <2> QED BY <2>1, <2>3, <2>4, <2>5, SnapshotsKept DEF BarrierInv
<1> QED BY <1>1, <1>2, <1>3 DEF SchedulerNext, Optimistic, RpcFails

\* The barriers hold, always.
LEMMA BarrierInvariant == SchedulerSpec => []BarrierInv
BY BarrierInit, BarrierStep, PTL DEF SchedulerSpec

\* All coordinators of a batch read the state that the batch found, on all
\* shards, whenever the shards pass the barriers, install and fall back
\* (read_snapshot, wait_execution_done).
THEOREM SnapshotReadsAlways == SchedulerSpec => []SnapshotReads
<1>1. BarrierInv => SnapshotReads
    BY DEF BarrierInv, Snapshots
<1> QED BY <1>1, BarrierInvariant, PTL

\* All shards keep or drop a transaction together, whatever RPCs fail
\* (wait_failure_reports, record_batch_reorder).
THEOREM FailedSetsAgreeAlways == SchedulerSpec => []FailedSetsAgree
<1>1. BarrierInv => FailedSetsAgree
    BY DEF BarrierInv, FailureBarrier, FailedSetsAgree
<1> QED BY <1>1, BarrierInvariant, PTL

\* No operation makes a registry entry at a shard that is done with the batch
\* (AriaBatchRegistry, cleanup_batch).
THEOREM NoStrayEntryAlways == SchedulerSpec => []NoStrayEntry
<1>1. BarrierInv => NoStrayEntry
    BY DEF BarrierInv
<1> QED BY <1>1, BarrierInvariant, PTL

-----------------------------------------------------------------------------
(* What the coordinators stage *)

\* The part of a state that shard s owns.
Part(st, s) == [k \in Keys |-> IF Owner[k] = s THEN st[k] ELSE Missing]

\* The output of transaction i on the state that the batch found, the shards that
\* learn of it, and what each of them is to keep.
SnapshotOutput(i) == ReferenceOutput(start, batch[i].op)
OutputShards(i) ==
    {Owner[SnapshotOutput(i).writes[w].key] : w \in DOMAIN SnapshotOutput(i).writes} \cup {Home(i)}
KeptAt(i, t) == [result |-> IF t = Home(i) THEN SnapshotOutput(i).result ELSE "none",
                 writes |-> SnapshotOutput(i).writes,
                 local  |-> FilterLocalWrites(SnapshotOutput(i).writes, t)]

\* A coordinator that has executed has read its whole read set and is among the
\* readers of every key of it.
HasRead(i) ==
    /\ snapshot[i] = ReadFrom(start, batch[i].op)
    /\ \A k \in ReadSet(batch[i]) : i \in readers[k]

\* Its outcome is staged where it is not still to be staged, and there it is among
\* the writers of the keys it writes.
HasStaged(i) ==
    /\ targets[i] \subseteq OutputShards(i)
    /\ \A t \in Shards :
          staged[t][i] = IF t \in OutputShards(i) \ targets[i] THEN KeptAt(i, t) ELSE NotStaged
    /\ \A w \in DOMAIN SnapshotOutput(i).writes :
          Owner[SnapshotOutput(i).writes[w].key] \notin targets[i] =>
              i \in writers[SnapshotOutput(i).writes[w].key]

TablesOf(i) ==
    /\ coord[i] \in {"none", "read"} => \A k \in DOMAIN snapshot[i] : i \in readers[k]
    /\ coord[i] \in {"execute", "stage", "ok"} => HasRead(i)
    /\ coord[i] \in {"none", "read", "execute"} => \A t \in Shards : staged[t][i] = NotStaged
    /\ coord[i] \in {"stage", "ok"} => HasStaged(i)
    /\ coord[i] = "ok" => targets[i] = {}

TableTypes ==
    /\ DOMAIN readers = Keys /\ DOMAIN writers = Keys
    /\ DOMAIN staged = Shards /\ \A t \in Shards : DOMAIN staged[t] = Txs

Tables == TableTypes /\ \A i \in Txs : TablesOf(i)

\* The writes of an output go to keys, and its shards are shards.
LEMMA OutputFacts ==
    ASSUME BarrierType, Staging, NEW i \in Txs
    PROVE  /\ SnapshotOutput(i) \in Outcome(WriteSet(batch[i]))
           /\ \A w \in DOMAIN SnapshotOutput(i).writes :
                 /\ SnapshotOutput(i).writes[w].key \in WriteSet(batch[i])
                 /\ SnapshotOutput(i).writes[w].key \in Keys
           /\ OutputShards(i) \subseteq Shards
<1>1. batch[i].op \in FsOp /\ start \in State
    BY TxFacts DEF BarrierType, Staging, OrderedTx
<1>2. SnapshotOutput(i) \in Outcome(WriteSet(batch[i]))
    BY <1>1, ReferenceType DEF SnapshotOutput, WriteSet
<1>3. WriteSet(batch[i]) \subseteq Keys
    BY <1>1, SetsInKeys DEF WriteSet
<1> DEFINE ws == SnapshotOutput(i).writes
<1>4. ws \in Seq([key : WriteSet(batch[i]), value : ReadValue])
    BY <1>2 DEF Outcome, Writes
<1>5. \A w \in DOMAIN ws : ws[w].key \in WriteSet(batch[i])
    <2> HIDE DEF ws
    <2>1. \A w \in DOMAIN ws : ws[w] \in [key : WriteSet(batch[i]), value : ReadValue]
        BY <1>4, ElementType
    <2> QED BY <2>1
<1>6. OutputShards(i) \subseteq Shards
    BY <1>3, <1>5, TxFacts, RouterAssumption DEF OutputShards, BarrierType
<1> QED BY <1>2, <1>3, <1>5, <1>6

\* What a coordinator that has read everything computes and sends.
LEMMA OutputIsSnapshots ==
    ASSUME NEW i \in Txs, HasRead(i)
    PROVE  /\ OutputOf(i) = SnapshotOutput(i)
           /\ WriteOwners(i) \cup {Home(i)} = OutputShards(i)
           /\ \A t : AriaStagedOutcome(i, t) = KeptAt(i, t)
<1>1. OutputOf(i) = SnapshotOutput(i)
    BY DEF HasRead, OutputOf, SnapshotOutput, ReferenceOutput
<1> QED BY <1>1 DEF WriteOwners, OutputShards, AriaStagedOutcome, KeptAt

\* The tables of a transaction are not touched by the steps for another one.
LEMMA TablesOfKept ==
    ASSUME NEW i \in Txs, TablesOf(i), UNCHANGED <<batch, start>>,
           coord'[i] = coord[i], snapshot'[i] = snapshot[i], targets'[i] = targets[i],
           \A t \in Shards : staged'[t][i] = staged[t][i],
           \A k \in Keys : readers[k] \subseteq readers'[k] /\ writers[k] \subseteq writers'[k],
           BarrierType, Staging, Snapshots
    PROVE  TablesOf(i)'
<1>1. /\ SnapshotOutput(i)' = SnapshotOutput(i) /\ OutputShards(i)' = OutputShards(i)
      /\ \A t : KeptAt(i, t)' = KeptAt(i, t)
    BY DEF SnapshotOutput, OutputShards, KeptAt, Home
<1>2. HasRead(i) => HasRead(i)'
    BY TxFacts DEF HasRead, BarrierType
<1>3. HasStaged(i) => HasStaged(i)'
    <2>1. \A w \in DOMAIN SnapshotOutput(i).writes : SnapshotOutput(i).writes[w].key \in Keys
        BY OutputFacts
    <2> QED BY <1>1, <2>1 DEF HasStaged
<1>4. coord[i] \in {"none", "read"} => DOMAIN snapshot[i] \subseteq Keys
    BY TxFacts DEF Snapshots, BarrierType
<1> QED BY <1>2, <1>3, <1>4 DEF TablesOf

\* Reading adds to the readers.
LEMMA ReadKeepsTables ==
    ASSUME BarrierInv, Tables, NEW i \in Txs, ReadSnapshot(i), BarrierInv'
    PROVE  Tables'
<1> USE DEF BarrierInv
<1> DEFINE k == NextKey(i)
<1>1. k \in ReadSet(batch[i]) /\ k \notin DOMAIN snapshot[i]
    BY DEF NextKey, Snapshots, ReadSnapshot
<1>2. k \in Keys
    BY <1>1, TxFacts DEF BarrierType
<1> HIDE DEF k
<1>3. /\ snapshot' = [snapshot EXCEPT ![i] =
             [l \in DOMAIN snapshot[i] \cup {k} |->
                 IF l = k THEN store[Owner[k]][k] ELSE snapshot[i][l]]]
      /\ readers' = [readers EXCEPT ![k] = @ \cup {i}]
    BY DEF ReadSnapshot, k
<1>4. /\ UNCHANGED <<batch, start, targets, writers, staged>>
      /\ coord[i] = "read"
      /\ coord' = IF DOMAIN snapshot'[i] = ReadSet(batch[i])
                  THEN [coord EXCEPT ![i] = "execute"] ELSE coord
    BY DEF ReadSnapshot, history
<1>5. /\ Txs' = Txs
      /\ TableTypes'
      /\ \A l \in Keys : readers[l] \subseteq readers'[l]
      /\ i \in readers'[k]
    BY <1>2, <1>3, <1>4 DEF Tables, TableTypes, Txs
<1>6. /\ \A j \in Txs : j # i => snapshot'[j] = snapshot[j] /\ coord'[j] = coord[j]
      /\ snapshot'[i] = [l \in DOMAIN snapshot[i] \cup {k} |->
                            IF l = k THEN store[Owner[k]][k] ELSE snapshot[i][l]]
      /\ DOMAIN snapshot'[i] = DOMAIN snapshot[i] \cup {k}
      /\ coord'[i] = IF DOMAIN snapshot'[i] = ReadSet(batch[i]) THEN "execute" ELSE "read"
    BY <1>3, <1>4 DEF BarrierType
<1>7. \A j \in Txs : j # i => TablesOf(j)'
    BY <1>4, <1>5, <1>6, TablesOfKept DEF Tables
<1>8. \A l \in DOMAIN snapshot'[i] : i \in readers'[l]
    <2>1. DOMAIN snapshot[i] \subseteq Keys
        BY <1>4, TxFacts DEF Snapshots, BarrierType
    <2> QED BY <1>4, <1>5, <1>6, <2>1 DEF Tables, TablesOf
<1>9. DOMAIN snapshot'[i] = ReadSet(batch[i]) => HasRead(i)'
    <2> SUFFICES ASSUME DOMAIN snapshot'[i] = ReadSet(batch[i]) PROVE HasRead(i)'
        OBVIOUS
    <2>1. \A l \in ReadSet(batch[i]) : snapshot'[i][l] = start[l]
        BY <1>4, <1>5 DEF Snapshots, SnapshotReads
    <2>2. snapshot'[i] = [l \in ReadSet(batch[i]) |-> start[l]]
        BY <1>6, <2>1
    <2> QED BY <1>4, <1>8, <2>2 DEF HasRead, ReadFrom, ReadSet
<1>10. TablesOf(i)'
    BY <1>4, <1>6, <1>8, <1>9 DEF Tables, TablesOf
<1> QED BY <1>5, <1>7, <1>10 DEF Tables

\* Executing decides where to stage.
LEMMA ExecuteKeepsTables ==
    ASSUME BarrierInv, Tables, NEW i \in Txs, ExecuteTx(i)
    PROVE  Tables'
<1> USE DEF BarrierInv
<1>1. /\ UNCHANGED <<batch, start, snapshot, readers, writers, staged>>
      /\ coord[i] = "execute" /\ coord' = [coord EXCEPT ![i] = "stage"]
      /\ targets' = [targets EXCEPT ![i] = WriteOwners(i) \cup {Home(i)}]
    BY DEF ExecuteTx, history, entryVars
<1>2. Txs' = Txs /\ TableTypes'
    BY <1>1 DEF Tables, TableTypes, Txs
<1>3. HasRead(i) /\ \A t \in Shards : staged[t][i] = NotStaged
    BY <1>1 DEF Tables, TablesOf
<1>4. targets'[i] = OutputShards(i)
    BY <1>1, <1>3, OutputIsSnapshots DEF Staging
<1>5. \A j \in Txs : j # i => TablesOf(j)'
    <2>1. \A j \in Txs : j # i => targets'[j] = targets[j] /\ coord'[j] = coord[j]
        BY <1>1 DEF Staging, BarrierType
    <2> QED BY <1>1, <2>1, TablesOfKept DEF Tables
<1>6. TablesOf(i)'
    <2>1. OutputShards(i)' = OutputShards(i) /\ SnapshotOutput(i)' = SnapshotOutput(i)
        BY <1>1 DEF OutputShards, SnapshotOutput, Home
    <2>2. HasRead(i)'
        BY <1>1, <1>3 DEF HasRead
    <2>3. HasStaged(i)'
        BY <1>1, <1>3, <1>4, <2>1 DEF HasStaged, OutputShards
    <2>4. coord'[i] = "stage"
        BY <1>1 DEF BarrierType
    <2> QED BY <2>2, <2>3, <2>4 DEF TablesOf
<1> QED BY <1>2, <1>5, <1>6 DEF Tables

\* Staging at one shard, or an RPC to do so.
LEMMA StageEffect ==
    ASSUME BarrierInv, Tables, NEW i \in Txs, coord[i] = "stage",
           NEW t \in Shards, Stage(i, t)
    PROVE  /\ DOMAIN staged' = Shards /\ \A u \in Shards : DOMAIN staged'[u] = Txs
           /\ \A u \in Shards, j \in Txs :
                 staged'[u][j] = IF u = t /\ j = i THEN KeptAt(i, t) ELSE staged[u][j]
           /\ DOMAIN writers' = Keys
           /\ \A k \in Keys : writers[k] \subseteq writers'[k]
           /\ \A w \in DOMAIN SnapshotOutput(i).writes :
                 Owner[SnapshotOutput(i).writes[w].key] = t =>
                     i \in writers'[SnapshotOutput(i).writes[w].key]
<1>1. HasRead(i)
    BY DEF Tables, TablesOf
<1>2. /\ OutputOf(i) = SnapshotOutput(i)
      /\ AriaStagedOutcome(i, t) = KeptAt(i, t)
    BY <1>1, OutputIsSnapshots
<1>3. /\ staged' = [staged EXCEPT ![t][i] = KeptAt(i, t)]
      /\ writers' = [k \in Keys |->
            IF \E w \in KeptAt(i, t).local : KeptAt(i, t).writes[w].key = k
            THEN writers[k] \cup {i} ELSE writers[k]]
    BY <1>2 DEF Stage
<1>4. \A w \in DOMAIN SnapshotOutput(i).writes : SnapshotOutput(i).writes[w].key \in Keys
    BY OutputFacts DEF BarrierInv
<1>5. \A w \in DOMAIN SnapshotOutput(i).writes :
          Owner[SnapshotOutput(i).writes[w].key] = t => w \in KeptAt(i, t).local
    BY DEF KeptAt, FilterLocalWrites
<1>6. /\ DOMAIN staged' = Shards /\ \A u \in Shards : DOMAIN staged'[u] = Txs
      /\ \A u \in Shards, j \in Txs :
            staged'[u][j] = IF u = t /\ j = i THEN KeptAt(i, t) ELSE staged[u][j]
    <2> DEFINE v == KeptAt(i, t)
    <2>1. staged' = [staged EXCEPT ![t][i] = v]
        BY <1>3
    <2> HIDE DEF v
    <2>2. /\ DOMAIN staged' = Shards /\ \A u \in Shards : DOMAIN staged'[u] = Txs
          /\ \A u \in Shards, j \in Txs :
                staged'[u][j] = IF u = t /\ j = i THEN v ELSE staged[u][j]
        BY <2>1 DEF Tables, TableTypes
    <2> QED BY <2>2 DEF v
<1>7. KeptAt(i, t).writes = SnapshotOutput(i).writes
    BY DEF KeptAt
<1> QED BY <1>3, <1>4, <1>5, <1>6, <1>7

\* A coordinator stages at the next of its shards.
LEMMA StageKeepsTables ==
    ASSUME BarrierInv, Tables, NEW i \in Txs, StageOutcome(i)
    PROVE  Tables'
<1> USE DEF BarrierInv
<1> DEFINE t == Min(targets[i])
<1>1. /\ UNCHANGED <<batch, start, snapshot, readers>>
      /\ coord[i] = "stage"
      /\ coord' = IF targets[i] = {t} THEN [coord EXCEPT ![i] = "ok"] ELSE coord
      /\ targets' = [targets EXCEPT ![i] = @ \ {t}]
      /\ Stage(i, t)
    BY DEF StageOutcome, history
<1>2. t \in targets[i] /\ t \in Shards
    BY <1>1, TargetIsShard
<1> HIDE DEF t
<1>3. /\ DOMAIN staged' = Shards /\ \A u \in Shards : DOMAIN staged'[u] = Txs
      /\ \A u \in Shards, j \in Txs :
            staged'[u][j] = IF u = t /\ j = i THEN KeptAt(i, t) ELSE staged[u][j]
      /\ DOMAIN writers' = Keys
      /\ \A k \in Keys : writers[k] \subseteq writers'[k]
      /\ \A w \in DOMAIN SnapshotOutput(i).writes :
            Owner[SnapshotOutput(i).writes[w].key] = t =>
                i \in writers'[SnapshotOutput(i).writes[w].key]
    BY <1>1, <1>2, StageEffect
<1>4. Txs' = Txs /\ TableTypes'
    BY <1>1, <1>3 DEF Tables, TableTypes, Txs
<1>5. \A j \in Txs : j # i => TablesOf(j)'
    <2>1. \A j \in Txs : j # i => targets'[j] = targets[j] /\ coord'[j] = coord[j]
        BY <1>1 DEF Staging, BarrierType
    <2> QED BY <1>1, <1>3, <2>1, TablesOfKept DEF Tables
<1>6. HasRead(i) /\ HasStaged(i)
    BY <1>1 DEF Tables, TablesOf
<1>7. targets'[i] = targets[i] \ {t}
    BY <1>1 DEF Staging
<1>8. coord'[i] = IF targets[i] = {t} THEN "ok" ELSE "stage"
    BY <1>1 DEF BarrierType
<1>9. /\ OutputShards(i)' = OutputShards(i) /\ SnapshotOutput(i)' = SnapshotOutput(i)
      /\ \A u : KeptAt(i, u)' = KeptAt(i, u)
    BY <1>1 DEF OutputShards, SnapshotOutput, Home, KeptAt
<1>10. HasRead(i)'
    BY <1>1, <1>6 DEF HasRead
<1>11. HasStaged(i)'
    <2>1. \A u \in Shards : staged'[u][i] =
              IF u \in OutputShards(i) \ targets'[i] THEN KeptAt(i, u) ELSE NotStaged
        BY <1>2, <1>3, <1>6, <1>7 DEF HasStaged
    <2>2. \A w \in DOMAIN SnapshotOutput(i).writes : SnapshotOutput(i).writes[w].key \in Keys
        BY OutputFacts
    <2>3. \A w \in DOMAIN SnapshotOutput(i).writes :
              Owner[SnapshotOutput(i).writes[w].key] \notin targets'[i] =>
                  i \in writers'[SnapshotOutput(i).writes[w].key]
        BY <1>3, <1>6, <1>7, <2>2 DEF HasStaged
    <2> QED BY <1>6, <1>7, <1>9, <2>1, <2>3 DEF HasStaged
<1>12. TablesOf(i)'
    BY <1>7, <1>8, <1>10, <1>11 DEF TablesOf
<1> QED BY <1>4, <1>5, <1>12 DEF Tables

\* An RPC of a coordinator fails: what it leaves belongs to no outcome.
LEMMA FailKeepsTables ==
    ASSUME BarrierInv, Tables, NEW i \in Txs, FailCoordinator(i)
    PROVE  Tables'
<1> USE DEF BarrierInv
<1>1. /\ UNCHANGED <<batch, start, snapshot, targets>>
      /\ coord' = [coord EXCEPT ![i] = "err"]
    BY DEF FailCoordinator, history
<1>2. /\ TableTypes'
      /\ \A k \in Keys : readers[k] \subseteq readers'[k] /\ writers[k] \subseteq writers'[k]
      /\ \A u \in Shards, j \in Txs : j # i => staged'[u][j] = staged[u][j]
    <2>0. Txs' = Txs
        BY <1>1 DEF Txs
    <2>1. CASE UNCHANGED <<readers, writers, staged>>
        BY <2>0, <2>1 DEF Tables, TableTypes
    <2>2. CASE /\ UNCHANGED <<writers, staged>>
               /\ readers' = [readers EXCEPT ![NextKey(i)] = @ \cup {i}]
        BY <2>0, <2>2 DEF Tables, TableTypes
    <2>3. CASE coord[i] = "stage" /\ Stage(i, Min(targets[i])) /\ UNCHANGED readers
        <3>1. Min(targets[i]) \in Shards
            BY <2>3, TargetIsShard
        <3> DEFINE t == Min(targets[i])
        <3> HIDE DEF t
        <3>2. /\ DOMAIN staged' = Shards /\ \A u \in Shards : DOMAIN staged'[u] = Txs
              /\ \A u \in Shards, j \in Txs :
                    staged'[u][j] = IF u = t /\ j = i THEN KeptAt(i, t) ELSE staged[u][j]
              /\ DOMAIN writers' = Keys
              /\ \A k \in Keys : writers[k] \subseteq writers'[k]
            BY <2>3, <3>1, StageEffect DEF t
        <3> QED BY <2>0, <2>3, <3>2 DEF Tables, TableTypes
    <2> QED BY <2>1, <2>2, <2>3 DEF FailCoordinator
<1>3. \A j \in Txs : j # i => TablesOf(j)'
    <2>1. \A j \in Txs : j # i => coord'[j] = coord[j]
        BY <1>1 DEF BarrierType
    <2> QED BY <1>1, <1>2, <2>1, TablesOfKept DEF Tables
<1>4. coord'[i] = "err"
    BY <1>1 DEF BarrierType
<1> QED BY <1>1, <1>2, <1>3, <1>4 DEF Tables, TablesOf, Txs

\* The steps that leave the registry entries alone.
LEMMA TablesKept ==
    ASSUME BarrierInv, Tables,
           UNCHANGED <<batch, start, snapshot, targets, readers, writers, staged>>,
           \A i \in Txs : coord'[i] = coord[i] \/ (coord[i] = "none" /\ coord'[i] = "read")
    PROVE  Tables'
<1>1. Txs' = Txs /\ TableTypes'
    BY DEF Tables, TableTypes, Txs
<1>2. ASSUME NEW i \in Txs PROVE TablesOf(i)'
    <2>1. CASE coord'[i] = coord[i]
        BY <2>1, TablesOfKept DEF Tables, BarrierInv
    <2>2. CASE coord[i] = "none" /\ coord'[i] = "read"
        BY <2>2 DEF Tables, TablesOf
    <2> QED BY <2>1, <2>2
<1> QED BY <1>1, <1>2 DEF Tables

\* Every step keeps the tables.
LEMMA TablesStep ==
    ASSUME BarrierInv, Tables, [SchedulerNext]_allVars, BarrierInv'
    PROVE  Tables'
<1>1. CASE \E i \in Txs : Coordinator(i) \/ FailCoordinator(i)
    BY <1>1, ReadKeepsTables, ExecuteKeepsTables, StageKeepsTables, FailKeepsTables
       DEF Coordinator
<1>2. CASE \E s \in Shards : Executor(s) \/ FailReport(s)
    <2>1. PICK s \in Shards : Executor(s) \/ FailReport(s)
        BY <1>2
    <2>2. UNCHANGED <<batch, start, snapshot, targets, readers, writers, staged>>
        BY <2>1 DEF Executor, StartBatch, CollectCoordinators, ReportDone, ReportFailures,
                    KeepWaiting, Notified, PassDoneBarrier, PassFailureBarrier, Install,
                    FailReport, history, coordVars, entryVars
    <2>3. CASE StartBatch(s)
        <3>1. /\ status[s] = "idle"
              /\ coord' = [i \in Txs |-> IF Home(i) = s THEN "read" ELSE coord[i]]
            BY <2>3 DEF StartBatch
        <3>2. \A i \in Txs : coord'[i] = coord[i] \/ (coord[i] = "none" /\ coord'[i] = "read")
            BY <3>1 DEF BarrierInv, DoneBarrier
        <3> QED BY <2>2, <3>2, TablesKept
    <2>4. CASE ~StartBatch(s)
        <3>1. coord' = coord
            BY <2>1, <2>4 DEF Executor, CollectCoordinators, ReportDone, ReportFailures,
                    KeepWaiting, Notified, PassDoneBarrier, PassFailureBarrier, Install,
                    FailReport, coordVars
        <3> QED BY <2>2, <3>1, TablesKept
    <2> QED BY <2>3, <2>4
<1>3. CASE UNCHANGED allVars \/ FallbackStep
    <2>1. UNCHANGED <<batch, start, optVars>>
        <3>1. CASE UNCHANGED allVars
            BY <3>1 DEF allVars, vars, optVars, history, shardVars, coordVars, entryVars
        <3>2. CASE FallbackStep
            BY <3>2, FallbackEffect DEF BarrierInv
        <3> QED BY <1>3, <3>1, <3>2
    <2>2. UNCHANGED <<batch, start, snapshot, targets, readers, writers, staged, coord>>
        BY <2>1 DEF optVars, coordVars, entryVars
    <2> QED BY <2>2, TablesKept
<1> QED BY <1>1, <1>2, <1>3
        DEF SchedulerNext, Optimistic, RpcFails, FallBack, FallbackStep, TaskStep, RpcStep

-----------------------------------------------------------------------------
(* What the shards decide *)

\* The conflicts that a shard has found or reported are those of the final tables
\* of its keys.
Conflicts ==
    /\ \A u \in Shards : PastDone(u) => local_failed[u] = LocalFailedIndices(u)
    /\ \A t \in Shards : \A r \in failure_reports[t] :
          AllOk /\ local_failed[r.from] = LocalFailedIndices(r.from)

\* The steps that change neither conflicts nor tables.
LEMMA ConflictsKept ==
    ASSUME BarrierInv, Conflicts,
           UNCHANGED <<batch, coord, readers, writers, local_failed, failure_reports>>,
           \A u \in Shards : PastDone(u)' => PastDone(u)
    PROVE  Conflicts'
<1>1. \A u : LocalFailedIndices(u)' = LocalFailedIndices(u)
    BY DEF LocalFailedIndices
<1>2. AllOk' = AllOk
    BY DEF AllOk, Txs
<1> QED BY <1>1, <1>2 DEF Conflicts

\* Every step keeps the conflicts.
LEMMA ConflictsStep ==
    ASSUME BarrierInv, Conflicts, [SchedulerNext]_allVars
    PROVE  Conflicts'
<1> USE DEF BarrierInv
<1>1. CASE \E i \in Txs : Coordinator(i) \/ FailCoordinator(i)
    <2>1. PICK i \in Txs : Coordinator(i) \/ FailCoordinator(i)
        BY <1>1
    <2>2. /\ coord[i] \in {"read", "execute", "stage"}
          /\ UNCHANGED <<status, failure_reports>>
        BY <2>1 DEF Coordinator, ReadSnapshot, ExecuteTx, StageOutcome, FailCoordinator,
                    shardVars, entryVars
    <2>3. ~AllOk
        BY <2>2 DEF AllOk
    <2>4. \A u \in Shards : ~PastDone(u)
        BY <2>3 DEF DoneBarrier
    <2>5. \A t \in Shards : failure_reports[t] = {}
        BY <2>3 DEF Conflicts
    <2> QED BY <2>2, <2>4, <2>5 DEF Conflicts, PastDone
<1>2. ASSUME NEW s \in Shards, PassDoneBarrier(s) PROVE Conflicts'
    <2>1. /\ UNCHANGED <<batch, coord, readers, writers, failure_reports>>
          /\ status' = [status EXCEPT ![s] = "report_failures"]
          /\ local_failed' = [local_failed EXCEPT ![s] = LocalFailedIndices(s)]
        BY <1>2 DEF PassDoneBarrier, Goto, history, coordVars, entryVars
    <2>2. \A u : LocalFailedIndices(u)' = LocalFailedIndices(u)
        BY <2>1 DEF LocalFailedIndices
    <2>3. AllOk' = AllOk
        BY <2>1 DEF AllOk, Txs
    <2>4. \A u \in Shards : PastDone(u)' => PastDone(u) \/ u = s
        BY <2>1 DEF PastDone, BarrierType
    <2>5. /\ local_failed'[s] = LocalFailedIndices(s)
          /\ \A u \in Shards : u # s => local_failed'[u] = local_failed[u]
        BY <2>1 DEF BarrierType
    <2>6. \A t \in Shards : \A r \in failure_reports'[t] : r \in failure_reports[t] /\ r.from \in Shards
        BY <2>1 DEF FailureBarrier
    <2> QED BY <2>2, <2>3, <2>4, <2>5, <2>6 DEF Conflicts
<1>3. ASSUME NEW s \in Shards, ReportFailures(s) \/ FailReport(s) PROVE Conflicts'
    <2>1. /\ UNCHANGED <<batch, coord, readers, writers, local_failed>>
          /\ status[s] \in {"report_done", "report_failures"}
          /\ \/ status' = status
             \/ status' = [status EXCEPT ![s] = "failure_barrier"] /\ status[s] = "report_failures"
             \/ status' = [status EXCEPT ![s] = "failed"]
        BY <1>3 DEF ReportFailures, FailReport, AfterReport, Goto, history, coordVars
    <2>2. \A u \in Shards : PastDone(u)' => PastDone(u)
        BY <2>1 DEF PastDone, BarrierType, BeforeDone
    <2>3. CASE failure_reports' = failure_reports
        BY <2>1, <2>2, <2>3, ConflictsKept
    <2>4. CASE failure_reports' # failure_reports
        <3>1. status[s] = "report_failures" /\ RecordFailures(s, Min(report_to[s]))
            BY <1>3, <2>4 DEF ReportFailures, FailReport
        <3>2. \A t \in Shards : \A r \in failure_reports'[t] :
                  r \in failure_reports[t] \/ r = [from |-> s, failed |-> local_failed[s]]
            BY <3>1 DEF RecordFailures, BarrierType
        <3>3. AllOk /\ local_failed[s] = LocalFailedIndices(s)
            BY <3>1 DEF Conflicts, PastDone, BeforeDone, DoneBarrier
        <3>4. \A u : LocalFailedIndices(u)' = LocalFailedIndices(u)
            BY <2>1 DEF LocalFailedIndices
        <3>5. AllOk' = AllOk
            BY <2>1 DEF AllOk, Txs
        <3>6. \A t \in Shards : \A r \in failure_reports'[t] :
                  r \in failure_reports[t] \/ r.from = s
            BY <3>2
        <3> QED BY <2>1, <2>2, <3>3, <3>4, <3>5, <3>6 DEF Conflicts
    <2> QED BY <2>3, <2>4
<1>4. ASSUME NEW s \in Shards,
             \/ CollectCoordinators(s) \/ ReportDone(s) \/ KeepWaiting(s)
             \/ Notified(s) \/ PassFailureBarrier(s) \/ Install(s)
      PROVE  Conflicts'
    <2>1. UNCHANGED <<batch, coord, readers, writers, local_failed, failure_reports>>
        BY <1>4 DEF CollectCoordinators, ReportDone, KeepWaiting, Notified, PassFailureBarrier,
                    Install, history, coordVars, entryVars, shardVars
    <2>2. \/ status' = status
          \/ status[s] = "execution" /\ status' = [status EXCEPT ![s] = "report_done"]
          \/ status' = [status EXCEPT ![s] = "failed"]
          \/ status[s] = "report_done" /\ status' = [status EXCEPT ![s] = "done_barrier"]
          \/ status[s] = "failure_barrier" /\ status' = [status EXCEPT ![s] = "install"]
          \/ status[s] = "install" /\ \/ status' = [status EXCEPT ![s] = "done"]
                                      \/ status' = [status EXCEPT ![s] = "waiting"]
        BY <1>4 DEF CollectCoordinators, ReportDone, AfterReport, KeepWaiting, Notified,
                    PassFailureBarrier, Install, Goto, shardVars
    <2>3. \A u \in Shards : PastDone(u)' => PastDone(u)
        BY <2>2 DEF PastDone, BarrierType, BeforeDone
    <2> QED BY <2>1, <2>3, ConflictsKept
<1>5. ASSUME NEW s \in Shards, StartBatch(s) PROVE Conflicts'
    <2>1. /\ UNCHANGED <<batch, readers, writers, local_failed, failure_reports>>
          /\ status[s] = "idle" /\ status' = [status EXCEPT ![s] = "execution"]
          /\ coord' = [i \in Txs |-> IF Home(i) = s THEN "read" ELSE coord[i]]
        BY <1>5 DEF StartBatch, Goto, history, entryVars
    <2>2. \A u \in Shards : PastDone(u)' => PastDone(u)
        BY <2>1 DEF PastDone, BarrierType, BeforeDone
    <2>3. \A u : LocalFailedIndices(u)' = LocalFailedIndices(u)
        BY <2>1 DEF LocalFailedIndices
    <2>4. AllOk => AllOk'
        BY <2>1 DEF AllOk, Txs, DoneBarrier
    <2> QED BY <2>1, <2>2, <2>3, <2>4 DEF Conflicts
<1>6. CASE UNCHANGED allVars \/ FallbackStep
    <2>1. UNCHANGED <<batch, optVars>> /\ \A s \in Shards : FallbackMoves(s)
        <3>1. CASE UNCHANGED allVars
            BY <3>1 DEF allVars, vars, optVars, history, shardVars, coordVars, entryVars,
                        FallbackMoves
        <3>2. CASE FallbackStep
            BY <3>2, FallbackEffect
        <3> QED BY <1>6, <3>1, <3>2
    <2>2. UNCHANGED <<batch, coord, readers, writers, local_failed, failure_reports>>
        BY <2>1 DEF optVars, coordVars, entryVars
    <2>3. \A u \in Shards : PastDone(u)' => PastDone(u)
        BY <2>1 DEF PastDone, FallbackMoves, BeforeDone
    <2> QED BY <2>2, <2>3, ConflictsKept
<1>7. CASE \E s \in Shards : Executor(s) \/ FailReport(s)
    BY <1>7, <1>2, <1>3, <1>4, <1>5 DEF Executor
<1> QED BY <1>1, <1>6, <1>7
        DEF SchedulerNext, Optimistic, RpcFails, FallBack, FallbackStep, TaskStep, RpcStep

-----------------------------------------------------------------------------
(* What the shards install *)

\* The run over the staged outcomes: it starts with the store of the shard, applies
\* the outcomes that it installs and skips the others.
LEMMA InstallRunSteps ==
    ASSUME NEW s, NEW L \in Nat, Len(batch) = L, store[s] \in State,
           \A n \in 1 .. L : /\ staged[s][n].writes \in Writes(Keys)
                             /\ staged[s][n].local \in SUBSET DOMAIN staged[s][n].writes
    PROVE  /\ InstallRun(s)[0] = store[s]
           /\ \A n \in 0 .. L : InstallRun(s)[n] \in State
           /\ \A n \in 1 .. L : InstallRun(s)[n] =
                 IF Installs(s, n)
                 THEN ApplyWrites(InstallRun(s)[n - 1], staged[s][n].writes, staged[s][n].local)
                 ELSE InstallRun(s)[n - 1]
<1> DEFINE IsRun(f) ==
        f = [n \in 0 .. L |->
                IF n = 0 THEN store[s]
                ELSE IF Installs(s, n)
                THEN ApplyWrites(f[n - 1], staged[s][n].writes, staged[s][n].local)
                ELSE f[n - 1]]
           step == [n \in 1 .. L |-> [st \in State |->
                        IF Installs(s, n)
                        THEN ApplyWrites(st, staged[s][n].writes, staged[s][n].local) ELSE st]]
           run == InstallRun(s)
<1>1. step \in [1 .. L -> [State -> State]]
    BY ApplyWritesType
<1>2. PICK f \in [0 .. L -> State] :
          f[0] = store[s] /\ \A n \in 1 .. L : f[n] = step[n][f[n - 1]]
    <2> DEFINE first == store[s]
    <2>1. first \in State
        OBVIOUS
    <2> HIDE DEF step, first
    <2>2. \E f \in [0 .. L -> State] :
              f[0] = first /\ \A n \in 1 .. L : f[n] = step[n][f[n - 1]]
        BY <1>1, <2>1, RunExists
    <2> QED BY <2>2 DEF first
<1>3. \A n \in 1 .. L : /\ n \in 0 .. L /\ n # 0
                        /\ f[n] = IF Installs(s, n)
                                  THEN ApplyWrites(f[n - 1], staged[s][n].writes, staged[s][n].local)
                                  ELSE f[n - 1]
    <2> SUFFICES ASSUME NEW n \in 1 .. L
                 PROVE  /\ n \in 0 .. L /\ n # 0
                        /\ f[n] = IF Installs(s, n)
                                  THEN ApplyWrites(f[n - 1], staged[s][n].writes, staged[s][n].local)
                                  ELSE f[n - 1]
        OBVIOUS
    <2>1. n - 1 \in 0 .. L /\ n \in 0 .. L /\ n # 0
        OBVIOUS
    <2>2. f[n - 1] \in State /\ f[n] = step[n][f[n - 1]]
        BY <1>2, <2>1
    <2> QED BY <2>1, <2>2
<1>4. IsRun(f)
    <2>1. \A n \in 0 .. L : n = 0 \/ n \in 1 .. L
        OBVIOUS
    <2>2. \A n \in 0 .. L : f[n] = IF n = 0 THEN store[s]
                ELSE IF Installs(s, n)
                THEN ApplyWrites(f[n - 1], staged[s][n].writes, staged[s][n].local)
                ELSE f[n - 1]
        BY <1>2, <1>3, <2>1
    <2> QED BY <1>2, <2>2
<1>5. run = CHOOSE g : IsRun(g)
    BY DEF InstallRun
<1>6. IsRun(run)
    <2> HIDE DEF IsRun
    <2> QED BY <1>4, <1>5
<1> HIDE DEF run
<1>7. \A n \in 0 .. L : run[n] = IF n = 0 THEN store[s]
                ELSE IF Installs(s, n)
                THEN ApplyWrites(run[n - 1], staged[s][n].writes, staged[s][n].local)
                ELSE run[n - 1]
    BY <1>6
<1>8. \A n \in 1 .. L : n \in 0 .. L /\ n # 0
    OBVIOUS
<1>9. run[0] = store[s]
    BY <1>7
<1>10. \A n \in 1 .. L : run[n] =
           IF Installs(s, n) THEN ApplyWrites(run[n - 1], staged[s][n].writes, staged[s][n].local)
           ELSE run[n - 1]
    BY <1>7, <1>8
<1>11. ASSUME NEW n \in 1 .. L, run[n - 1] \in State PROVE run[n] \in State
    <2> DEFINE ws == staged[s][n].writes
               local == staged[s][n].local
               st == run[n - 1]
    <2>1. st \in State /\ ws \in Writes(Keys) /\ local \in SUBSET DOMAIN ws
        BY <1>11
    <2> HIDE DEF ws, local, st
    <2>2. ApplyWrites(st, ws, local) \in State
        BY <2>1, ApplyWritesType
    <2> QED BY <1>10, <2>1, <2>2 DEF ws, local, st
<1>12. \A n \in 0 .. L : run[n] \in State
    BY <1>9, <1>11, RunStays
<1> QED BY <1>9, <1>10, <1>12 DEF run

\* What one outcome does to the part of shard s, kept writes only, is its part of
\* what it does to the whole state.
LEMMA PartOfWrites ==
    ASSUME NEW st \in State, NEW s \in Shards, NEW ws
    PROVE  ApplyWrites(Part(st, s), ws, FilterLocalWrites(ws, s)) =
               Part(ApplyWrites(st, ws, DOMAIN ws), s)
<1> DEFINE local == FilterLocalWrites(ws, s)
<1>1. DOMAIN Part(st, s) = Keys /\ DOMAIN st = Keys
    BY DEF Part, State
<1>2. ASSUME NEW k \in Keys
      PROVE  ApplyWrites(Part(st, s), ws, local)[k] = Part(ApplyWrites(st, ws, DOMAIN ws), s)[k]
    <2> DEFINE hits == {w \in local : ws[w].key = k}
               all  == {w \in DOMAIN ws : ws[w].key = k}
    <2>1. ApplyWrites(Part(st, s), ws, local)[k] =
              IF hits = {} THEN Part(st, s)[k] ELSE ws[Max(hits)].value
        BY <1>1 DEF ApplyWrites
    <2>2. ApplyWrites(st, ws, DOMAIN ws)[k] =
              IF all = {} THEN st[k] ELSE ws[Max(all)].value
        BY <1>1 DEF ApplyWrites
    <2>3. hits = IF Owner[k] = s THEN all ELSE {}
        BY DEF FilterLocalWrites
    <2> HIDE DEF hits, all, local
    <2>4. Part(st, s)[k] = IF Owner[k] = s THEN st[k] ELSE Missing
        BY DEF Part
    <2>5. Part(ApplyWrites(st, ws, DOMAIN ws), s)[k] =
              IF Owner[k] = s THEN ApplyWrites(st, ws, DOMAIN ws)[k] ELSE Missing
        BY DEF Part
    <2> QED BY <2>1, <2>2, <2>3, <2>4, <2>5
<1>3. ApplyWrites(Part(st, s), ws, local) =
          [k \in Keys |-> ApplyWrites(Part(st, s), ws, local)[k]]
    BY <1>1 DEF ApplyWrites
<1>4. Part(ApplyWrites(st, ws, DOMAIN ws), s) =
          [k \in Keys |-> Part(ApplyWrites(st, ws, DOMAIN ws), s)[k]]
    BY DEF Part
<1> HIDE DEF local
<1>5. ApplyWrites(Part(st, s), ws, local) = Part(ApplyWrites(st, ws, DOMAIN ws), s)
    BY <1>2, <1>3, <1>4
<1> QED BY <1>5 DEF local

\* A success has no writer in front of it on the keys that it reads.
LEMMA NoEarlierWriter ==
    ASSUME BarrierInv, Tables, AllOk, NEW i \in Txs,
           i \notin UNION {LocalFailedIndices(u) : u \in Shards},
           NEW k \in ReadSet(batch[i]), NEW j \in writers[k], j < i
    PROVE  FALSE
<1>1. k \in Keys /\ Owner[k] \in Shards
    BY TxFacts, RouterAssumption DEF BarrierInv, BarrierType
<1>2. i \in readers[k]
    BY DEF AllOk, Tables, TablesOf, HasRead
<1>3. i \in LocalFailedIndices(Owner[k])
    BY <1>1, <1>2 DEF LocalFailedIndices
<1> QED BY <1>1, <1>3

\* So it computes from the snapshot what it would compute behind the successes in
\* front of it.
LEMMA SuccessOutput ==
    ASSUME BarrierInv, Tables, AllOk, NEW i \in Txs,
           i \notin UNION {LocalFailedIndices(u) : u \in Shards},
           NEW st, \A k \in Keys : st[k] # start[k] => \E j \in writers[k] : j < i
    PROVE  ReferenceOutput(st, batch[i].op) = SnapshotOutput(i)
<1>1. \A k \in ReadSet(batch[i]) : st[k] = start[k]
    BY NoEarlierWriter, TxFacts DEF BarrierInv, BarrierType
<1>2. ReadFrom(st, batch[i].op) = ReadFrom(start, batch[i].op)
    BY <1>1 DEF ReadFrom, ReadSet
<1> QED BY <1>2 DEF ReferenceOutput, SnapshotOutput

\* What a shard has staged for a transaction, when all coordinators are done: its
\* own part of the output.
LEMMA StagedPart ==
    ASSUME BarrierInv, Tables, AllOk, NEW i \in Txs, NEW s \in Shards
    PROVE  /\ staged[s][i].writes \in Writes(Keys)
           /\ staged[s][i].local \in SUBSET DOMAIN staged[s][i].writes
           /\ \A st \in State : ApplyWrites(Part(st, s), staged[s][i].writes, staged[s][i].local) =
                  Part(ApplyWrites(st, SnapshotOutput(i).writes, DOMAIN SnapshotOutput(i).writes), s)
<1> DEFINE ws == SnapshotOutput(i).writes
<1>1. /\ SnapshotOutput(i) \in Outcome(WriteSet(batch[i]))
      /\ \A w \in DOMAIN ws : ws[w].key \in WriteSet(batch[i]) /\ ws[w].key \in Keys
    BY OutputFacts DEF BarrierInv
<1>2. ws \in Writes(Keys)
    <2>1. WriteSet(batch[i]) \subseteq Keys
        BY TxFacts, SetsInKeys DEF WriteSet, OrderedTx, BarrierInv, BarrierType
    <2> DEFINE own == [key : WriteSet(batch[i]), value : ReadValue]
               any == [key : Keys, value : ReadValue]
    <2>2. own \subseteq any
        BY <2>1
    <2>3. ws \in Seq(own)
        BY <1>1 DEF Outcome, Writes
    <2> HIDE DEF ws, own, any
    <2>4. ws \in Seq(any)
        BY <2>2, <2>3, SeqMonotonic
    <2> QED BY <2>4 DEF Writes, any
<1>3. staged[s][i] = IF s \in OutputShards(i) THEN KeptAt(i, s) ELSE NotStaged
    BY DEF AllOk, Tables, TablesOf, HasStaged
<1>4. CASE s \in OutputShards(i)
    <2>1. staged[s][i].writes = ws /\ staged[s][i].local = FilterLocalWrites(ws, s)
        BY <1>3, <1>4 DEF KeptAt
    <2>2. FilterLocalWrites(ws, s) \in SUBSET DOMAIN ws
        BY DEF FilterLocalWrites
    <2> HIDE DEF ws
    <2>3. \A st \in State : ApplyWrites(Part(st, s), ws, FilterLocalWrites(ws, s)) =
                                Part(ApplyWrites(st, ws, DOMAIN ws), s)
        BY PartOfWrites
    <2> QED BY <1>2, <2>1, <2>2, <2>3 DEF ws
<1>5. CASE s \notin OutputShards(i)
    <2>1. staged[s][i].writes = << >> /\ staged[s][i].local = {}
        BY <1>3, <1>5 DEF NotStaged
    <2>2. FilterLocalWrites(ws, s) = {}
        BY <1>5 DEF OutputShards, FilterLocalWrites
    <2>3. << >> \in Writes(Keys)
        BY DEF Writes
    <2>4. ASSUME NEW st \in State
          PROVE  ApplyWrites(Part(st, s), << >>, {}) = ApplyWrites(Part(st, s), ws, {})
        BY DEF ApplyWrites
    <2> HIDE DEF ws
    <2>5. \A st \in State : ApplyWrites(Part(st, s), ws, FilterLocalWrites(ws, s)) =
                                Part(ApplyWrites(st, ws, DOMAIN ws), s)
        BY PartOfWrites
    <2> QED BY <2>1, <2>2, <2>3, <2>4, <2>5 DEF ws
<1> QED BY <1>4, <1>5

\* Where an output writes, its transaction is among the writers.
LEMMA ChangedByWriter ==
    ASSUME BarrierInv, Tables, AllOk, NEW i \in Txs, NEW st \in State, NEW k \in Keys,
           ApplyWrites(st, SnapshotOutput(i).writes, DOMAIN SnapshotOutput(i).writes)[k] # st[k]
    PROVE  i \in writers[k]
<1> DEFINE ws == SnapshotOutput(i).writes
<1>1. \E w \in DOMAIN ws : ws[w].key = k
    BY DEF ApplyWrites, State
<1>2. \A w \in DOMAIN ws : i \in writers[ws[w].key]
    BY DEF AllOk, Tables, TablesOf, HasStaged
<1> QED BY <1>1, <1>2

\* The serial execution of the successes: each of them changes only keys that it is
\* among the writers of, and so computes there what it has computed from the
\* snapshot.
LEMMA SuccessSteps ==
    ASSUME BarrierInv, Tables, AllOk, NEW f, f = UNION {LocalFailedIndices(u) : u \in Shards}
    PROVE  /\ SuccessRun(start, batch, f)[0] = start
           /\ \A n \in 0 .. Len(batch) : SuccessRun(start, batch, f)[n] \in State
           /\ \A n \in 1 .. Len(batch) : n \in f =>
                 SuccessRun(start, batch, f)[n] = SuccessRun(start, batch, f)[n - 1]
           /\ \A n \in 1 .. Len(batch) : n \notin f =>
                 /\ ReferenceOutput(SuccessRun(start, batch, f)[n - 1], batch[n].op) = SnapshotOutput(n)
                 /\ SuccessRun(start, batch, f)[n] =
                        ApplyWrites(SuccessRun(start, batch, f)[n - 1],
                                    SnapshotOutput(n).writes, DOMAIN SnapshotOutput(n).writes)
<1> USE DEF BarrierInv
<1> DEFINE L   == Len(batch)
           run == SuccessRun(start, batch, f)
           Good(n) == \A k \in Keys : run[n][k] # start[k] => \E j \in writers[k] : j \in 1 .. n
           bad == {n \in 0 .. L : ~Good(n)}
<1>1. L \in Nat /\ Txs = 1 .. L /\ start \in State
    BY AriaAssumption DEF BarrierType, Staging, Txs
<1>2. /\ run[0] = start
      /\ \A n \in 0 .. L : run[n] \in State
      /\ \A n \in 1 .. L : run[n] = IF n \in Txs \ f
                                    THEN ApplyReferenceTx(run[n - 1], batch[n].op)
                                    ELSE run[n - 1]
    <2>1. \A n \in 1 .. L : batch[n].op \in FsOp
        BY <1>1, TxFacts DEF BarrierType, OrderedTx
    <2> DEFINE ok == SpeculativeSuccesses(batch, f)
    <2>2. ok = Txs \ f /\ run = ExecuteIndices(start, batch, ok)
        BY DEF SpeculativeSuccesses, SuccessRun, Txs
    <2> HIDE DEF run, ok
    <2>3. /\ ExecuteIndices(start, batch, ok)[0] = start
          /\ \A n \in 0 .. L : ExecuteIndices(start, batch, ok)[n] \in State
          /\ \A n \in 1 .. L : ExecuteIndices(start, batch, ok)[n] =
                IF n \in ok
                THEN ApplyReferenceTx(ExecuteIndices(start, batch, ok)[n - 1], batch[n].op)
                ELSE ExecuteIndices(start, batch, ok)[n - 1]
        BY <1>1, <2>1, ExecuteIndicesSteps
    <2> QED BY <2>2, <2>3
<1> HIDE DEF run
<1>3. ASSUME NEW n \in 1 .. L, n \notin f, Good(n - 1)
      PROVE  /\ ReferenceOutput(run[n - 1], batch[n].op) = SnapshotOutput(n)
             /\ run[n] = ApplyWrites(run[n - 1], SnapshotOutput(n).writes, DOMAIN SnapshotOutput(n).writes)
    <2>1. n \in Txs /\ \A j \in 1 .. n - 1 : j < n
        BY <1>1
    <2>2. \A k \in Keys : run[n - 1][k] # start[k] => \E j \in writers[k] : j < n
        BY <1>3, <2>1
    <2>3. ReferenceOutput(run[n - 1], batch[n].op) = SnapshotOutput(n)
        BY <1>3, <2>1, <2>2, SuccessOutput
    <2> QED BY <1>2, <1>3, <2>1, <2>3 DEF ApplyReferenceTx
<1>4. ASSUME NEW n \in 1 .. L, Good(n - 1) PROVE Good(n)
    <2>1. n \in Nat /\ n \in Txs /\ n - 1 \in 0 .. L /\ n \in 1 .. n /\ \A j \in 1 .. n - 1 : j \in 1 .. n
        BY <1>1
    <2> SUFFICES ASSUME NEW k \in Keys, run[n][k] # start[k] PROVE \E j \in writers[k] : j \in 1 .. n
        OBVIOUS
    <2>2. CASE run[n][k] = run[n - 1][k]
        BY <1>4, <2>1, <2>2
    <2>3. CASE run[n][k] # run[n - 1][k]
        <3>1. n \notin f
            BY <1>2, <2>3
        <3>2. run[n] = ApplyWrites(run[n - 1], SnapshotOutput(n).writes, DOMAIN SnapshotOutput(n).writes)
            BY <1>3, <1>4, <3>1
        <3>3. n \in writers[k]
            BY <1>2, <2>1, <2>3, <3>2, ChangedByWriter
        <3> QED BY <2>1, <3>3
    <2> QED BY <2>2, <2>3
<1>5. bad = {}
    <2> SUFFICES ASSUME bad # {} PROVE FALSE
        OBVIOUS
    <2>1. PICK m \in bad : \A y \in bad : m <= y
        <3>1. bad \subseteq Nat
            BY <1>1
        <3> HIDE DEF bad
        <3> QED BY <3>1, NatMin
    <2>2. m \in 0 .. L /\ ~Good(m)
        OBVIOUS
    <2>3. m # 0
        BY <1>2, <2>2
    <2>4. m \in 1 .. L /\ m - 1 \in 0 .. L /\ ~(m <= m - 1)
        BY <1>1, <2>2, <2>3
    <2>5. m - 1 \notin bad
        <3> HIDE DEF bad
        <3> QED BY <2>1, <2>4
    <2>6. Good(m - 1)
        BY <2>4, <2>5
    <2> HIDE DEF Good
    <2> QED BY <1>4, <2>2, <2>4, <2>6
<1>6. ASSUME NEW n \in 1 .. L, n \notin f
      PROVE  /\ ReferenceOutput(run[n - 1], batch[n].op) = SnapshotOutput(n)
             /\ run[n] = ApplyWrites(run[n - 1], SnapshotOutput(n).writes, DOMAIN SnapshotOutput(n).writes)
    <2>1. n - 1 \in 0 .. L
        BY <1>1
    <2>2. Good(n - 1)
        BY <1>5, <2>1
    <2> QED BY <1>3, <1>6, <2>2
<1> QED BY <1>2, <1>6 DEF run

\* A shard installs its part of the serial execution of the successes.
LEMMA InstallRunIsPart ==
    ASSUME BarrierInv, Tables, AllOk, NEW s \in Shards, store[s] = Part(start, s),
           failed[s] = UNION {LocalFailedIndices(u) : u \in Shards}
    PROVE  InstallRun(s)[Len(batch)] = Part(SuccessState(start, batch, failed[s]), s)
<1> USE DEF BarrierInv
<1> DEFINE L   == Len(batch)
           run == SuccessRun(start, batch, failed[s])
           ins == InstallRun(s)
           Good(n) == ins[n] = Part(run[n], s)
           bad == {n \in 0 .. L : ~Good(n)}
<1>1. L \in Nat /\ Txs = 1 .. L /\ start \in State
    BY AriaAssumption DEF BarrierType, Staging, Txs
<1>2. /\ run[0] = start
      /\ \A n \in 0 .. L : run[n] \in State
      /\ \A n \in 1 .. L : n \in failed[s] => run[n] = run[n - 1]
      /\ \A n \in 1 .. L : n \notin failed[s] => run[n] =
            ApplyWrites(run[n - 1], SnapshotOutput(n).writes, DOMAIN SnapshotOutput(n).writes)
    BY SuccessSteps
<1>3. /\ ins[0] = store[s]
      /\ \A n \in 1 .. L : ins[n] =
            IF n \notin failed[s]
            THEN ApplyWrites(ins[n - 1], staged[s][n].writes, staged[s][n].local)
            ELSE ins[n - 1]
    <2>1. Part(start, s) \in State
        BY <1>1, InodeTypes DEF Part, State
    <2>2. \A n \in 1 .. L : /\ staged[s][n].writes \in Writes(Keys)
                            /\ staged[s][n].local \in SUBSET DOMAIN staged[s][n].writes
        BY <1>1, StagedPart
    <2>3. store[s] \in State /\ Len(batch) = L
        BY <2>1
    <2> HIDE DEF ins, L
    <2>4. /\ InstallRun(s)[0] = store[s]
          /\ \A n \in 1 .. L : InstallRun(s)[n] =
                IF Installs(s, n)
                THEN ApplyWrites(InstallRun(s)[n - 1], staged[s][n].writes, staged[s][n].local)
                ELSE InstallRun(s)[n - 1]
        BY <1>1, <2>2, <2>3, InstallRunSteps
    <2> QED BY <2>4 DEF ins, Installs
<1> HIDE DEF run, ins, L
<1>4. Good(0)
    BY <1>2, <1>3
<1>5. ASSUME NEW n \in 1 .. L, Good(n - 1) PROVE Good(n)
    <2>1. n \in Nat /\ n \in Txs /\ n - 1 \in 0 .. L
        BY <1>1
    <2>2. CASE n \in failed[s]
        BY <1>2, <1>3, <1>5, <2>2
    <2>3. CASE n \notin failed[s]
        <3> DEFINE ws == SnapshotOutput(n).writes
                   st == run[n - 1]
        <3>1. ins[n] = ApplyWrites(Part(st, s), staged[s][n].writes, staged[s][n].local)
            BY <1>3, <1>5, <2>1, <2>3
        <3>2. st \in State /\ run[n] = ApplyWrites(st, ws, DOMAIN ws)
            BY <1>2, <2>1, <2>3
        <3> HIDE DEF st
        <3>3. ApplyWrites(Part(st, s), staged[s][n].writes, staged[s][n].local) =
                  Part(ApplyWrites(st, ws, DOMAIN ws), s)
            BY <2>1, <3>2, StagedPart
        <3> QED BY <3>1, <3>2, <3>3
    <2> QED BY <2>2, <2>3
<1>6. bad = {}
    <2> SUFFICES ASSUME bad # {} PROVE FALSE
        OBVIOUS
    <2>1. PICK m \in bad : \A y \in bad : m <= y
        <3>1. bad \subseteq Nat
            BY <1>1
        <3> HIDE DEF bad
        <3> QED BY <3>1, NatMin
    <2>2. m \in 0 .. L /\ ~Good(m)
        OBVIOUS
    <2>3. m # 0
        BY <1>4, <2>2
    <2>4. m \in 1 .. L /\ m - 1 \in 0 .. L /\ ~(m <= m - 1)
        BY <1>1, <2>2, <2>3
    <2>5. m - 1 \notin bad
        <3> HIDE DEF bad
        <3> QED BY <2>1, <2>4
    <2>6. Good(m - 1)
        BY <2>4, <2>5
    <2> HIDE DEF Good
    <2> QED BY <1>5, <2>2, <2>4, <2>6
<1>7. Good(L)
    <2>1. L \in 0 .. L
        BY <1>1
    <2> HIDE DEF Good
    <2> QED BY <1>6, <2>1
<1> QED BY <1>7 DEF run, ins, L, SuccessState

\* Workers of the fallback run where there are failed transactions.  A shard that
\* has not installed holds its part of what the batch found, and one that has, but
\* has not begun the fallback, its part of the serial execution of the successes.
Installing ==
    /\ DOMAIN store = Shards
    /\ \A s \in Shards : InFallback(s) =>
          failed[s] # {} /\ status[s] \in {"running", "done", "failed"}
    /\ \A s \in Shards : status[s] \in {"waiting", "running"} => failed[s] # {}
    /\ \A s \in Shards : status[s] \in BeforeDone \cup {"report_failures", "failure_barrier", "install"}
          => store[s] = Part(start, s)
    /\ \A s \in Shards : status[s] = "waiting" \/ (status[s] = "done" /\ failed[s] = {}) =>
          store[s] = Part(SuccessState(start, batch, failed[s]), s)

\* A step of the fallback changes the store of a shard that has workers, and new
\* workers are spawned for failed transactions only.
LEMMA FallbackStores ==
    ASSUME BarrierType, DOMAIN store = Shards, FallbackStep
    PROVE  /\ DOMAIN store' = Shards
           /\ \A s \in Shards : store'[s] = store[s] \/ InFallback(s)
           /\ \A s \in Shards : InFallback(s)' =>
                 InFallback(s) \/ (failed[s] # {} /\ status'[s] = "running")
<1>1. ASSUME NEW s \in Shards, Fallback!StartBatch(s)
      PROVE  /\ store' = store
             /\ \A u \in Shards : InFallback(u)' =>
                   InFallback(u) \/ (failed[u] # {} /\ status'[u] = "running")
    <2>1. /\ store' = store /\ batch' = batch
          /\ status' = [status EXCEPT ![s] = "running"]
          /\ pc' = [pc EXCEPT ![s] =
                [i \in Txs |-> IF Fallback!Relevant(s, i) THEN "locks" ELSE "none"]]
        BY <1>1 DEF Fallback!StartBatch, Fallback!history, Fallback!Txs, Txs
    <2>2. \A i \in Txs : Fallback!Relevant(s, i) => failed[s] # {}
        BY DEF Fallback!Relevant, FallbackMembers
    <2>3. \A u \in Shards : u # s => pc'[u] = pc[u]
        BY <2>1 DEF BarrierType
    <2>4. \A i \in Txs : pc'[s][i] # "none" => Fallback!Relevant(s, i)
        BY <2>1 DEF BarrierType
    <2>5. Txs' = Txs /\ status'[s] = "running"
        BY <2>1 DEF Txs, BarrierType
    <2> QED BY <2>1, <2>2, <2>3, <2>4, <2>5 DEF InFallback
<1>2. ASSUME NEW s \in Shards, Fallback!FinishBatch(s) \/ \E i \in Txs : Fallback!CollectOutcome(s, i)
      PROVE  store' = store /\ pc' = pc /\ batch' = batch
    BY <1>2 DEF Fallback!FinishBatch, Fallback!CollectOutcome, Fallback!workVars, Fallback!history
<1>3. ASSUME NEW s \in Shards, NEW i \in Txs,
             Fallback!Worker(s, i) \/ Fallback!FailReadResult(s, i)
      PROVE  /\ DOMAIN store' = Shards
             /\ \A u \in Shards : u # s => store'[u] = store[u]
             /\ InFallback(s)
    <2>1. pc[s][i] # "none"
        BY <1>3 DEF Fallback!Worker, Fallback!AcquireAndRead, Fallback!SendReadResult,
                    Fallback!CollectReadResult, Fallback!ExecuteAndApply, Fallback!OrphanFails,
                    Fallback!FailReadResult
    <2>2. store' = store \/ \E v : store' = [store EXCEPT ![s] = v]
        <3>1. CASE Fallback!ExecuteAndApply(s, i)
            BY <3>1 DEF Fallback!ExecuteAndApply
        <3>2. CASE ~Fallback!ExecuteAndApply(s, i)
            BY <1>3, <3>2 DEF Fallback!Worker, Fallback!AcquireAndRead, Fallback!SendReadResult,
                    Fallback!CollectReadResult, Fallback!OrphanFails,
                    Fallback!FailReadResult, Fallback!shardVars
        <3> QED BY <3>1, <3>2
    <2> QED BY <2>1, <2>2 DEF InFallback
<1>5. batch' = batch /\ pc' = pc => \A s \in Shards : InFallback(s)' = InFallback(s)
    BY DEF InFallback, Txs
<1>6. CASE \E s \in Shards : Fallback!Coordinator(s)
    <2>1. PICK s \in Shards : \/ Fallback!StartBatch(s) \/ Fallback!FinishBatch(s)
                              \/ \E i \in Txs : Fallback!CollectOutcome(s, i)
        BY <1>6 DEF Fallback!Coordinator, Fallback!Txs, Txs
    <2>2. CASE Fallback!StartBatch(s)
        BY <1>1, <2>2
    <2>3. CASE Fallback!FinishBatch(s) \/ \E i \in Txs : Fallback!CollectOutcome(s, i)
        BY <1>2, <1>5, <2>3
    <2> QED BY <2>1, <2>2, <2>3
<1>7. CASE \E s \in Shards, i \in Txs : Fallback!Worker(s, i) \/ Fallback!FailReadResult(s, i)
    <2>1. PICK s \in Shards, i \in Txs : Fallback!Worker(s, i) \/ Fallback!FailReadResult(s, i)
        BY <1>7
    <2>2. \A u \in Shards : InFallback(u)' => InFallback(u)
        <3>1. batch' = batch
            BY FallbackEffect
        <3>2. pc[s][i] # "none" /\ \A u \in Shards, j \in Txs : pc'[u][j] = pc[u][j] \/ (u = s /\ j = i)
            BY <2>1, WorkerMoves DEF BarrierType
        <3> QED BY <3>1, <3>2 DEF InFallback, Txs
    <2> QED BY <1>3, <2>1, <2>2
<1>8. \/ \E s \in Shards : Fallback!Coordinator(s)
      \/ \E s \in Shards, i \in Txs : Fallback!Worker(s, i) \/ Fallback!FailReadResult(s, i)
    BY DEF FallbackStep, Fallback!TaskStep, Fallback!Txs, Txs, Fallback!Shards, Shards
<1> QED BY <1>6, <1>7, <1>8

\* What a shard installs.
LEMMA InstallKeepsInstalling ==
    ASSUME BarrierInv, Tables, Conflicts, Installing, NEW s \in Shards, Install(s), UNCHANGED pc
    PROVE  Installing'
<1> USE DEF BarrierInv
<1>1. /\ UNCHANGED <<batch, start, failed>>
      /\ status[s] = "install"
      /\ status' = [status EXCEPT ![s] = IF failed[s] = {} THEN "done" ELSE "waiting"]
      /\ store' = [store EXCEPT ![s] = InstallRun(s)[Len(batch)]]
    BY DEF Install, Goto, history
<1>2. AllOk /\ failed[s] = UNION {local_failed[u] : u \in Shards} /\ Shards \subseteq Reporters(s)
    BY <1>1 DEF DoneBarrier, PastDone, BeforeDone, FailureBarrier, Decided
<1>3. \A u \in Shards : local_failed[u] = LocalFailedIndices(u)
    BY <1>2 DEF Conflicts, Reporters
<1>4. failed[s] = UNION {LocalFailedIndices(u) : u \in Shards}
    BY <1>2, <1>3
<1>5. store[s] = Part(start, s)
    BY <1>1 DEF Installing
<1>6. InstallRun(s)[Len(batch)] = Part(SuccessState(start, batch, failed[s]), s)
    BY <1>2, <1>4, <1>5, InstallRunIsPart
<1>7. /\ DOMAIN store' = Shards
      /\ store'[s] = Part(SuccessState(start, batch, failed[s]), s)
      /\ \A u \in Shards : u # s => store'[u] = store[u] /\ status'[u] = status[u]
      /\ status'[s] = IF failed[s] = {} THEN "done" ELSE "waiting"
    BY <1>1, <1>6 DEF Installing, BarrierType
<1>8. \A u \in Shards : InFallback(u)' = InFallback(u)
    BY <1>1 DEF InFallback, Txs
<1>9. ~InFallback(s)
    BY <1>1 DEF Installing
<1> QED BY <1>1, <1>7, <1>8, <1>9 DEF Installing, Part, BeforeDone

\* The steps of the optimistic phase that write to no store.
LEMMA InstallingKept ==
    ASSUME BarrierInv, Installing, UNCHANGED <<batch, start, store, pc>>,
           \A u \in Shards : failed'[u] # failed[u] => status'[u] = "install",
           \A u \in Shards : status'[u] # status[u] =>
               /\ status[u] \notin {"waiting", "running", "done", "failed"}
               /\ status'[u] \in BeforeDone \cup
                                 {"report_failures", "failure_barrier", "install", "failed"}
    PROVE  Installing'
<1>1. \A u \in Shards : InFallback(u)' = InFallback(u)
    BY DEF InFallback, Txs
<1>2. \A u \in Shards : Part(start, u)' = Part(start, u)
    BY DEF Part
<1>3. \A u \in Shards : status'[u] \in {"waiting", "running", "done"} =>
          status'[u] = status[u] /\ failed'[u] = failed[u]
    BY DEF BeforeDone
<1>4. \A u \in Shards : InFallback(u)' =>
          failed'[u] # {} /\ status'[u] \in {"running", "done", "failed"}
    BY <1>1 DEF Installing
<1>5. \A u \in Shards :
          status'[u] \in BeforeDone \cup {"report_failures", "failure_barrier", "install"} =>
              status[u] \in BeforeDone \cup {"report_failures", "failure_barrier", "install"}
    BY DEF BarrierInv, BarrierType, Statuses
<1>6. \A u \in Shards : status'[u] = "waiting" \/ (status'[u] = "done" /\ failed'[u] = {}) =>
          store'[u] = Part(SuccessState(start, batch, failed[u]), u)'
    BY <1>3 DEF Installing, Part
<1> QED BY <1>2, <1>3, <1>4, <1>5, <1>6 DEF Installing

\* Every step keeps it.
LEMMA InstallingStep ==
    ASSUME BarrierInv, Tables, Conflicts, Installing, [SchedulerNext]_allVars
    PROVE  Installing'
<1> USE DEF BarrierInv
<1>1. ASSUME NEW i \in Txs, Coordinator(i) \/ FailCoordinator(i), UNCHANGED pc
      PROVE  Installing'
    <2>1. UNCHANGED <<batch, start, store, status, failed>>
        BY <1>1 DEF Coordinator, ReadSnapshot, ExecuteTx, StageOutcome, FailCoordinator,
                    history, shardVars
    <2> QED BY <1>1, <2>1, InstallingKept
<1>2. ASSUME NEW s \in Shards, Executor(s) \/ FailReport(s), ~Install(s), UNCHANGED pc
      PROVE  Installing'
    <2>1. UNCHANGED <<batch, start, store>>
        BY <1>2 DEF Executor, StartBatch, CollectCoordinators, ReportDone, ReportFailures,
                    KeepWaiting, Notified, PassDoneBarrier, PassFailureBarrier,
                    FailReport, history, shardVars
    <2>2. \/ status' = status
          \/ /\ status[s] \in BeforeDone \cup {"report_failures", "failure_barrier"}
             /\ \E where \in BeforeDone \cup {"report_failures", "failure_barrier", "install", "failed"} :
                   status' = [status EXCEPT ![s] = where]
        BY <1>2 DEF Executor, StartBatch, CollectCoordinators, ReportDone, ReportFailures,
                    KeepWaiting, Notified, PassDoneBarrier, PassFailureBarrier,
                    FailReport, AfterReport, Goto, shardVars, BeforeDone
    <2>3. \/ failed' = failed
          \/ /\ failed' = [failed EXCEPT ![s] = UNION {r.failed : r \in failure_reports[s]}]
             /\ status' = [status EXCEPT ![s] = "install"]
        BY <1>2 DEF Executor, StartBatch, CollectCoordinators, ReportDone, ReportFailures,
                    KeepWaiting, Notified, PassDoneBarrier, PassFailureBarrier,
                    FailReport, Goto, shardVars
    <2>4. \A u \in Shards : failed'[u] # failed[u] => status'[u] = "install"
        BY <2>3 DEF BarrierType
    <2>5. \A u \in Shards : status'[u] # status[u] =>
              /\ status[u] \notin {"waiting", "running", "done", "failed"}
              /\ status'[u] \in BeforeDone \cup
                                {"report_failures", "failure_barrier", "install", "failed"}
        BY <2>2 DEF BarrierType, BeforeDone
    <2> QED BY <1>2, <2>1, <2>4, <2>5, InstallingKept
<1>3. CASE FallbackStep
    <2>1. /\ UNCHANGED <<batch, start, failed>>
          /\ status' \in [Shards -> Statuses]
          /\ \A s \in Shards : FallbackMoves(s)
        BY <1>3, FallbackEffect DEF optVars
    <2>2. /\ DOMAIN store' = Shards
          /\ \A s \in Shards : store'[s] = store[s] \/ InFallback(s)
          /\ \A s \in Shards : InFallback(s)' =>
                InFallback(s) \/ (failed[s] # {} /\ status'[s] = "running")
        BY <1>3, FallbackStores DEF Installing
    <2>3. \A s \in Shards : InFallback(s)' =>
              failed'[s] # {} /\ status'[s] \in {"running", "done", "failed"}
        BY <2>1, <2>2 DEF Installing, FallbackMoves
    <2>4. \A s \in Shards : status'[s] \in {"waiting", "running"} => failed'[s] # {}
        BY <2>1 DEF Installing, FallbackMoves
    <2>5. \A s \in Shards :
              status'[s] \in BeforeDone \cup {"report_failures", "failure_barrier", "install"} =>
                  status'[s] = status[s] /\ store'[s] = store[s]
        BY <2>1, <2>2 DEF Installing, FallbackMoves, BeforeDone
    <2>6. \A s \in Shards : status'[s] = "waiting" \/ (status'[s] = "done" /\ failed'[s] = {}) =>
              status'[s] = status[s] /\ store'[s] = store[s]
        BY <2>1, <2>2 DEF Installing, FallbackMoves
    <2>7. \A s \in Shards : Part(start, s)' = Part(start, s)
        BY <2>1 DEF Part
    <2>8. \A s \in Shards : status'[s] = "waiting" \/ (status'[s] = "done" /\ failed'[s] = {}) =>
              store'[s] = Part(SuccessState(start, batch, failed[s]), s)'
        BY <2>1, <2>6 DEF Installing, Part
    <2> QED BY <2>1, <2>2, <2>3, <2>4, <2>5, <2>7, <2>8 DEF Installing
<1>4. CASE UNCHANGED allVars
    <2>1. UNCHANGED <<batch, start, store, status, failed, pc>>
        BY <1>4 DEF allVars, vars, history, shardVars, fallbackVars
    <2> QED BY <2>1, InstallingKept
<1>5. CASE (TaskStep \/ RpcStep) /\ UNCHANGED fallbackVars
    <2>1. UNCHANGED pc
        BY <1>5 DEF fallbackVars
    <2>2. CASE \E i \in Txs : Coordinator(i) \/ FailCoordinator(i)
        BY <1>1, <2>1, <2>2
    <2>3. CASE \E s \in Shards : Executor(s) \/ FailReport(s)
        <3>1. PICK s \in Shards : Executor(s) \/ FailReport(s)
            BY <2>3
        <3> QED BY <1>2, <2>1, <3>1, InstallKeepsInstalling
    <2> QED BY <1>5, <2>2, <2>3 DEF TaskStep, RpcStep
<1> QED BY <1>3, <1>4, <1>5 DEF SchedulerNext, Optimistic, RpcFails, FallBack, FallbackStep

\* The barriers, the tables, the conflicts and the stores together.
AriaInv == BarrierInv /\ Tables /\ Conflicts /\ Installing

\* All of it holds of a batch that has just arrived.
LEMMA AriaInit == SchedulerInit => AriaInv
<1> SUFFICES ASSUME SchedulerInit PROVE AriaInv
    OBVIOUS
<1>1. BarrierInv
    BY BarrierInit
<1>2. Tables
    BY DEF SchedulerInit, Init, Tables, TableTypes, TablesOf
<1>3. Conflicts
    BY DEF SchedulerInit, Init, Conflicts, PastDone, BeforeDone
<1>4. Installing
    BY DEF SchedulerInit, Init, Installing, InFallback, Part, BeforeDone
<1> QED BY <1>1, <1>2, <1>3, <1>4 DEF AriaInv

\* The invariant of the optimistic phase holds, always.
LEMMA AriaInvariant == SchedulerSpec => []AriaInv
<1>1. AriaInv /\ [SchedulerNext]_allVars => AriaInv'
    BY BarrierStep, TablesStep, ConflictsStep, InstallingStep DEF AriaInv
<1> QED BY <1>1, AriaInit, PTL DEF SchedulerSpec

\* A shard that has installed holds its part of what the serial execution of the
\* successes leaves, for every batch and every placement of keys: executing all
\* transactions on one snapshot and dropping those that conflict comes to the same
\* (local_failed_indices, install_aria_successes).
THEOREM InstalledIsSerialAlways == SchedulerSpec => []InstalledIsSerial
<1>1. AriaInv => InstalledIsSerial
    BY DEF AriaInv, Installing, InstalledIsSerial, Part
<1> QED BY <1>1, AriaInvariant, PTL

-----------------------------------------------------------------------------
(* The fallback as a batch of its own.  F is LockingBatch on the failed      *)
(* transactions and on the state that the successes leave, and what is      *)
(* proved of LockingBatch is used through it.  A shard that has not begun   *)
(* its fallback is one that waits for the batch, even if it is still at a   *)
(* barrier; to the others it makes no difference whether it has installed.  *)

\* The transactions with conflicts, on whatever shard.
Conflicting == UNION {LocalFailedIndices(u) : u \in Shards}

\* The shard is behind both barriers; it has installed; it has begun its fallback.
PastBoth(s)     == Decided(s) \/ InFallback(s)
HasInstalled(s) == Installed(s) \/ InFallback(s)
FallsBack(s)    == \/ status[s] = "running" \/ (status[s] = "done" /\ failed[s] # {})
                   \/ InFallback(s)

FallbackBegun == \E s \in Shards : FallsBack(s)

FStatus  == [s \in Shards |-> IF FallsBack(s) \/ status[s] = "failed" THEN status[s] ELSE "waiting"]
FStore   == [s \in Shards |-> IF HasInstalled(s) THEN store[s]
                              ELSE Part(SuccessState(start, batch, Conflicting), s)]
FResults == [s \in Shards |-> [i \in Txs |-> IF i \in Conflicting THEN results[s][i] ELSE "absent"]]
FMembers == [s \in Shards |-> Conflicting]
FSerial  == FallbackRun(start, batch, Conflicting)

F == INSTANCE LockingBatchSerial_proofs WITH
         Scheduler <- "Aria", members <- FMembers, serial <- FSerial,
         status <- FStatus, store <- FStore, results <- FResults

\* The fallback before the first shard gets there.
FallbackIdle ==
    /\ queue = [s \in Shards |-> [k \in Keys |-> {}]]
    /\ granted = [s \in Shards |-> [i \in Txs |-> {}]]
    /\ released = [s \in Shards |-> {}]
    /\ pc = [s \in Shards |-> [i \in Txs |-> "none"]]
    /\ todo = [s \in Shards |-> [i \in Txs |-> {}]]
    /\ reads = [s \in Shards |-> [i \in Txs |-> << >>]]
    /\ received = [s \in Shards |-> [i \in Txs |-> {}]]
    /\ outcome = [s \in Shards |-> [i \in Txs |-> "none"]]
    /\ mail = [s \in Shards |-> [i \in Txs |-> {}]]
    /\ stray = [s \in Shards |-> {}]

\* A shard behind both barriers has the reports of all, and its reorder record is
\* the set of all conflicts, even if it fails in the fallback.
DecidesConflicts ==
    \A s \in Shards : PastBoth(s) => Shards \subseteq Reporters(s) /\ failed[s] = Conflicting

\* No other shard has a reorder record.
UndecidedIsEmpty == \A s \in Shards : ~PastBoth(s) => failed[s] = {}

\* The fallback is idle or a batch under deterministic locking.
FallsBackSerially == IF FallbackBegun THEN F!LockingInv ELSE FallbackIdle

\* A published result comes from the result shard once that has installed: from the
\* snapshot if the transaction has succeeded, from a worker if it has failed.  And
\* the results of the successes are published with the installation.
PublishedOf(s, i) ==
    /\ results[s][i] \in TxResult =>
          /\ s = Home(i) /\ HasInstalled(s)
          /\ i \notin Conflicting => results[s][i] = SnapshotOutput(i).result
          /\ i \in Conflicting => pc[s][i] # "none"
    /\ HasInstalled(s) /\ Home(i) = s /\ i \notin Conflicting => results[s][i] \in TxResult
Publishes == \A s \in Shards, i \in Txs : PublishedOf(s, i)

\* What TypeOK adds to the types of the barriers.
DataTypes ==
    /\ store \in [Shards -> State]
    /\ results \in [Shards -> [Txs -> {"absent", "Pending", "NotResponsible"} \cup TxResult]]
    /\ waiting \in [Shards -> {"no", "check", "window", "parked"}]
    /\ local_failed \in [Shards -> SUBSET Txs] /\ failed \in [Shards -> SUBSET Txs]
    /\ readers \in [Keys -> SUBSET Txs] /\ writers \in [Keys -> SUBSET Txs]
    /\ rpcFailures \in 0 .. MaxRpcFailures

-----------------------------------------------------------------------------
\* The assumptions of LockingBatch are those of this module.
LEMMA FallbackAssumptions == F!KeysAssumption /\ F!RouterAssumption /\ F!BatchAssumption
<1>1. F!KeysAssumption
    BY KeysAssumption DEF F!Parent, F!Root, Parent, Root
<1>2. F!RouterAssumption
    BY RouterAssumption DEF F!Shards, Shards
<1>3. F!BatchAssumption
    BY AriaAssumption DEF F!OrderedTx, OrderedTx, F!FsOp, FsOp, F!State, State,
                          F!ReadValue, ReadValue, F!Inode, Inode, F!Missing, Missing
<1> QED BY <1>1, <1>2, <1>3

\* The vocabulary of LockingBatch means the same in the three places.
LEMMA SameSets ==
    /\ F!Shards = Shards /\ Fallback!Shards = Shards
    /\ F!Txs = Txs /\ Fallback!Txs = Txs
    /\ F!State = State /\ F!Missing = Missing /\ F!TxResult = TxResult
    /\ \A tx : F!ReadSet(tx) = ReadSet(tx) /\ Fallback!ReadSet(tx) = ReadSet(tx)
    /\ \A tx : F!WriteSet(tx) = WriteSet(tx) /\ Fallback!WriteSet(tx) = WriteSet(tx)
<1>1. F!Shards = Shards /\ Fallback!Shards = Shards
    BY DEF F!Shards, Fallback!Shards, Shards
<1>2. F!Txs = Txs /\ Fallback!Txs = Txs
    BY DEF F!Txs, Fallback!Txs, Txs
<1>3. F!State = State /\ F!Missing = Missing /\ F!TxResult = TxResult
    BY DEF F!State, State, F!ReadValue, ReadValue, F!Inode, Inode, F!Missing, Missing,
           F!TxResult, TxResult
<1>4. \A tx : F!ReadSet(tx) = ReadSet(tx) /\ Fallback!ReadSet(tx) = ReadSet(tx)
    BY DEF F!ReadSet, Fallback!ReadSet, ReadSet, F!DeriveReadSet, Fallback!DeriveReadSet,
           DeriveReadSet, F!DegenerateRename, Fallback!DegenerateRename, DegenerateRename,
           F!Parent, Fallback!Parent, Parent, F!Root, Fallback!Root, Root
<1>5. \A tx : F!WriteSet(tx) = WriteSet(tx) /\ Fallback!WriteSet(tx) = WriteSet(tx)
    BY <1>4 DEF F!WriteSet, Fallback!WriteSet, WriteSet, F!DeriveWriteSet, Fallback!DeriveWriteSet,
                DeriveWriteSet, F!ReadSet, Fallback!ReadSet, ReadSet
<1> QED BY <1>1, <1>2, <1>3, <1>4, <1>5

LEMMA SameLogic ==
    /\ \A op, r : F!ExecuteDeterministic(op, r) = ExecuteDeterministic(op, r)
    /\ \A op, r : Fallback!ExecuteDeterministic(op, r) = ExecuteDeterministic(op, r)
<1>1. \A op, r : F!ExecuteDeterministic(op, r) = ExecuteDeterministic(op, r)
    BY DEF F!ExecuteDeterministic, F!DeriveReadSet, F!exec_mkdir, F!exec_create, F!exec_stat,
           F!exec_unlink, F!exec_rmdir, F!exec_rename, F!RenameChecks, F!RenameWrites,
           F!ParentChecks, F!FirstFailure, F!Output, F!NoWrites, F!Put, F!Delete, F!Present,
           F!IsDir, F!MoreChildren, F!FewerChildren, F!DegenerateRename, F!Parent, F!Root,
           F!Missing, F!directory, F!file, ExecuteDeterministic, DeriveReadSet, exec_mkdir,
           exec_create, exec_stat, exec_unlink, exec_rmdir, exec_rename, RenameChecks,
           RenameWrites, ParentChecks, FirstFailure, Output, NoWrites, Put, Delete, Present,
           IsDir, MoreChildren, FewerChildren, DegenerateRename, Parent, Root, Missing,
           directory, file, Min, F!Min
<1>2. \A op, r : Fallback!ExecuteDeterministic(op, r) = ExecuteDeterministic(op, r)
    BY DEF Fallback!ExecuteDeterministic, Fallback!DeriveReadSet, Fallback!exec_mkdir,
           Fallback!exec_create, Fallback!exec_stat, Fallback!exec_unlink, Fallback!exec_rmdir,
           Fallback!exec_rename, Fallback!RenameChecks, Fallback!RenameWrites,
           Fallback!ParentChecks, Fallback!FirstFailure, Fallback!Output, Fallback!NoWrites,
           Fallback!Put, Fallback!Delete, Fallback!Present, Fallback!IsDir,
           Fallback!MoreChildren, Fallback!FewerChildren, Fallback!DegenerateRename,
           Fallback!Parent, Fallback!Root, Fallback!Missing, Fallback!directory, Fallback!file,
           ExecuteDeterministic, DeriveReadSet, exec_mkdir, exec_create, exec_stat, exec_unlink,
           exec_rmdir, exec_rename, RenameChecks, RenameWrites, ParentChecks, FirstFailure,
           Output, NoWrites, Put, Delete, Present, IsDir, MoreChildren, FewerChildren,
           DegenerateRename, Parent, Root, Missing, directory, file, Min, Fallback!Min
<1> QED BY <1>1, <1>2

LEMMA SameEffects ==
    /\ \A st, ws, K : F!ApplyWrites(st, ws, K) = ApplyWrites(st, ws, K)
    /\ \A st, ws, K : Fallback!ApplyWrites(st, ws, K) = ApplyWrites(st, ws, K)
    /\ \A st, op : F!ReferenceOutput(st, op) = ReferenceOutput(st, op)
    /\ \A st, op : F!ApplyReferenceTx(st, op) = ApplyReferenceTx(st, op)
<1>1. \A st, ws, K : F!ApplyWrites(st, ws, K) = ApplyWrites(st, ws, K)
    BY DEF F!ApplyWrites, ApplyWrites, F!Max, Max
<1>2. \A st, ws, K : Fallback!ApplyWrites(st, ws, K) = ApplyWrites(st, ws, K)
    BY DEF Fallback!ApplyWrites, ApplyWrites, Fallback!Max, Max
<1>3. \A st, op : F!ReadFrom(st, op) = ReadFrom(st, op)
    BY DEF F!ReadFrom, ReadFrom, F!DeriveReadSet, DeriveReadSet, F!DegenerateRename,
           DegenerateRename, F!Parent, Parent, F!Root, Root
<1>4. \A st, op : F!ReferenceOutput(st, op) = ReferenceOutput(st, op)
    BY <1>3, SameLogic DEF F!ReferenceOutput, ReferenceOutput
<1>5. \A st, op : F!ApplyReferenceTx(st, op) = ApplyReferenceTx(st, op)
    BY <1>1, <1>4 DEF F!ApplyReferenceTx, ApplyReferenceTx
<1> QED BY <1>1, <1>2, <1>4, <1>5

\* Who takes part in the fallback of a transaction, and with what.
LEMMA SameParts ==
    /\ \A i : F!Active(i) = Fallback!Active(i)
    /\ \A i : F!ReadSources(i) = Fallback!ReadSources(i)
    /\ \A i : F!ResultShard(i) = Home(i) /\ Fallback!ResultShard(i) = Home(i)
    /\ \A s, i : F!Expected(s, i) = Fallback!Expected(s, i)
    /\ \A s, i : F!AfterSend(s, i) = Fallback!AfterSend(s, i)
    /\ \A tx, s : F!LocalReadKeys(tx, s) = Fallback!LocalReadKeys(tx, s)
    /\ \A tx, s : F!LocalWriteKeys(tx, s) = Fallback!LocalWriteKeys(tx, s)
    /\ \A tx, s : F!LocalLockKeys(tx, s) = Fallback!LocalLockKeys(tx, s)
    /\ \A ws, s : F!FilterLocalWrites(ws, s) = Fallback!FilterLocalWrites(ws, s)
<1>1. \A i : F!Active(i) = Fallback!Active(i)
    BY SameSets DEF F!Active, Fallback!Active, F!aria_fallback_active_shards,
                    Fallback!aria_fallback_active_shards, F!OwnersOf, Fallback!OwnersOf,
                    F!aria_result_shard, Fallback!aria_result_shard
<1>2. \A i : F!ReadSources(i) = Fallback!ReadSources(i)
    BY SameSets DEF F!ReadSources, Fallback!ReadSources, F!OwnersOf, Fallback!OwnersOf
<1>3. \A i : F!ResultShard(i) = Home(i) /\ Fallback!ResultShard(i) = Home(i)
    BY DEF F!ResultShard, Fallback!ResultShard, Home, F!aria_result_shard,
           Fallback!aria_result_shard, aria_result_shard
<1>4. \A s, i : F!Expected(s, i) = Fallback!Expected(s, i)
    BY <1>2 DEF F!Expected, Fallback!Expected
<1>5. \A s, i : F!AfterSend(s, i) = Fallback!AfterSend(s, i)
    BY <1>1 DEF F!AfterSend, Fallback!AfterSend
<1>6. \A tx, s : F!LocalReadKeys(tx, s) = Fallback!LocalReadKeys(tx, s)
    BY SameSets DEF F!LocalReadKeys, Fallback!LocalReadKeys
<1>7. \A tx, s : F!LocalWriteKeys(tx, s) = Fallback!LocalWriteKeys(tx, s)
    BY SameSets DEF F!LocalWriteKeys, Fallback!LocalWriteKeys
<1>8. \A tx, s : F!LocalLockKeys(tx, s) = Fallback!LocalLockKeys(tx, s)
    BY SameSets DEF F!LocalLockKeys, Fallback!LocalLockKeys
<1>9. \A ws, s : F!FilterLocalWrites(ws, s) = Fallback!FilterLocalWrites(ws, s)
    BY DEF F!FilterLocalWrites, Fallback!FilterLocalWrites
<1> QED BY <1>1, <1>2, <1>3, <1>4, <1>5, <1>6, <1>7, <1>8, <1>9

\* The lock table of a shard whose reorder record is the set of all conflicts.
LEMMA SameLocks ==
    ASSUME NEW s \in Shards, failed[s] = Conflicting
    PROVE  /\ \A i : F!LockKeys(s, i) = Fallback!LockKeys(s, i)
           /\ \A i : F!Relevant(s, i) = Fallback!Relevant(s, i)
           /\ \A k : F!LockRequests(s, k) = Fallback!LockRequests(s, k)
           /\ \A i : F!InitialGrants(s, i) = Fallback!InitialGrants(s, i)
           /\ \A i : F!Unlock(s, i) = Fallback!Unlock(s, i)
           /\ \A i : F!GrantNext(s, i) = Fallback!GrantNext(s, i)
           /\ F!AllCollected(s) = Fallback!AllCollected(s)
           /\ \A i, q : F!IsFront(i, q) = Fallback!IsFront(i, q)
<1>1. \A i : F!LockKeys(s, i) = Fallback!LockKeys(s, i)
    BY SameParts DEF F!LockKeys, Fallback!LockKeys, FMembers, FallbackMembers
<1>2. \A i : F!Relevant(s, i) = Fallback!Relevant(s, i)
    BY <1>1, SameParts DEF F!Relevant, Fallback!Relevant, FMembers, FallbackMembers
<1>3. \A k : F!LockRequests(s, k) = Fallback!LockRequests(s, k)
    BY <1>1, SameSets DEF F!LockRequests, Fallback!LockRequests
<1>4. \A i, q : F!IsFront(i, q) = Fallback!IsFront(i, q)
    BY DEF F!IsFront, Fallback!IsFront
<1>5. \A i : F!InitialGrants(s, i) = Fallback!InitialGrants(s, i)
    BY <1>3, <1>4 DEF F!InitialGrants, Fallback!InitialGrants
<1>6. \A i : F!Unlock(s, i) = Fallback!Unlock(s, i)
    BY <1>1 DEF F!Unlock, Fallback!Unlock
<1>7. \A i : F!GrantNext(s, i) = Fallback!GrantNext(s, i)
    BY <1>1, <1>4, SameSets DEF F!GrantNext, Fallback!GrantNext
<1>8. F!AllCollected(s) = Fallback!AllCollected(s)
    BY <1>2, SameSets DEF F!AllCollected, Fallback!AllCollected
<1> QED BY <1>1, <1>2, <1>3, <1>4, <1>5, <1>6, <1>7, <1>8

-----------------------------------------------------------------------------
(* The fallback begins *)

\* The reference execution: the successes lead to a state, and the run of the failed
\* transactions goes on from there.
LEMMA ReorderedRuns ==
    ASSUME BarrierType, Staging, NEW f
    PROVE  /\ Len(batch) \in Nat /\ Txs = 1 .. Len(batch)
           /\ SuccessState(start, batch, f) \in State
           /\ \A s \in Shards : Part(SuccessState(start, batch, f), s) \in State
           /\ FallbackRun(start, batch, f) \in [0 .. Len(batch) -> State]
           /\ FallbackRun(start, batch, f)[0] = SuccessState(start, batch, f)
           /\ \A n \in 1 .. Len(batch) : FallbackRun(start, batch, f)[n] =
                 IF n \in f THEN ApplyReferenceTx(FallbackRun(start, batch, f)[n - 1], batch[n].op)
                 ELSE FallbackRun(start, batch, f)[n - 1]
<1> DEFINE L    == Len(batch)
           ok   == SpeculativeSuccesses(batch, f)
           base == SuccessState(start, batch, f)
<1>1. L \in Nat /\ Txs = 1 .. L /\ start \in State
    BY AriaAssumption DEF BarrierType, Staging, Txs
<1>2. \A n \in 1 .. L : batch[n].op \in FsOp
    BY <1>1, TxFacts DEF BarrierType, OrderedTx
<1>3. base \in State
    <2>1. base = ExecuteIndices(start, batch, ok)[L]
        BY DEF SuccessState, SuccessRun
    <2> HIDE DEF base, ok
    <2>2. \A n \in 0 .. L : ExecuteIndices(start, batch, ok)[n] \in State
        BY <1>1, <1>2, ExecuteIndicesSteps
    <2> QED BY <1>1, <2>1, <2>2
<1>4. \A s \in Shards : Part(base, s) \in State
    <2> HIDE DEF base
    <2> QED BY <1>3, InodeTypes DEF Part, State
<1>5. FallbackRun(start, batch, f) = ExecuteIndices(base, batch, f)
    BY DEF FallbackRun
<1>6. /\ ExecuteIndices(base, batch, f)[0] = base
      /\ ExecuteIndices(base, batch, f) \in [0 .. L -> State]
      /\ \A n \in 1 .. L : ExecuteIndices(base, batch, f)[n] =
            IF n \in f THEN ApplyReferenceTx(ExecuteIndices(base, batch, f)[n - 1], batch[n].op)
            ELSE ExecuteIndices(base, batch, f)[n - 1]
    <2> HIDE DEF base
    <2> QED BY <1>1, <1>2, <1>3, ExecuteIndicesSteps
<1> QED BY <1>1, <1>3, <1>4, <1>5, <1>6

\* Conflicts are between transactions of the batch.
LEMMA ConflictingTxs == ASSUME DataTypes PROVE Conflicting \subseteq Txs
<1>1. \A u \in Shards : LocalFailedIndices(u) \subseteq Txs
    BY DEF LocalFailedIndices, DataTypes
<1> QED BY <1>1 DEF Conflicting

\* Once one shard is behind both barriers, all are behind the first one or have
\* failed, and no coordinator runs.
LEMMA BehindBoth ==
    ASSUME BarrierInv, DecidesConflicts, NEW s \in Shards, PastBoth(s)
    PROVE  AllOk /\ \A u \in Shards : status[u] \notin BeforeDone
<1>1. AllOk
    BY DEF BarrierInv, DoneBarrier, PastBoth, Decided, Installed, PastDone, BeforeDone
<1>2. ASSUME NEW u \in Shards PROVE status[u] \notin BeforeDone
    <2>1. PICK r \in failure_reports[s] : r.from = u
        BY DEF DecidesConflicts, Reporters
    <2> QED BY <2>1 DEF BarrierInv, FailureBarrier
<1> QED BY <1>1, <1>2

\* All shards execute the same transactions, those with conflicts.
LEMMA FallbackHasMembers == F!Members = Conflicting /\ F!SameMembers
<1>1. 0 \in Shards
    BY RouterAssumption DEF Shards
<1>2. F!Members = Conflicting
    BY <1>1, SameSets DEF F!Members, FMembers
<1> QED BY <1>2, SameSets DEF F!SameMembers, FMembers

\* The fallback begins as a batch of its own does.
LEMMA FallbackIsFresh ==
    ASSUME AriaInv, DataTypes, DecidesConflicts, Publishes, FallbackIdle, ~FallbackBegun
    PROVE  F!Fresh
<1> USE DEF AriaInv, BarrierInv
<1> DEFINE base == SuccessState(start, batch, Conflicting)
<1>1. /\ Len(batch) \in Nat /\ Txs = 1 .. Len(batch)
      /\ base \in State
      /\ \A s \in Shards : Part(base, s) \in State
      /\ FSerial \in [0 .. Len(batch) -> State]
      /\ FSerial[0] = base
      /\ \A n \in 1 .. Len(batch) : FSerial[n] =
            IF n \in Conflicting THEN ApplyReferenceTx(FSerial[n - 1], batch[n].op)
            ELSE FSerial[n - 1]
    BY ReorderedRuns DEF FSerial
<1>2. Conflicting \subseteq Txs
    BY ConflictingTxs
<1>3. \A s \in Shards : FStatus[s] \in {"waiting", "failed"}
    BY DEF FStatus, FallbackBegun
<1>4. F!FreshLocks
    <2>1. FStatus \in [Shards -> {"waiting", "failed"}]
        BY <1>3 DEF FStatus
    <2>2. FMembers \in [Shards -> SUBSET Txs]
        BY <1>2 DEF FMembers
    <2>3. batch \in Batches
        BY DEF BarrierType
    <2> QED BY <2>1, <2>2, <2>3, SameSets DEF F!FreshLocks, FallbackIdle
<1>5. \A s \in Shards : FStore[s] = Part(base, s)
    <2> SUFFICES ASSUME NEW s \in Shards, HasInstalled(s)
                 PROVE  store[s] = Part(base, s)
        BY DEF FStore
    <2>1. status[s] = "waiting" \/ (status[s] = "done" /\ failed[s] = {})
        BY DEF HasInstalled, Installed, FallbackBegun, FallsBack
    <2>2. failed[s] = Conflicting
        BY DEF DecidesConflicts, PastBoth, HasInstalled, Decided
    <2> QED BY <2>1, <2>2 DEF Installing
<1>6. F!FreshData
    <2>1. FStore \in [Shards -> State]
        BY <1>1, <1>5 DEF FStore
    <2>2. FResults \in [Shards -> [Txs -> {"absent", "Pending", "NotResponsible"}]]
        <3> SUFFICES ASSUME NEW s \in Shards, NEW i \in Txs, i \in Conflicting
                     PROVE  results[s][i] \in {"absent", "Pending", "NotResponsible"}
            BY DEF FResults
        <3>1. pc[s][i] = "none"
            BY DEF FallbackIdle
        <3>2. results[s][i] \notin TxResult
            BY <3>1 DEF Publishes, PublishedOf
        <3> QED BY <3>2 DEF DataTypes
    <2>3. batch \in Batches /\ rpcFailures \in 0 .. MaxRpcFailures
        BY DEF BarrierType, DataTypes
    <2> QED BY <1>1, <2>1, <2>2, <2>3, SameSets DEF F!FreshData, FallbackIdle
<1>7. F!HistoryInv
    BY <1>1, FallbackHasMembers, SameEffects DEF F!HistoryInv
<1>8. \A s \in Shards, k \in Keys : FStore[s][k] = IF Owner[k] = s THEN FSerial[0][k] ELSE Missing
    <2> SUFFICES ASSUME NEW s \in Shards, NEW k \in Keys
                 PROVE  FStore[s][k] = IF Owner[k] = s THEN FSerial[0][k] ELSE Missing
        OBVIOUS
    <2>1. FStore[s] = Part(base, s) /\ FSerial[0] = base
        BY <1>1, <1>5
    <2> HIDE DEF base
    <2> QED BY <2>1 DEF Part
<1> QED BY <1>4, <1>6, <1>7, <1>8, FallbackHasMembers, SameSets DEF F!Fresh

\* So the argument about deterministic locking applies, from the beginning.
LEMMA FallbackIsLocking ==
    ASSUME AriaInv, DataTypes, DecidesConflicts, Publishes, FallsBackSerially
    PROVE  F!LockingInv
<1>1. CASE FallbackBegun
    BY <1>1 DEF FallsBackSerially
<1>2. CASE ~FallbackBegun
    <2>1. F!Fresh
        BY <1>2, FallbackIsFresh DEF FallsBackSerially
    <2> QED BY <2>1, F!LockingFresh, FallbackAssumptions
<1> QED BY <1>1, <1>2

-----------------------------------------------------------------------------
(* Behind the barriers *)

\* When all coordinators are done the tables stay, and so do the conflicts; reports
\* are added, and a reorder record is made at the second barrier.
LEMMA TablesAreFinal ==
    ASSUME BarrierInv, AllOk, [SchedulerNext]_allVars
    PROVE  /\ UNCHANGED <<batch, start, readers, writers>>
           /\ Txs' = Txs /\ Conflicting' = Conflicting
           /\ \A t \in Shards : Reporters(t) \subseteq Reporters(t)'
           /\ \A t \in Shards : failed'[t] # failed[t] => status[t] = "failure_barrier"
<1> USE DEF BarrierInv
<1> SUFFICES /\ UNCHANGED <<batch, start, readers, writers>>
             /\ \A t \in Shards : failure_reports[t] \subseteq failure_reports'[t]
             /\ \A t \in Shards : failed'[t] # failed[t] => status[t] = "failure_barrier"
    <2>1. UNCHANGED <<readers, writers>> => \A u : LocalFailedIndices(u)' = LocalFailedIndices(u)
        BY DEF LocalFailedIndices
    <2> QED BY <2>1 DEF Txs, Conflicting, Reporters
<1>1. ASSUME NEW i \in Txs, Coordinator(i) \/ FailCoordinator(i) PROVE FALSE
    <2>1. coord[i] \in {"read", "execute", "stage"}
        BY <1>1 DEF Coordinator, ReadSnapshot, ExecuteTx, StageOutcome, FailCoordinator
    <2> QED BY <2>1 DEF AllOk
<1>2. ASSUME NEW s \in Shards, Executor(s) \/ FailReport(s)
      PROVE  /\ UNCHANGED <<batch, start, readers, writers>>
             /\ \A t \in Shards : failure_reports[t] \subseteq failure_reports'[t]
             /\ \A t \in Shards : failed'[t] # failed[t] => status[t] = "failure_barrier"
    <2>1. UNCHANGED <<batch, start, readers, writers>>
        BY <1>2 DEF Executor, StartBatch, CollectCoordinators, ReportDone, ReportFailures,
                    KeepWaiting, Notified, PassDoneBarrier, PassFailureBarrier, Install,
                    FailReport, history, entryVars
    <2>2. failure_reports' = failure_reports \/ RecordFailures(s, Min(report_to[s]))
        BY <1>2 DEF Executor, StartBatch, CollectCoordinators, ReportDone, ReportFailures,
                    KeepWaiting, Notified, PassDoneBarrier, PassFailureBarrier, Install,
                    FailReport, entryVars
    <2>3. \A t \in Shards : failure_reports[t] \subseteq failure_reports'[t]
        BY <2>2 DEF RecordFailures, BarrierType
    <2>4. \/ failed' = failed
          \/ /\ status[s] = "failure_barrier"
             /\ failed' = [failed EXCEPT ![s] = UNION {r.failed : r \in failure_reports[s]}]
        BY <1>2 DEF Executor, StartBatch, CollectCoordinators, ReportDone, ReportFailures,
                    KeepWaiting, Notified, PassDoneBarrier, PassFailureBarrier, Install,
                    FailReport, shardVars
    <2> QED BY <2>1, <2>3, <2>4 DEF BarrierType
<1>3. CASE FallbackStep
    BY <1>3, FallbackEffect DEF optVars, entryVars
<1>4. CASE UNCHANGED allVars
    BY <1>4 DEF allVars, vars, history, entryVars, shardVars
<1> QED BY <1>1, <1>2, <1>3, <1>4
        DEF SchedulerNext, Optimistic, RpcFails, FallBack, FallbackStep, TaskStep, RpcStep

\* A shard that decides takes all conflicts for its reorder record.
DecidesOnReports ==
    \A s \in Shards : Decided(s) => Shards \subseteq Reporters(s) /\ failed[s] = Conflicting

LEMMA DecidedConflicts == AriaInv => DecidesOnReports
<1> SUFFICES ASSUME AriaInv, NEW s \in Shards, Decided(s)
             PROVE  Shards \subseteq Reporters(s) /\ failed[s] = Conflicting
    BY DEF DecidesOnReports
<1>1. Shards \subseteq Reporters(s) /\ failed[s] = UNION {local_failed[u] : u \in Shards}
    BY DEF AriaInv, BarrierInv, FailureBarrier
<1>2. \A u \in Shards : local_failed[u] = LocalFailedIndices(u)
    BY <1>1 DEF AriaInv, Conflicts, Reporters
<1> QED BY <1>1, <1>2 DEF Conflicting

LEMMA DecidedConflictsNext == AriaInv' => DecidesOnReports'
BY DecidedConflicts, PTL

\* Workers stay where they were spawned, and a shard that fails in the fallback had
\* some.
LEMMA WorkersStay ==
    ASSUME BarrierType, Installing, FallbackStep, NEW t \in Shards
    PROVE  /\ \A j \in Txs : pc[t][j] # "none" => pc'[t][j] # "none"
           /\ InFallback(t) => InFallback(t)'
           /\ status[t] = "running" /\ status'[t] = "failed" => InFallback(t)
<1>1. ASSUME NEW s \in Shards, Fallback!StartBatch(s)
      PROVE  /\ \A u \in Shards : u # s => pc'[u] = pc[u] /\ status'[u] = status[u]
             /\ batch' = batch /\ status[s] = "waiting" /\ status'[s] = "running"
    BY <1>1 DEF Fallback!StartBatch, Fallback!history, BarrierType
<1>2. ASSUME NEW s \in Shards, Fallback!FinishBatch(s)
      PROVE  pc' = pc /\ batch' = batch /\ \A u \in Shards : status'[u] \in {status[u], "done"}
    BY <1>2 DEF Fallback!FinishBatch, Fallback!workVars, Fallback!history, BarrierType
<1>3. ASSUME NEW s \in Shards, NEW i \in Txs, Fallback!CollectOutcome(s, i)
      PROVE  /\ pc' = pc /\ batch' = batch /\ InFallback(s)
             /\ \A u \in Shards : u # s => status'[u] = status[u]
    <2>1. pc' = pc /\ batch' = batch /\ pc[s][i] # "none"
        BY <1>3 DEF Fallback!CollectOutcome, Fallback!workVars, Fallback!history, Fallback!Ended
    <2>2. \A u \in Shards : u # s => status'[u] = status[u]
        BY <1>3 DEF Fallback!CollectOutcome, BarrierType
    <2> QED BY <2>1, <2>2 DEF InFallback
<1>4. ASSUME NEW s \in Shards, NEW i \in Txs,
             Fallback!Worker(s, i) \/ Fallback!FailReadResult(s, i)
      PROVE  /\ batch' = batch /\ status' = status
             /\ \A u \in Shards, j \in Txs : pc[u][j] # "none" => pc'[u][j] # "none"
    BY <1>4, WorkerMoves DEF BarrierType
<1>5. CASE \E s \in Shards : Fallback!Coordinator(s)
    <2>1. PICK s \in Shards : \/ Fallback!StartBatch(s) \/ Fallback!FinishBatch(s)
                              \/ \E i \in Txs : Fallback!CollectOutcome(s, i)
        BY <1>5 DEF Fallback!Coordinator, Fallback!Txs, Txs
    <2>2. CASE Fallback!StartBatch(s)
        BY <1>1, <2>2 DEF InFallback, Txs, Installing
    <2>3. CASE Fallback!FinishBatch(s)
        BY <1>2, <2>3 DEF InFallback, Txs
    <2>4. CASE \E i \in Txs : Fallback!CollectOutcome(s, i)
        <3>1. pc' = pc /\ batch' = batch /\ InFallback(s) /\ \A u \in Shards : u # s => status'[u] = status[u]
            BY <1>3, <2>4
        <3> QED BY <3>1 DEF InFallback, Txs
    <2> QED BY <2>1, <2>2, <2>3, <2>4
<1>6. CASE \E s \in Shards, i \in Txs : Fallback!Worker(s, i) \/ Fallback!FailReadResult(s, i)
    BY <1>4, <1>6 DEF InFallback, Txs
<1>7. \/ \E s \in Shards : Fallback!Coordinator(s)
      \/ \E s \in Shards, i \in Txs : Fallback!Worker(s, i) \/ Fallback!FailReadResult(s, i)
    BY DEF FallbackStep, Fallback!TaskStep, Fallback!Txs, Txs, Fallback!Shards, Shards
<1> QED BY <1>5, <1>6, <1>7

\* Where a shard is before it installs.
BeforeInstall == BeforeDone \cup {"report_failures", "failure_barrier"}

OptimisticStep == (TaskStep \/ RpcStep) /\ UNCHANGED fallbackVars

\* How a step of the optimistic phase moves the executor of shard t.
OptimisticMoves(t) ==
    \/ status'[t] = status[t] /\ failed'[t] = failed[t]
    \/ /\ status[t] \in BeforeInstall /\ status'[t] \in BeforeInstall \cup {"install", "failed"}
       /\ failed'[t] = failed[t] \/ status'[t] = "install"
    \/ /\ status[t] = "install" /\ failed'[t] = failed[t]
       /\ status'[t] = IF failed[t] = {} THEN "done" ELSE "waiting"

\* The optimistic phase begins no fallback and leaves those that have begun alone.
LEMMA OptimisticEffect ==
    ASSUME BarrierInv, Installing, OptimisticStep
    PROVE  /\ UNCHANGED <<batch, start, fallbackVars>> /\ Txs' = Txs
           /\ \A t \in Shards : /\ OptimisticMoves(t)
                                /\ InFallback(t)' = InFallback(t)
                                /\ FallsBack(t)' = FallsBack(t)
<1> USE DEF BarrierInv
<1>1. ASSUME NEW i \in Txs, Coordinator(i) \/ FailCoordinator(i)
      PROVE  UNCHANGED <<batch, start, status, failed>>
    BY <1>1 DEF Coordinator, ReadSnapshot, ExecuteTx, StageOutcome, FailCoordinator,
                history, shardVars
<1>2. ASSUME NEW s \in Shards, Executor(s) \/ FailReport(s), ~Install(s)
      PROVE  UNCHANGED <<batch, start>> /\ \A t \in Shards : OptimisticMoves(t)
    <2>1. UNCHANGED <<batch, start>>
        BY <1>2 DEF Executor, StartBatch, CollectCoordinators, ReportDone, ReportFailures,
                    KeepWaiting, Notified, PassDoneBarrier, PassFailureBarrier,
                    FailReport, history, shardVars
    <2>2. \/ status' = status /\ failed' = failed
          \/ /\ status[s] \in BeforeInstall
             /\ \E where \in BeforeInstall \cup {"install", "failed"} :
                   /\ status' = [status EXCEPT ![s] = where]
                   /\ \/ failed' = failed
                      \/ /\ where = "install"
                         /\ failed' = [failed EXCEPT ![s] = UNION {r.failed : r \in failure_reports[s]}]
        BY <1>2 DEF Executor, StartBatch, CollectCoordinators, ReportDone, ReportFailures,
                    KeepWaiting, Notified, PassDoneBarrier, PassFailureBarrier,
                    FailReport, AfterReport, Goto, shardVars, BeforeDone, BeforeInstall
    <2> QED BY <2>1, <2>2 DEF BarrierType, OptimisticMoves
<1>3. ASSUME NEW s \in Shards, Install(s)
      PROVE  UNCHANGED <<batch, start>> /\ \A t \in Shards : OptimisticMoves(t)
    BY <1>3 DEF Install, Goto, history, BarrierType, OptimisticMoves
<1>4. UNCHANGED <<batch, start>> /\ \A t \in Shards : OptimisticMoves(t)
    <2>1. CASE \E i \in Txs : Coordinator(i) \/ FailCoordinator(i)
        BY <1>1, <2>1 DEF OptimisticMoves
    <2>2. CASE \E s \in Shards : Executor(s) \/ FailReport(s)
        BY <1>2, <1>3, <2>2
    <2> QED BY <2>1, <2>2 DEF OptimisticStep, TaskStep, RpcStep
<1>5. Txs' = Txs /\ pc' = pc
    BY <1>4 DEF OptimisticStep, Txs, fallbackVars
<1>6. \A t \in Shards : InFallback(t)' = InFallback(t)
    BY <1>5 DEF InFallback
<1>7. \A t \in Shards : FallsBack(t)' = FallsBack(t)
    BY <1>4, <1>6 DEF FallsBack, OptimisticMoves, BeforeInstall, BeforeDone
<1> QED BY <1>4, <1>5, <1>6, <1>7 DEF OptimisticStep

\* Every step keeps the reorder records.
LEMMA DecidesStep ==
    ASSUME AriaInv, AriaInv', DecidesConflicts, [SchedulerNext]_allVars
    PROVE  DecidesConflicts'
<1> USE DEF AriaInv, BarrierInv
<1>1. \A s \in Shards : Decided(s)' => Shards \subseteq Reporters(s)' /\ failed'[s] = Conflicting'
    BY DecidedConflictsNext DEF DecidesOnReports
<1>2. ASSUME NEW s \in Shards, InFallback(s)', ~Decided(s)'
      PROVE  Shards \subseteq Reporters(s)' /\ failed'[s] = Conflicting'
    <2>1. status'[s] = "failed"
        BY <1>2 DEF Installing, Decided, Installed
    <2>2. InFallback(s) /\ status[s] # "failure_barrier"
        <3>1. CASE FallbackStep
            BY <2>1, <1>2, <3>1, FallbackEffect DEF SpawnedOnly, FallbackMoves, Installing
        <3>2. CASE OptimisticStep
            BY <1>2, <3>2, OptimisticEffect DEF Installing
        <3>3. CASE UNCHANGED allVars
            <4>1. UNCHANGED <<batch, pc, status>>
                BY <3>3 DEF allVars, vars, fallbackVars, history, shardVars
            <4>2. InFallback(s)
                BY <1>2, <4>1 DEF InFallback, Txs
            <4> QED BY <4>2 DEF Installing
        <3> QED BY <3>1, <3>2, <3>3
                DEF SchedulerNext, Optimistic, RpcFails, FallBack, FallbackStep, OptimisticStep
    <2>3. Shards \subseteq Reporters(s) /\ failed[s] = Conflicting /\ AllOk
        BY <2>2, BehindBoth DEF DecidesConflicts, PastBoth
    <2> QED BY <2>2, <2>3, TablesAreFinal
<1> QED BY <1>1, <1>2 DEF DecidesConflicts, PastBoth

\* A shard does not fall behind the barriers again.
LEMMA UndecidedStep ==
    ASSUME BarrierInv, Installing, UndecidedIsEmpty, [SchedulerNext]_allVars
    PROVE  UndecidedIsEmpty'
<1> SUFFICES ASSUME NEW t \in Shards, ~PastBoth(t)' PROVE failed'[t] = {}
    BY DEF UndecidedIsEmpty
<1>1. CASE FallbackStep
    <2>1. /\ failed' = failed /\ FallbackMoves(t)
          /\ InFallback(t) => InFallback(t)'
          /\ status[t] = "running" /\ status'[t] = "failed" => InFallback(t)
        BY <1>1, FallbackEffect, WorkersStay DEF BarrierInv, optVars
    <2>2. ~PastBoth(t)
        BY <2>1 DEF PastBoth, Decided, Installed, FallbackMoves
    <2> QED BY <2>1, <2>2 DEF UndecidedIsEmpty
<1>2. CASE OptimisticStep
    <2>1. OptimisticMoves(t) /\ InFallback(t)' = InFallback(t)
        BY <1>2, OptimisticEffect
    <2>2. ~PastBoth(t) /\ failed'[t] = failed[t]
        BY <2>1 DEF PastBoth, Decided, Installed, OptimisticMoves, BeforeInstall, BeforeDone, Installing
    <2> QED BY <2>2 DEF UndecidedIsEmpty
<1>3. CASE UNCHANGED allVars
    <2>1. UNCHANGED <<batch, status, failed, pc>>
        BY <1>3 DEF allVars, vars, fallbackVars, history, shardVars
    <2> QED BY <2>1 DEF UndecidedIsEmpty, PastBoth, Decided, Installed, InFallback, Txs
<1> QED BY <1>1, <1>2, <1>3
        DEF SchedulerNext, Optimistic, RpcFails, FallBack, FallbackStep, OptimisticStep

-----------------------------------------------------------------------------
(* The steps of the fallback *)

\* If there are conflicts, an executor of the fallback is where that of F is.
HasConflicts == Conflicting # {}
PlainStatus ==
    \A t \in Shards : FStatus[t] =
        IF status[t] \in {"running", "done", "failed"} THEN status[t] ELSE "waiting"

LEMMA StatusIsPlain == Installing /\ DecidesConflicts /\ HasConflicts => PlainStatus
<1> SUFFICES ASSUME Installing, DecidesConflicts, HasConflicts, NEW t \in Shards
             PROVE  FStatus[t] = IF status[t] \in {"running", "done", "failed"} THEN status[t] ELSE "waiting"
    BY DEF PlainStatus
<1>1. status[t] = "done" => failed[t] # {}
    BY DEF DecidesConflicts, PastBoth, Decided, Installed, HasConflicts
<1> QED BY <1>1 DEF FStatus, FallsBack, Installing

LEMMA StatusIsPlainNext == Installing' /\ DecidesConflicts' /\ HasConflicts' => PlainStatus'
BY StatusIsPlain, PTL

\* A step of the fallback is taken behind both barriers, on account of a conflict.
LEMMA FallbackActor ==
    ASSUME BarrierType, FallbackStep
    PROVE  \E s \in Shards : \/ status[s] = "waiting" /\ status'[s] = "running"
                             \/ status[s] = "running" \/ InFallback(s)
<1>1. ASSUME NEW s \in Shards, Fallback!Coordinator(s)
      PROVE  (status[s] = "waiting" /\ status'[s] = "running") \/ status[s] = "running"
    BY <1>1 DEF Fallback!Coordinator, Fallback!StartBatch, Fallback!CollectOutcome, Fallback!FinishBatch,
                BarrierType
<1>2. ASSUME NEW s \in Shards, NEW i \in Txs, Fallback!Worker(s, i) \/ Fallback!FailReadResult(s, i)
      PROVE  InFallback(s)
    BY <1>2, WorkerMoves DEF InFallback
<1>3. \/ \E s \in Shards : Fallback!Coordinator(s)
      \/ \E s \in Shards, i \in Txs : Fallback!Worker(s, i) \/ Fallback!FailReadResult(s, i)
    BY DEF FallbackStep, Fallback!TaskStep, Fallback!Txs, Txs, Fallback!Shards, Shards
<1> QED BY <1>1, <1>2, <1>3

\* What such a step leaves alone, and how its state is that of F.
LEMMA FallbackFrame ==
    ASSUME AriaInv, AriaInv', DecidesConflicts, DecidesConflicts', FallbackStep
    PROVE  /\ UNCHANGED <<batch, FMembers, FSerial, failed>>
           /\ Txs' = Txs /\ Conflicting' = Conflicting
           /\ \E s \in Shards : PastBoth(s)
           /\ PlainStatus /\ PlainStatus'
           /\ \A t \in Shards : HasInstalled(t)' = HasInstalled(t)
           /\ \A t \in Shards : ~HasInstalled(t) => FStore'[t] = FStore[t]
<1> USE DEF AriaInv, BarrierInv
<1>1. UNCHANGED <<batch, start, failed, readers, writers>>
    BY FallbackEffect DEF optVars, entryVars
<1>2. \A u : LocalFailedIndices(u)' = LocalFailedIndices(u)
    BY <1>1 DEF LocalFailedIndices
<1>3. Txs' = Txs /\ Conflicting' = Conflicting
    BY <1>1, <1>2 DEF Txs, Conflicting
<1>4. UNCHANGED <<FMembers, FSerial>>
    BY <1>1, <1>3 DEF FMembers, FSerial
<1>5. PICK s \in Shards : status[s] \in {"waiting", "running"} \/ InFallback(s)
    BY FallbackActor
<1>6. PastBoth(s) /\ failed[s] # {}
    BY <1>5 DEF PastBoth, Decided, Installed, Installing
<1>7. HasConflicts /\ HasConflicts'
    BY <1>3, <1>6 DEF DecidesConflicts, HasConflicts
<1>8. PlainStatus /\ PlainStatus'
    BY <1>7, StatusIsPlain, StatusIsPlainNext
<1>9. ASSUME NEW t \in Shards PROVE HasInstalled(t)' = HasInstalled(t)
    <2>1. FallbackMoves(t) /\ SpawnedOnly(t)
        BY FallbackEffect
    <2>2. /\ InFallback(t) => InFallback(t)'
          /\ status[t] = "running" /\ status'[t] = "failed" => InFallback(t)
        BY WorkersStay
    <2> QED BY <2>1, <2>2 DEF FallbackMoves, SpawnedOnly, HasInstalled, Installed
<1>10. ASSUME NEW t \in Shards, ~HasInstalled(t) PROVE FStore'[t] = FStore[t]
    BY <1>1, <1>3, <1>9, <1>10 DEF FStore, Part
<1> QED BY <1>1, <1>3, <1>4, <1>6, <1>8, <1>9, <1>10

\* One entry of a table changes.
LEMMA EntryUpdate ==
    ASSUME NEW S, NEW T, NEW f, DOMAIN f = S, f = [t \in S |-> f[t]],
           \A t \in S : DOMAIN f[t] = T /\ f[t] = [j \in T |-> f[t][j]],
           NEW s \in S, NEW i \in T, NEW x
    PROVE  [f EXCEPT ![s][i] = x] =
               [t \in S |-> [j \in T |-> IF t = s /\ j = i THEN x ELSE f[t][j]]]
<1> DEFINE row == [f[s] EXCEPT ![i] = x]
<1>1. row = [j \in T |-> IF j = i THEN x ELSE f[s][j]]
    OBVIOUS
<1>2. [f EXCEPT ![s][i] = x] = [t \in S |-> IF t = s THEN row ELSE f[t]]
    OBVIOUS
<1> HIDE DEF row
<1>3. \A t \in S : (IF t = s THEN row ELSE f[t]) = [j \in T |-> IF t = s /\ j = i THEN x ELSE f[t][j]]
    BY <1>1
<1> QED BY <1>2, <1>3

\* What a step does to the executors, the stores and the results it does to those
\* of F.
LEMMA FallbackUpdates ==
    ASSUME AriaInv, AriaInv', DecidesConflicts, DecidesConflicts', DataTypes, FallbackStep,
           NEW s \in Shards
    PROVE  /\ status' = status => FStatus' = FStatus
           /\ \A x \in {"running", "done", "failed"} : status' = [status EXCEPT ![s] = x] =>
                 FStatus' = [FStatus EXCEPT ![s] = x]
           /\ store' = store => FStore' = FStore
           /\ HasInstalled(s) => FStore[s] = store[s]
           /\ \A x : HasInstalled(s) /\ store' = [store EXCEPT ![s] = x] =>
                 FStore' = [FStore EXCEPT ![s] = x]
           /\ results' = results => FResults' = FResults
           /\ \A i \in Conflicting : \A x : results' = [results EXCEPT ![s][i] = x] =>
                 FResults' = [FResults EXCEPT ![s][i] = x]
<1>1. /\ UNCHANGED batch /\ Txs' = Txs /\ Conflicting' = Conflicting
      /\ PlainStatus /\ PlainStatus'
      /\ \A t \in Shards : HasInstalled(t)' = HasInstalled(t)
      /\ \A t \in Shards : ~HasInstalled(t) => FStore'[t] = FStore[t]
    BY FallbackFrame
<1>2. /\ DOMAIN status = Shards /\ DOMAIN store = Shards /\ DOMAIN results = Shards
      /\ \A t \in Shards : DOMAIN results[t] = Txs
      /\ DOMAIN FStatus = Shards /\ DOMAIN FStatus' = Shards
    BY DEF AriaInv, BarrierInv, BarrierType, DataTypes, FStatus
<1>3. FStatus = [t \in Shards |-> FStatus[t]] /\ FStatus' = [t \in Shards |-> FStatus'[t]]
    BY DEF FStatus
<1>4. ASSUME status' = status PROVE FStatus' = FStatus
    BY <1>1, <1>3, <1>4 DEF PlainStatus
<1>5. ASSUME NEW x \in {"running", "done", "failed"}, status' = [status EXCEPT ![s] = x]
      PROVE  FStatus' = [FStatus EXCEPT ![s] = x]
    <2>1. \A t \in Shards : FStatus'[t] = IF t = s THEN x ELSE FStatus[t]
        BY <1>1, <1>2, <1>5 DEF PlainStatus
    <2> QED BY <1>3, <2>1
<1>6. FStore = [t \in Shards |-> FStore[t]] /\ FStore' = [t \in Shards |-> FStore'[t]]
    BY DEF FStore
<1>7. \A t \in Shards : HasInstalled(t) => FStore[t] = store[t] /\ FStore'[t] = store'[t]
    BY <1>1 DEF FStore
<1>8. ASSUME store' = store PROVE FStore' = FStore
    BY <1>1, <1>6, <1>7, <1>8
<1>9. ASSUME NEW x, HasInstalled(s), store' = [store EXCEPT ![s] = x]
      PROVE  FStore' = [FStore EXCEPT ![s] = x]
    <2>1. \A t \in Shards : FStore'[t] = IF t = s THEN x ELSE FStore[t]
        BY <1>1, <1>2, <1>7, <1>9
    <2> QED BY <1>6, <2>1
<1>10. ASSUME results' = results PROVE FResults' = FResults
    BY <1>1, <1>10 DEF FResults
<1>11. ASSUME NEW i \in Conflicting, NEW x, results' = [results EXCEPT ![s][i] = x]
       PROVE  FResults' = [FResults EXCEPT ![s][i] = x]
    <2>1. i \in Txs
        BY ConflictingTxs
    <2>2. \A t \in Shards, j \in Txs : results'[t][j] = IF t = s /\ j = i THEN x ELSE results[t][j]
        BY <1>2, <1>11, <2>1
    <2>3. FResults' = [t \in Shards |-> [j \in Txs |-> IF j \in Conflicting THEN results'[t][j] ELSE "absent"]]
        BY <1>1 DEF FResults
    <2>4. FResults = [t \in Shards |-> [j \in Txs |-> IF j \in Conflicting THEN results[t][j] ELSE "absent"]]
        BY DEF FResults
    <2>5. FResults' = [t \in Shards |-> [j \in Txs |-> IF t = s /\ j = i THEN x ELSE FResults[t][j]]]
        BY <2>2, <2>3, <2>4
    <2> QED BY <2>1, <2>4, <2>5, EntryUpdate
<1> QED BY <1>4, <1>5, <1>7, <1>8, <1>9, <1>10, <1>11

\* A step of the fallback is a step of F.
LEMMA FallbackIsNext ==
    ASSUME AriaInv, AriaInv', DecidesConflicts, DecidesConflicts', DataTypes, F!LockingInv,
           FallbackStep
    PROVE  F!Next
<1>1. /\ UNCHANGED <<batch, FMembers, FSerial, failed>> /\ Txs' = Txs
      /\ PlainStatus /\ PlainStatus'
    BY FallbackFrame
<1>2. UNCHANGED F!history
    BY <1>1 DEF F!history
<1>3. ASSUME NEW s \in Shards, PastBoth(s) PROVE failed[s] = Conflicting
    BY <1>3 DEF DecidesConflicts
<1>4. ASSUME NEW s \in Shards, NEW i \in Txs, pc[s][i] # "none"
      PROVE  PastBoth(s) /\ HasInstalled(s) /\ i \in Conflicting
    <2>1. i \in Conflicting
        BY <1>4, SameSets DEF F!LockingInv, F!LockIInv, F!LockInv, F!Spawned, FMembers
    <2> QED BY <1>4, <2>1 DEF PastBoth, HasInstalled, InFallback
<1>5. ASSUME NEW s \in Shards, Fallback!StartBatch(s) PROVE F!StartBatch(s)
    <2>1. /\ status[s] = "waiting" /\ status' = [status EXCEPT ![s] = "running"]
          /\ results' = results /\ store' = store
        <3>1. results' = [results EXCEPT ![s] = results[s]]
            BY <1>5 DEF Fallback!StartBatch, Fallback!RegisterResults
        <3> QED BY <1>5, <3>1 DEF Fallback!StartBatch, DataTypes
    <2>2. /\ FStatus[s] = "waiting" /\ FStatus' = [FStatus EXCEPT ![s] = "running"]
          /\ FResults' = FResults /\ FStore' = FStore
        BY <1>1, <2>1, FallbackUpdates DEF PlainStatus
    <2>3. FResults' = [FResults EXCEPT ![s] = F!RegisterResults(s)]
        BY <2>2 DEF F!RegisterResults, FResults
    <2>4. failed[s] = Conflicting
        BY <1>3, <2>1 DEF PastBoth, Decided, Installed
    <2>5. /\ queue' = [queue EXCEPT ![s] = [k \in Keys |-> F!LockRequests(s, k)]]
          /\ granted' = [granted EXCEPT ![s] = [i \in Txs |-> F!InitialGrants(s, i)]]
          /\ pc' = [pc EXCEPT ![s] = [i \in Txs |-> IF F!Relevant(s, i) THEN "locks" ELSE "none"]]
        BY <1>5, <2>4, SameLocks, SameSets DEF Fallback!StartBatch
    <2>6. UNCHANGED <<released, todo, reads, received, outcome, F!netVars>>
        BY <1>5 DEF Fallback!StartBatch, Fallback!netVars, F!netVars
    <2> QED BY <1>2, <2>2, <2>3, <2>5, <2>6, SameSets DEF F!StartBatch
<1>6. ASSUME NEW s \in Shards, NEW i \in Txs, Fallback!CollectOutcome(s, i)
      PROVE  F!CollectOutcome(s, i)
    <2>1. /\ status[s] = "running" /\ results' = results /\ store' = store
          /\ UNCHANGED <<F!workVars, F!netVars>>
        BY <1>6 DEF Fallback!CollectOutcome, Fallback!workVars, Fallback!netVars, F!workVars, F!netVars
    <2>2. FStatus[s] = "running" /\ FResults' = FResults /\ FStore' = FStore
        BY <1>1, <2>1, FallbackUpdates DEF PlainStatus
    <2>3. failed[s] = Conflicting
        BY <1>3, <2>1 DEF PastBoth, Decided, Installed
    <2>4. /\ F!Ended(s, i) /\ i \notin released[s]
          /\ released' = [released EXCEPT ![s] = @ \cup {i}]
        BY <1>6 DEF Fallback!CollectOutcome, Fallback!Ended, F!Ended
    <2>5. F!BatchFails(s, i) = Fallback!BatchFails(s, i)
        BY DEF F!BatchFails, Fallback!BatchFails
    <2>6. (\A k \in F!LockKeys(s, i) : F!IsFront(i, queue[s][k])) <=>
              \A k \in Fallback!LockKeys(s, i) : Fallback!IsFront(i, queue[s][k])
        BY <2>3, SameLocks
    <2>7. CASE \A k \in Fallback!LockKeys(s, i) : Fallback!IsFront(i, queue[s][k])
        <3>1. /\ queue' = [queue EXCEPT ![s] = F!Unlock(s, i)]
              /\ granted' = [granted EXCEPT ![s] = F!GrantNext(s, i)]
            BY <1>6, <2>3, <2>7, SameLocks DEF Fallback!CollectOutcome
        <3>2. FStatus' = IF F!BatchFails(s, i) THEN [FStatus EXCEPT ![s] = "failed"] ELSE FStatus
            BY <1>6, <2>5, <2>7, FallbackUpdates DEF Fallback!CollectOutcome
        <3> QED BY <1>2, <2>1, <2>2, <2>4, <2>6, <2>7, <3>1, <3>2 DEF F!CollectOutcome
    <2>8. CASE ~\A k \in Fallback!LockKeys(s, i) : Fallback!IsFront(i, queue[s][k])
        <3>1. status' = [status EXCEPT ![s] = "failed"] /\ UNCHANGED <<queue, granted>>
            BY <1>6, <2>8 DEF Fallback!CollectOutcome
        <3>2. FStatus' = [FStatus EXCEPT ![s] = "failed"]
            BY <3>1, FallbackUpdates
        <3> QED BY <1>2, <2>1, <2>2, <2>4, <2>6, <2>8, <3>1, <3>2 DEF F!CollectOutcome
    <2> QED BY <2>7, <2>8
<1>7. ASSUME NEW s \in Shards, Fallback!FinishBatch(s) PROVE F!FinishBatch(s)
    <2>1. /\ status[s] = "running" /\ status' = [status EXCEPT ![s] = "done"]
          /\ results' = results /\ store' = store
          /\ UNCHANGED <<queue, granted, released, F!workVars, F!netVars>>
        BY <1>7 DEF Fallback!FinishBatch, Fallback!workVars, Fallback!netVars, F!workVars, F!netVars
    <2>2. /\ FStatus[s] = "running" /\ FStatus' = [FStatus EXCEPT ![s] = "done"]
          /\ FResults' = FResults /\ FStore' = FStore
        BY <1>1, <2>1, FallbackUpdates DEF PlainStatus
    <2>3. F!AllCollected(s)
        BY <1>3, <1>7, <2>1, SameLocks DEF Fallback!FinishBatch, PastBoth, Decided, Installed
    <2> QED BY <1>2, <2>1, <2>2, <2>3 DEF F!FinishBatch
<1>8. ASSUME NEW s \in Shards, NEW i \in Txs, Fallback!Worker(s, i) \/ Fallback!FailReadResult(s, i)
      PROVE  F!Worker(s, i) \/ F!FailReadResult(s, i)
    <2>1. /\ pc[s][i] # "none" /\ status' = status
          /\ failed[s] = Conflicting /\ HasInstalled(s) /\ i \in Conflicting
        BY <1>3, <1>4, <1>8, WorkerMoves DEF AriaInv, BarrierInv
    <2>2. FStatus' = FStatus
        BY <2>1, FallbackUpdates
    <2>3. UNCHANGED <<store, results, queue, granted, released>> => UNCHANGED F!shardVars
        BY <2>2, FallbackUpdates DEF F!shardVars
    <2>4. CASE Fallback!AcquireAndRead(s, i)
        <3>1. UNCHANGED F!shardVars /\ UNCHANGED <<received, outcome, F!netVars>>
            BY <2>3, <2>4 DEF Fallback!AcquireAndRead, Fallback!shardVars, Fallback!netVars, F!netVars
        <3>2. granted[s][i] = F!LockKeys(s, i)
            BY <2>1, <2>4, SameLocks DEF Fallback!AcquireAndRead
        <3>3. reads' = [reads EXCEPT ![s][i] = [k \in F!LocalReadKeys(batch[i], s) |-> FStore[s][k]]]
            <4>1. FStore[s] = store[s]
                BY <2>1, FallbackUpdates
            <4> QED BY <2>4, <4>1, SameParts DEF Fallback!AcquireAndRead
        <3> DEFINE goes == IF s \in F!ReadSources(i) THEN F!Active(i) \ {s} ELSE {}
        <3>4. /\ todo' = [todo EXCEPT ![s][i] = goes]
              /\ F!Goto(s, i, IF goes = {} THEN F!AfterSend(s, i) ELSE "send")
            BY <2>4, SameParts DEF Fallback!AcquireAndRead, Fallback!Goto, F!Goto
        <3>5. pc[s][i] = "locks"
            BY <2>4 DEF Fallback!AcquireAndRead
        <3> QED BY <1>2, <3>1, <3>2, <3>3, <3>4, <3>5 DEF F!AcquireAndRead, F!Worker
    <2>5. \A t \in Shards : /\ F!MailboxClosed(t, i) = Fallback!MailboxClosed(t, i)
                            /\ \A msg : F!Route(t, i, msg) = Fallback!Route(t, i, msg)
        BY <1>1 DEF PlainStatus, F!MailboxClosed, Fallback!MailboxClosed, F!Route, Fallback!Route,
                    F!Ended, Fallback!Ended
    <2>6. todo[s][i] \subseteq Shards
        BY SameSets DEF F!LockingInv, F!DataType
    <2>7. CASE Fallback!SendReadResult(s, i)
        <3>1. UNCHANGED F!shardVars /\ UNCHANGED <<reads, received, outcome, rpcFailures>>
            BY <2>3, <2>7 DEF Fallback!SendReadResult, Fallback!shardVars
        <3>2. PICK t \in todo[s][i] :
                /\ \A u \in todo[s][i] : t <= u
                /\ todo' = [todo EXCEPT ![s][i] = @ \ {t}]
                /\ IF Fallback!MailboxClosed(t, i)
                   THEN Fallback!Goto(s, i, "err") /\ UNCHANGED <<mail, stray>>
                   ELSE /\ Fallback!Route(t, i, [from |-> s, reads |-> reads[s][i]])
                        /\ Fallback!Goto(s, i, IF todo[s][i] = {t} THEN Fallback!AfterSend(s, i) ELSE "send")
            BY <2>7 DEF Fallback!SendReadResult
        <3>3. IF F!MailboxClosed(t, i)
              THEN F!Goto(s, i, "err") /\ UNCHANGED <<mail, stray>>
              ELSE /\ F!Route(t, i, [from |-> s, reads |-> reads[s][i]])
                   /\ F!Goto(s, i, IF todo[s][i] = {t} THEN F!AfterSend(s, i) ELSE "send")
            BY <2>5, <2>6, <3>2, SameParts DEF Fallback!Goto, F!Goto
        <3>4. pc[s][i] = "send"
            BY <2>7 DEF Fallback!SendReadResult
        <3> QED BY <1>2, <3>1, <3>2, <3>3, <3>4 DEF F!SendReadResult, F!Worker
    <2>8. CASE Fallback!FailReadResult(s, i)
        <3>1. UNCHANGED F!shardVars /\ UNCHANGED <<todo, reads, received, outcome>>
            BY <2>3, <2>8 DEF Fallback!FailReadResult, Fallback!shardVars
        <3>2. PICK t \in todo[s][i] :
                /\ \A u \in todo[s][i] : t <= u
                /\ \/ UNCHANGED <<mail, stray>>
                   \/ /\ ~Fallback!MailboxClosed(t, i)
                      /\ Fallback!Route(t, i, [from |-> s, reads |-> reads[s][i]])
            BY <2>8 DEF Fallback!FailReadResult
        <3>3. \/ UNCHANGED <<mail, stray>>
              \/ ~F!MailboxClosed(t, i) /\ F!Route(t, i, [from |-> s, reads |-> reads[s][i]])
            BY <2>5, <2>6, <3>2
        <3>4. /\ pc[s][i] = "send" /\ F!Goto(s, i, "err")
              /\ rpcFailures < MaxRpcFailures /\ rpcFailures' = rpcFailures + 1
            BY <2>8 DEF Fallback!FailReadResult, Fallback!Goto, F!Goto
        <3> QED BY <1>2, <3>1, <3>2, <3>3, <3>4 DEF F!FailReadResult
    <2>9. CASE Fallback!CollectReadResult(s, i)
        <3>1. UNCHANGED F!shardVars /\ UNCHANGED <<todo, outcome, stray, rpcFailures>>
            BY <2>3, <2>9 DEF Fallback!CollectReadResult, Fallback!shardVars
        <3>2. \A msg : F!ValidReadResult(s, i, msg) = Fallback!ValidReadResult(s, i, msg)
            BY SameParts DEF F!ValidReadResult, Fallback!ValidReadResult
        <3>3. \A r, n : F!MergeReads(r, n) = Fallback!MergeReads(r, n)
            BY DEF F!MergeReads, Fallback!MergeReads
        <3> QED BY <1>2, <2>9, <3>1, <3>2, <3>3, SameParts
                DEF Fallback!CollectReadResult, F!CollectReadResult, F!Worker, Fallback!Goto, F!Goto
    <2>10. CASE Fallback!OrphanFails(s, i)
        <3>1. UNCHANGED F!shardVars /\ UNCHANGED <<todo, reads, received, outcome, F!netVars>>
            BY <2>3, <2>10 DEF Fallback!OrphanFails, Fallback!shardVars, Fallback!netVars, F!netVars
        <3>2. FStatus[s] = "failed"
            BY <1>1, <2>10 DEF Fallback!OrphanFails, PlainStatus
        <3>3. /\ \/ pc[s][i] = "locks" /\ granted[s][i] # F!LockKeys(s, i)
                 \/ pc[s][i] = "collect" /\ received[s][i] # F!Expected(s, i) /\ mail[s][i] = {}
              /\ F!Goto(s, i, "err")
            BY <2>1, <2>10, SameLocks, SameParts DEF Fallback!OrphanFails, Fallback!Goto, F!Goto
        <3> QED BY <1>2, <3>1, <3>2, <3>3 DEF F!OrphanFails, F!Worker
    <2>11. CASE Fallback!ExecuteAndApply(s, i)
        <3>1. UNCHANGED <<FStatus, queue, granted, released, todo, reads, received, F!netVars>>
            BY <2>2, <2>11 DEF Fallback!ExecuteAndApply, Fallback!netVars, F!netVars
        <3> DEFINE out  == ExecuteDeterministic(batch[i].op, reads[s][i])
                   kept == F!FilterLocalWrites(out.writes, s)
        <3>2. /\ F!ExecuteDeterministic(batch[i].op, reads[s][i]) = out
              /\ Fallback!ExecuteDeterministic(batch[i].op, reads[s][i]) = out
              /\ Fallback!FilterLocalWrites(out.writes, s) = kept
              /\ F!ValidLocalWrites(s, i, out.writes, kept) =
                     Fallback!ValidLocalWrites(s, i, out.writes, kept)
            BY SameLogic, SameParts DEF F!ValidLocalWrites, Fallback!ValidLocalWrites
        <3> HIDE DEF out, kept
        <3>3. CASE /\ DOMAIN reads[s][i] = ReadSet(batch[i])
                   /\ Fallback!ValidLocalWrites(s, i, out.writes, kept)
            <4>1. /\ store' = [store EXCEPT ![s] = ApplyWrites(@, out.writes, kept)]
                  /\ results' = IF Home(i) = s THEN [results EXCEPT ![s][i] = out.result] ELSE results
                  /\ outcome' = [outcome EXCEPT ![s][i] = out.result]
                  /\ F!Goto(s, i, "ok")
                BY <2>11, <3>2, <3>3, SameEffects, SameParts, SameSets
                   DEF Fallback!ExecuteAndApply, Fallback!Goto, F!Goto
            <4>2. FStore' = [FStore EXCEPT ![s] = ApplyWrites(store[s], out.writes, kept)]
                <5> DEFINE x == ApplyWrites(store[s], out.writes, kept)
                <5>1. store' = [store EXCEPT ![s] = x]
                    BY <4>1
                <5> HIDE DEF x
                <5>2. FStore' = [FStore EXCEPT ![s] = x]
                    BY <2>1, <5>1, FallbackUpdates
                <5> QED BY <5>2 DEF x
            <4>3. FStore' = [FStore EXCEPT ![s] = F!ApplyWrites(@, out.writes, kept)]
                BY <2>1, <4>2, FallbackUpdates, SameEffects DEF FStore
            <4>4. FResults' = IF Home(i) = s THEN [FResults EXCEPT ![s][i] = out.result] ELSE FResults
                <5> DEFINE x == out.result
                <5>1. \/ results' = [results EXCEPT ![s][i] = x] /\ Home(i) = s
                      \/ results' = results /\ Home(i) # s
                    BY <4>1
                <5> HIDE DEF x
                <5>2. \/ FResults' = [FResults EXCEPT ![s][i] = x] /\ Home(i) = s
                      \/ FResults' = FResults /\ Home(i) # s
                    BY <2>1, <5>1, FallbackUpdates
                <5> QED BY <5>2 DEF x
            <4> QED BY <1>2, <2>11, <3>1, <3>2, <3>3, <4>1, <4>3, <4>4, SameParts, SameSets
                    DEF F!ExecuteAndApply, F!Worker, Fallback!ExecuteAndApply, kept
        <3>4. CASE ~(/\ DOMAIN reads[s][i] = ReadSet(batch[i])
                     /\ Fallback!ValidLocalWrites(s, i, out.writes, kept))
            <4>1. F!Goto(s, i, "err") /\ UNCHANGED <<store, results, outcome>>
                BY <2>11, <3>2, <3>4, SameSets DEF Fallback!ExecuteAndApply, Fallback!Goto, F!Goto
            <4>2. UNCHANGED <<FStore, FResults>>
                BY <4>1, FallbackUpdates
            <4> QED BY <1>2, <2>11, <3>1, <3>2, <3>4, <4>1, <4>2, SameParts, SameSets
                    DEF F!ExecuteAndApply, F!Worker, Fallback!ExecuteAndApply, kept
        <3> QED BY <3>3, <3>4
    <2> QED BY <1>8, <2>4, <2>7, <2>8, <2>9, <2>10, <2>11 DEF Fallback!Worker
<1>9. \/ \E s \in Shards : Fallback!Coordinator(s)
      \/ \E s \in Shards, i \in Txs : Fallback!Worker(s, i) \/ Fallback!FailReadResult(s, i)
    BY DEF FallbackStep, Fallback!TaskStep, Fallback!Txs, Txs, Fallback!Shards, Shards
<1>10. ASSUME NEW s \in Shards, Fallback!Coordinator(s) PROVE F!Coordinator(s)
    BY <1>5, <1>6, <1>7, <1>10, SameSets DEF Fallback!Coordinator, F!Coordinator
<1> QED BY <1>8, <1>9, <1>10, SameSets DEF F!Next

-----------------------------------------------------------------------------
(* The steps of the optimistic phase, seen from the fallback *)

\* What the executors of the optimistic phase still do once a shard is behind both
\* barriers: they install, and publish the results of the successes.
LEMMA ExecutorWrites ==
    ASSUME BarrierInv, DataTypes, DecidesConflicts, NEW s0 \in Shards, PastBoth(s0),
           NEW s \in Shards, Executor(s)
    PROVE  /\ rpcFailures' = rpcFailures
           /\ \A t \in Shards : status'[t] = "failed" => status[t] = "failed"
           /\ \A t \in Shards : store'[t] # store[t] => status[t] = "install"
           /\ \A t \in Shards, i \in Txs : i \in Conflicting => results'[t][i] = results[t][i]
<1> USE DEF BarrierInv
<1>1. status[s] \notin BeforeDone
    BY BehindBoth
<1>2. CASE Install(s)
    <2>1. /\ status[s] = "install" /\ rpcFailures' = rpcFailures
          /\ status' = [status EXCEPT ![s] = IF failed[s] = {} THEN "done" ELSE "waiting"]
          /\ store' = [store EXCEPT ![s] = InstallRun(s)[Len(batch)]]
          /\ results' = [results EXCEPT ![s] = [i \in Txs |->
                IF Installs(s, i) /\ Home(i) = s THEN staged[s][i].result ELSE @[i]]]
        BY <1>2 DEF Install, Goto
    <2>2. failed[s] = Conflicting
        BY <2>1 DEF DecidesConflicts, PastBoth, Decided
    <2>3. \A t \in Shards, i \in Txs : i \in Conflicting => results'[t][i] = results[t][i]
        BY <2>1, <2>2 DEF Installs, DataTypes
    <2> QED BY <2>1, <2>3 DEF BarrierType, DataTypes
<1>3. CASE ~Install(s)
    <2>1. UNCHANGED <<store, results, rpcFailures>>
        BY <1>1, <1>3 DEF Executor, StartBatch, CollectCoordinators, ReportDone, ReportFailures,
                    KeepWaiting, Notified, PassDoneBarrier, PassFailureBarrier, shardVars, BeforeDone
    <2>2. \/ status' = status
          \/ \E where \in {"report_failures", "failure_barrier", "install"} :
                status' = [status EXCEPT ![s] = where]
        BY <1>1, <1>3 DEF Executor, StartBatch, CollectCoordinators, ReportDone, ReportFailures,
                    KeepWaiting, Notified, PassDoneBarrier, PassFailureBarrier,
                    AfterReport, Goto, shardVars, BeforeDone
    <2> QED BY <2>1, <2>2 DEF BarrierType
<1> QED BY <1>2, <1>3

\* Once the fallback has begun somewhere, F sees of the optimistic phase only that
\* a shard gives up.
LEMMA OptimisticIsHidden ==
    ASSUME AriaInv, AriaInv', DecidesConflicts, DecidesConflicts', DataTypes,
           FallbackBegun, OptimisticStep
    PROVE  UNCHANGED F!vars \/ \E s \in Shards : F!GiveUp(s)
<1> USE DEF AriaInv, BarrierInv
<1>1. PICK s0 \in Shards : FallsBack(s0)
    BY DEF FallbackBegun
<1>2. PastBoth(s0) /\ failed[s0] # {} /\ failed[s0] = Conflicting
    BY <1>1 DEF FallsBack, PastBoth, Decided, Installed, Installing, DecidesConflicts
<1>3. AllOk /\ \A u \in Shards : status[u] \notin BeforeDone
    BY <1>2, BehindBoth
<1>4. UNCHANGED <<batch, start>> /\ Txs' = Txs /\ Conflicting' = Conflicting
    <2>1. SchedulerNext
        BY DEF OptimisticStep, SchedulerNext, Optimistic, RpcFails
    <2> QED BY <1>3, <2>1, TablesAreFinal
<1>5. UNCHANGED <<FMembers, FSerial, fallbackVars>>
    BY <1>4 DEF FMembers, FSerial, OptimisticStep
<1>6. PlainStatus /\ PlainStatus'
    BY <1>2, <1>4, StatusIsPlain, StatusIsPlainNext DEF HasConflicts
<1>7. \A t \in Shards : OptimisticMoves(t) /\ InFallback(t)' = InFallback(t)
    BY OptimisticEffect
<1>8. \A t \in Shards : status[t] = "install" => failed[t] # {}
    BY <1>2 DEF DecidesConflicts, PastBoth, Decided
<1>9. \A t \in Shards : FStatus'[t] = FStatus[t] \/ (FStatus[t] = "waiting" /\ status'[t] = "failed")
    BY <1>6, <1>7, <1>8 DEF PlainStatus, OptimisticMoves, BeforeInstall, BeforeDone
<1>10. ASSUME \A t \in Shards : store'[t] # store[t] => status[t] = "install" PROVE FStore' = FStore
    <2>1. \A t \in Shards : Part(SuccessState(start, batch, Conflicting), t)' =
                            Part(SuccessState(start, batch, Conflicting), t)
        BY <1>4 DEF Part
    <2>2. ASSUME NEW t \in Shards PROVE FStore'[t] = FStore[t]
        <3>1. CASE HasInstalled(t)
            <4>1. HasInstalled(t)' /\ store'[t] = store[t]
                BY <1>7, <1>10, <3>1 DEF HasInstalled, Installed, OptimisticMoves, BeforeInstall, BeforeDone,
                                         Installing
            <4> QED BY <3>1, <4>1 DEF FStore
        <3>2. CASE ~HasInstalled(t) /\ HasInstalled(t)'
            <4>1. status'[t] = "waiting"
                BY <1>7, <1>8, <3>2 DEF HasInstalled, Installed, OptimisticMoves, BeforeInstall, BeforeDone
            <4>2. store'[t] = Part(SuccessState(start, batch, failed[t]), t)'
                BY <4>1 DEF Installing
            <4>3. failed'[t] = Conflicting'
                BY <4>1 DEF DecidesConflicts, PastBoth, Decided, Installed
            <4>4. store'[t] = Part(SuccessState(start, batch, Conflicting), t)
                BY <1>4, <4>2, <4>3 DEF Part
            <4> QED BY <3>2, <4>4 DEF FStore
        <3>3. CASE ~HasInstalled(t) /\ ~HasInstalled(t)'
            BY <2>1, <3>3 DEF FStore
        <3> QED BY <3>1, <3>2, <3>3
    <2>3. FStore = [t \in Shards |-> FStore[t]] /\ FStore' = [t \in Shards |-> FStore'[t]]
        BY DEF FStore
    <2> QED BY <2>2, <2>3
<1>11. ASSUME \A t \in Shards, i \in Txs : i \in Conflicting => results'[t][i] = results[t][i]
       PROVE  FResults' = FResults
    BY <1>4, <1>11 DEF FResults
<1>12. FStatus = [t \in Shards |-> FStatus[t]] /\ FStatus' = [t \in Shards |-> FStatus'[t]]
    BY DEF FStatus
<1>13. ASSUME NEW s \in Shards, Executor(s) PROVE UNCHANGED F!vars
    <2>1. /\ rpcFailures' = rpcFailures
          /\ \A t \in Shards : status'[t] = "failed" => status[t] = "failed"
          /\ FStore' = FStore /\ FResults' = FResults
        BY <1>2, <1>10, <1>11, <1>13, ExecutorWrites
    <2>2. FStatus' = FStatus
        BY <1>6, <1>9, <1>12, <2>1 DEF PlainStatus
    <2> QED BY <1>4, <1>5, <2>1, <2>2
            DEF F!vars, F!history, F!shardVars, F!workVars, F!netVars, fallbackVars
<1>14. ASSUME NEW s \in Shards, FailReport(s) PROVE F!GiveUp(s)
    <2>1. /\ UNCHANGED <<store, results>> /\ rpcFailures < MaxRpcFailures /\ rpcFailures' = rpcFailures + 1
          /\ status' = [status EXCEPT ![s] = "failed"]
          /\ status[s] \in {"report_done", "report_failures"}
        BY <1>14 DEF FailReport, Goto
    <2>2. FStore' = FStore /\ FResults' = FResults
        BY <1>10, <1>11, <2>1
    <2>3. FStatus[s] = "waiting" /\ \A t \in Shards : FStatus'[t] = IF t = s THEN "failed" ELSE FStatus[t]
        BY <1>6, <2>1 DEF PlainStatus, BarrierType
    <2>4. FStatus' = [FStatus EXCEPT ![s] = "failed"]
        BY <1>12, <2>3
    <2>5. rpcFailures' \in 0 .. MaxRpcFailures
        BY <2>1, AriaAssumption DEF DataTypes
    <2> QED BY <1>4, <1>5, <2>2, <2>3, <2>4, <2>5
            DEF F!GiveUp, F!history, F!workVars, fallbackVars
<1>15. ASSUME NEW i \in Txs, Coordinator(i) \/ FailCoordinator(i) PROVE FALSE
    <2>1. coord[i] \in {"read", "execute", "stage"}
        BY <1>15 DEF Coordinator, ReadSnapshot, ExecuteTx, StageOutcome, FailCoordinator
    <2> QED BY <1>3, <2>1 DEF AllOk
<1> QED BY <1>13, <1>14, <1>15 DEF OptimisticStep, TaskStep, RpcStep

\* Every step keeps the fallback a batch under deterministic locking.
LEMMA FallsBackStep ==
    ASSUME AriaInv, AriaInv', DecidesConflicts, DecidesConflicts', DataTypes, Publishes,
           FallsBackSerially, [SchedulerNext]_allVars
    PROVE  FallsBackSerially'
<1>1. CASE FallbackStep
    <2>1. F!LockingInv /\ F!Next
        BY <1>1, FallbackIsLocking, FallbackIsNext
    <2>2. F!LockingInv'
        BY <2>1, F!LockingStep, FallbackAssumptions
    <2>3. PICK s \in Shards : \/ status[s] = "waiting" /\ status'[s] = "running"
                              \/ status[s] = "running" \/ InFallback(s)
        BY <1>1, FallbackActor DEF AriaInv, BarrierInv
    <2>4. /\ failed' = failed /\ FallbackMoves(s)
          /\ InFallback(s) => InFallback(s)'
          /\ status[s] = "running" /\ status'[s] = "failed" => InFallback(s)
        BY <1>1, FallbackEffect, WorkersStay DEF AriaInv, BarrierInv, optVars
    <2>5. FallsBack(s)'
        BY <2>3, <2>4 DEF FallsBack, FallbackMoves, AriaInv, Installing
    <2> QED BY <2>2, <2>5 DEF FallsBackSerially, FallbackBegun
<1>2. CASE OptimisticStep
    <2>1. /\ UNCHANGED <<batch, fallbackVars>> /\ Txs' = Txs
          /\ \A t \in Shards : FallsBack(t)' = FallsBack(t)
        BY <1>2, OptimisticEffect DEF AriaInv
    <2>2. FallbackBegun' = FallbackBegun
        BY <2>1 DEF FallbackBegun
    <2>3. CASE FallbackBegun
        <3>1. F!LockingInv
            BY <2>3 DEF FallsBackSerially
        <3>2. UNCHANGED F!vars \/ \E s \in Shards : F!GiveUp(s)
            BY <1>2, <2>3, OptimisticIsHidden
        <3>3. CASE UNCHANGED F!vars
            <4>1. F!LockingInv'
                BY <3>1, <3>3, F!LockingStep, FallbackAssumptions
            <4> QED BY <2>2, <2>3, <4>1 DEF FallsBackSerially
        <3>4. CASE \E s \in Shards : F!GiveUp(s)
            <4>1. F!LockingInv'
                BY <3>1, <3>4, F!GiveUpStep, FallbackAssumptions, SameSets
            <4> QED BY <2>2, <2>3, <4>1 DEF FallsBackSerially
        <3> QED BY <3>2, <3>3, <3>4
    <2>4. CASE ~FallbackBegun
        <3>1. FallbackIdle
            BY <2>4 DEF FallsBackSerially
        <3>2. FallbackIdle'
            BY <2>1, <3>1 DEF FallbackIdle, fallbackVars
        <3> QED BY <2>2, <2>4, <3>2 DEF FallsBackSerially
    <2> QED BY <2>3, <2>4
<1>3. CASE UNCHANGED allVars
    <2>1. UNCHANGED <<batch, start, store, results, status, failed, readers, writers, rpcFailures,
                      fallbackVars>>
        BY <1>3 DEF allVars, vars, history, shardVars, entryVars
    <2>2. Txs' = Txs /\ \A t : InFallback(t)' = InFallback(t) /\ FallsBack(t)' = FallsBack(t)
        BY <2>1 DEF Txs, InFallback, FallsBack, fallbackVars
    <2>3. FallbackBegun' = FallbackBegun
        BY <2>2 DEF FallbackBegun
    <2>4. CASE FallbackBegun
        <3>1. Conflicting' = Conflicting
            <4>1. \A u : LocalFailedIndices(u)' = LocalFailedIndices(u)
                BY <2>1 DEF LocalFailedIndices
            <4> QED BY <4>1 DEF Conflicting
        <3>2. FStatus' = FStatus
            BY <2>1, <2>2 DEF FStatus
        <3>3. FStore' = FStore
            BY <2>1, <2>2, <3>1 DEF FStore, HasInstalled, Installed, Part
        <3>4. FResults' = FResults /\ FMembers' = FMembers /\ FSerial' = FSerial
            BY <2>1, <2>2, <3>1 DEF FResults, FMembers, FSerial
        <3>5. UNCHANGED F!vars
            BY <2>1, <3>2, <3>3, <3>4
               DEF F!vars, F!history, F!shardVars, F!workVars, F!netVars, fallbackVars
        <3>6. F!LockingInv'
            BY <2>4, <3>5, F!LockingStep, FallbackAssumptions DEF FallsBackSerially
        <3> QED BY <2>3, <2>4, <3>6 DEF FallsBackSerially
    <2>5. CASE ~FallbackBegun
        <3>1. FallbackIdle'
            BY <2>1, <2>2, <2>5 DEF FallsBackSerially, FallbackIdle, fallbackVars
        <3> QED BY <2>3, <2>5, <3>1 DEF FallsBackSerially
    <2> QED BY <2>4, <2>5
<1> QED BY <1>1, <1>2, <1>3
        DEF SchedulerNext, Optimistic, RpcFails, FallBack, FallbackStep, OptimisticStep

-----------------------------------------------------------------------------
(* Types and results *)

\* What the fallback writes: a worker writes to the store of its shard, and
\* publishes if that is the result shard.
LEMMA FallbackWrites ==
    ASSUME BarrierType, DataTypes, FallbackStep
    PROVE  /\ \/ store' = store
              \/ \E s \in Shards : /\ \E x : store' = [store EXCEPT ![s] = x]
                                   /\ InFallback(s)
           /\ \/ results' = results
              \/ \E s \in Shards, i \in Txs : /\ \E x : results' = [results EXCEPT ![s][i] = x]
                                              /\ s = Home(i) /\ pc[s][i] # "none"
           /\ \/ rpcFailures' = rpcFailures
              \/ rpcFailures < MaxRpcFailures /\ rpcFailures' = rpcFailures + 1
<1>1. ASSUME NEW s \in Shards, Fallback!StartBatch(s) PROVE UNCHANGED <<store, results, rpcFailures>>
    <2>1. results' = [results EXCEPT ![s] = results[s]]
        BY <1>1 DEF Fallback!StartBatch, Fallback!RegisterResults
    <2> QED BY <1>1, <2>1 DEF Fallback!StartBatch, Fallback!netVars, DataTypes
<1>2. ASSUME NEW s \in Shards, Fallback!FinishBatch(s) \/ \E i \in Txs : Fallback!CollectOutcome(s, i)
      PROVE  UNCHANGED <<store, results, rpcFailures>>
    BY <1>2 DEF Fallback!FinishBatch, Fallback!CollectOutcome, Fallback!netVars
<1>3. ASSUME NEW s \in Shards, Fallback!Coordinator(s) PROVE UNCHANGED <<store, results, rpcFailures>>
    BY <1>1, <1>2, <1>3 DEF Fallback!Coordinator, Fallback!Txs, Txs
<1>4. ASSUME NEW s \in Shards, NEW i \in Txs, Fallback!Worker(s, i) \/ Fallback!FailReadResult(s, i)
      PROVE  /\ store' = store \/ \E x : store' = [store EXCEPT ![s] = x]
             /\ results' = results \/ (s = Home(i) /\ \E x : results' = [results EXCEPT ![s][i] = x])
             /\ \/ rpcFailures' = rpcFailures
                \/ rpcFailures < MaxRpcFailures /\ rpcFailures' = rpcFailures + 1
             /\ pc[s][i] # "none" /\ InFallback(s)
    <2>1. pc[s][i] # "none" /\ InFallback(s)
        BY <1>4, WorkerMoves DEF InFallback
    <2>2. CASE Fallback!ExecuteAndApply(s, i)
        <3>1. Fallback!ResultShard(i) = Home(i)
            BY SameParts
        <3> QED BY <2>1, <2>2, <3>1 DEF Fallback!ExecuteAndApply, Fallback!netVars
    <2>3. CASE ~Fallback!ExecuteAndApply(s, i)
        BY <1>4, <2>1, <2>3 DEF Fallback!Worker, Fallback!AcquireAndRead, Fallback!SendReadResult,
                Fallback!CollectReadResult, Fallback!OrphanFails, Fallback!FailReadResult,
                Fallback!shardVars, Fallback!netVars
    <2> QED BY <2>2, <2>3
<1>5. \/ \E s \in Shards : Fallback!Coordinator(s)
      \/ \E s \in Shards, i \in Txs : Fallback!Worker(s, i) \/ Fallback!FailReadResult(s, i)
    BY DEF FallbackStep, Fallback!TaskStep, Fallback!Txs, Txs, Fallback!Shards, Shards
<1> QED BY <1>3, <1>4, <1>5

\* What a shard publishes when it installs.
LEMMA InstallPublishes ==
    ASSUME AriaInv, DataTypes, NEW s \in Shards, Install(s)
    PROVE  \A t \in Shards, i \in Txs :
              results'[t][i] = IF t = s /\ Home(i) = s /\ i \notin Conflicting
                               THEN SnapshotOutput(i).result ELSE results[t][i]
<1> USE DEF AriaInv, BarrierInv
<1>1. /\ status[s] = "install"
      /\ results' = [results EXCEPT ![s] = [i \in Txs |->
            IF Installs(s, i) /\ Home(i) = s THEN staged[s][i].result ELSE @[i]]]
    BY DEF Install
<1>2. failed[s] = Conflicting
    BY <1>1, DecidedConflicts DEF DecidesOnReports, Decided
<1>3. AllOk
    BY <1>1 DEF DoneBarrier, PastDone, BeforeDone
<1>4. ASSUME NEW i \in Txs, Home(i) = s PROVE staged[s][i].result = SnapshotOutput(i).result
    <2>1. staged[s][i] = KeptAt(i, s)
        BY <1>3, <1>4 DEF AllOk, Tables, TablesOf, HasStaged, OutputShards
    <2> QED BY <1>4, <2>1 DEF KeptAt
<1> QED BY <1>1, <1>2, <1>4 DEF Installs, DataTypes

\* The results of an output are results.
LEMMA SnapshotResult ==
    ASSUME AriaInv, NEW i \in Txs
    PROVE  SnapshotOutput(i).result \in TxResult
BY OutputFacts DEF AriaInv, BarrierInv, Outcome

\* The coordinators keep the types.
LEMMA CoordinatorData ==
    ASSUME DataTypes, NEW i \in Txs, Coordinator(i) \/ FailCoordinator(i)
    PROVE  DataTypes'
<1>1. UNCHANGED <<batch, store, results, local_failed, failed>> /\ Txs' = Txs
    BY DEF Coordinator, ReadSnapshot, ExecuteTx, StageOutcome, FailCoordinator, history, shardVars, Txs
<1>2. waiting' = waiting \/ \E t : Notify(t)
    BY DEF Coordinator, ReadSnapshot, ExecuteTx, StageOutcome, FailCoordinator, Stage, Touch
<1>3. waiting' \in [Shards -> {"no", "check", "window", "parked"}]
    BY <1>2 DEF Notify, DataTypes
<1>4. readers' = readers \/ \E k : readers' = [readers EXCEPT ![k] = @ \cup {i}]
    BY DEF Coordinator, ReadSnapshot, ExecuteTx, StageOutcome, FailCoordinator, entryVars
<1>5. writers' = writers \/ \E t : Stage(i, t)
    BY DEF Coordinator, ReadSnapshot, ExecuteTx, StageOutcome, FailCoordinator, entryVars
<1>6. readers' \in [Keys -> SUBSET Txs]
    BY <1>4 DEF DataTypes
<1>7. writers' \in [Keys -> SUBSET Txs]
    BY <1>5 DEF Stage, DataTypes
<1>8. rpcFailures' = rpcFailures \/ (rpcFailures < MaxRpcFailures /\ rpcFailures' = rpcFailures + 1)
    BY DEF Coordinator, ReadSnapshot, ExecuteTx, StageOutcome, FailCoordinator
<1>9. rpcFailures' \in 0 .. MaxRpcFailures
    BY <1>8, AriaAssumption DEF DataTypes
<1> QED BY <1>1, <1>3, <1>6, <1>7, <1>9 DEF DataTypes

\* The executors of the optimistic phase keep the types.
LEMMA ExecutorData ==
    ASSUME AriaInv, AriaInv', DataTypes, NEW s \in Shards, Executor(s) \/ FailReport(s)
    PROVE  DataTypes'
<1> USE DEF AriaInv, BarrierInv
<1>1. UNCHANGED <<batch, readers, writers>> /\ Txs' = Txs
    BY DEF Executor, StartBatch, CollectCoordinators, ReportDone, ReportFailures, KeepWaiting, Notified,
           PassDoneBarrier, PassFailureBarrier, Install, FailReport, history, entryVars, Txs
<1>2. waiting' \in [Shards -> {"no", "check", "window", "parked"}]
    <2>1. \/ waiting' = waiting \/ \E t : Notify(t)
          \/ \E x \in {"no", "check", "window", "parked"} : waiting' = [waiting EXCEPT ![s] = x]
        BY DEF Executor, StartBatch, CollectCoordinators, ReportDone, ReportFailures, KeepWaiting, Notified,
               PassDoneBarrier, PassFailureBarrier, Install, FailReport, Touch
    <2> QED BY <2>1 DEF Notify, DataTypes
<1>3. local_failed' \in [Shards -> SUBSET Txs]
    <2>1. local_failed' = local_failed \/ local_failed' = [local_failed EXCEPT ![s] = LocalFailedIndices(s)]
        BY DEF Executor, StartBatch, CollectCoordinators, ReportDone, ReportFailures, KeepWaiting, Notified,
               PassDoneBarrier, PassFailureBarrier, Install, FailReport, shardVars
    <2>2. LocalFailedIndices(s) \subseteq Txs
        BY DEF LocalFailedIndices, DataTypes
    <2> QED BY <2>1, <2>2 DEF DataTypes
<1>4. failed' \in [Shards -> SUBSET Txs]
    <2>1. failed' = failed \/ failed' = [failed EXCEPT ![s] = UNION {r.failed : r \in failure_reports[s]}]
        BY DEF Executor, StartBatch, CollectCoordinators, ReportDone, ReportFailures, KeepWaiting, Notified,
               PassDoneBarrier, PassFailureBarrier, Install, FailReport, shardVars
    <2>2. \A r \in failure_reports[s] : r.failed \subseteq Txs
        BY DEF FailureBarrier, DataTypes
    <2> QED BY <2>1, <2>2 DEF DataTypes
<1>5. rpcFailures' \in 0 .. MaxRpcFailures
    <2>1. rpcFailures' = rpcFailures \/ (rpcFailures < MaxRpcFailures /\ rpcFailures' = rpcFailures + 1)
        BY DEF Executor, StartBatch, CollectCoordinators, ReportDone, ReportFailures, KeepWaiting, Notified,
               PassDoneBarrier, PassFailureBarrier, Install, FailReport
    <2> QED BY <2>1, AriaAssumption DEF DataTypes
<1>6. /\ store' \in [Shards -> State]
      /\ results' \in [Shards -> [Txs -> {"absent", "Pending", "NotResponsible"} \cup TxResult]]
    <2>1. CASE Install(s)
        <3>1. /\ status[s] = "install" /\ failed' = failed
              /\ status' = [status EXCEPT ![s] = IF failed[s] = {} THEN "done" ELSE "waiting"]
              /\ store' = [store EXCEPT ![s] = InstallRun(s)[Len(batch)]]
              /\ results' = [results EXCEPT ![s] = [i \in Txs |->
                    IF Installs(s, i) /\ Home(i) = s THEN staged[s][i].result ELSE @[i]]]
            BY <2>1 DEF Install, Goto
        <3>2. status'[s] = "waiting" \/ (status'[s] = "done" /\ failed'[s] = {})
            BY <3>1 DEF BarrierType
        <3>3. store'[s] = Part(SuccessState(start, batch, failed[s]), s)'
            BY <3>2 DEF Installing
        <3>4. UNCHANGED <<batch, start>>
            BY <2>1 DEF Install, history
        <3>5. store'[s] = Part(SuccessState(start, batch, failed[s]), s)
            BY <3>1, <3>3, <3>4 DEF Part
        <3>6. Part(SuccessState(start, batch, failed[s]), s) \in State
            BY ReorderedRuns
        <3>7. store' \in [Shards -> State]
            BY <3>1, <3>5, <3>6 DEF DataTypes
        <3>8. \A i \in Txs : results'[s][i] \in {"absent", "Pending", "NotResponsible"} \cup TxResult
            BY <2>1, InstallPublishes, SnapshotResult DEF DataTypes
        <3> QED BY <3>1, <3>7, <3>8 DEF DataTypes
    <2>2. CASE ~Install(s)
        <3>1. store' = store
            BY <2>2 DEF Executor, StartBatch, CollectCoordinators, ReportDone, ReportFailures, KeepWaiting, Notified,
                   PassDoneBarrier, PassFailureBarrier, FailReport, shardVars
        <3>2. results' = results \/ StartBatch(s)
            BY <2>2 DEF Executor, CollectCoordinators, ReportDone, ReportFailures, KeepWaiting, Notified,
                   PassDoneBarrier, PassFailureBarrier, FailReport, shardVars
        <3> QED BY <3>1, <3>2 DEF StartBatch, DataTypes
    <2> QED BY <2>1, <2>2
<1> QED BY <1>1, <1>2, <1>3, <1>4, <1>5, <1>6 DEF DataTypes

\* A step of the fallback from F's point of view: F goes on, and a result comes from
\* a worker for a failed transaction.
LEMMA FallbackGoesOn ==
    ASSUME AriaInv, AriaInv', DecidesConflicts, DecidesConflicts', DataTypes, Publishes,
           FallsBackSerially, FallbackStep
    PROVE  /\ F!LockingInv /\ F!LockingInv'
           /\ \A s \in Shards, i \in Txs : pc[s][i] # "none" => i \in Conflicting
<1>1. F!LockingInv /\ F!Next
    BY FallbackIsLocking, FallbackIsNext
<1>2. F!LockingInv'
    BY <1>1, F!LockingStep, FallbackAssumptions
<1>3. \A s \in Shards, i \in Txs : pc[s][i] # "none" => i \in Conflicting
    BY <1>1, SameSets DEF F!LockingInv, F!LockIInv, F!LockInv, F!Spawned, FMembers
<1> QED BY <1>1, <1>2, <1>3

\* The fallback keeps the types: F does.
LEMMA FallbackData ==
    ASSUME AriaInv, AriaInv', DecidesConflicts, DecidesConflicts', DataTypes, Publishes,
           FallsBackSerially, FallbackStep
    PROVE  DataTypes'
<1> USE DEF AriaInv, BarrierInv
<1>1. /\ UNCHANGED <<batch, failed>> /\ Txs' = Txs /\ Conflicting' = Conflicting
      /\ \A t \in Shards : HasInstalled(t)' = HasInstalled(t)
    BY FallbackFrame
<1>2. UNCHANGED <<waiting, local_failed, readers, writers>>
    BY DEF FallbackStep, optVars, entryVars
<1>3. F!LockingInv'
    BY FallbackGoesOn
<1>4. F!Shards' = Shards /\ F!Txs' = Txs' /\ F!State' = State /\ F!TxResult' = TxResult
    BY DEF F!Shards, Shards, F!Txs, Txs, F!State, State, F!ReadValue, ReadValue, F!Inode, Inode,
           F!Missing, Missing, F!TxResult, TxResult
<1>5. /\ \A t \in Shards : FStore'[t] \in State
      /\ \A t \in Shards, i \in Txs : FResults'[t][i] \in {"absent", "Pending", "NotResponsible"} \cup TxResult
    BY <1>1, <1>3, <1>4 DEF F!LockingInv, F!DataType
<1>6. store' \in [Shards -> State]
    <2>1. CASE store' = store
        BY <2>1 DEF DataTypes
    <2>2. CASE store' # store
        <3>0. PICK s \in Shards : (\E x : store' = [store EXCEPT ![s] = x]) /\ InFallback(s)
            BY <2>2, FallbackWrites
        <3>1. PICK x : store' = [store EXCEPT ![s] = x]
            BY <3>0
        <3>2. FStore'[s] = store'[s]
            BY <1>1, <3>0 DEF FStore, HasInstalled
        <3>3. x \in State
            BY <1>5, <3>1, <3>2 DEF DataTypes
        <3> QED BY <3>1, <3>3 DEF DataTypes
    <2> QED BY <2>1, <2>2
<1>7. results' \in [Shards -> [Txs -> {"absent", "Pending", "NotResponsible"} \cup TxResult]]
    <2>1. CASE results' = results
        BY <2>1 DEF DataTypes
    <2>2. CASE results' # results
        <3>0. PICK s \in Shards, i \in Txs :
                (\E x : results' = [results EXCEPT ![s][i] = x]) /\ pc[s][i] # "none"
            BY <2>2, FallbackWrites
        <3>1. PICK x : results' = [results EXCEPT ![s][i] = x]
            BY <3>0
        <3>2. i \in Conflicting
            BY <3>0, FallbackGoesOn
        <3>3. FResults'[s][i] = results'[s][i]
            BY <1>1, <3>2 DEF FResults
        <3>4. x \in {"absent", "Pending", "NotResponsible"} \cup TxResult
            BY <1>5, <3>1, <3>3 DEF DataTypes
        <3> QED BY <3>1, <3>4 DEF DataTypes
    <2> QED BY <2>1, <2>2
<1>8. rpcFailures' \in 0 .. MaxRpcFailures
    BY FallbackWrites, AriaAssumption DEF DataTypes
<1> QED BY <1>1, <1>2, <1>6, <1>7, <1>8 DEF DataTypes

\* Every step keeps the types.
LEMMA DataStep ==
    ASSUME AriaInv, AriaInv', DecidesConflicts, DecidesConflicts', DataTypes, Publishes,
           FallsBackSerially, [SchedulerNext]_allVars
    PROVE  DataTypes'
<1>1. CASE UNCHANGED allVars
    BY <1>1 DEF allVars, vars, history, shardVars, entryVars, DataTypes, Txs
<1> QED BY <1>1, CoordinatorData, ExecutorData, FallbackData
        DEF SchedulerNext, Optimistic, RpcFails, FallBack, FallbackStep, TaskStep, RpcStep

-----------------------------------------------------------------------------
\* What is published stays true while results, workers and installations stay.
LEMMA PublishedKept ==
    ASSUME UNCHANGED <<batch, start, results, pc>>, Publishes,
           \A t \in Shards : HasInstalled(t)' = HasInstalled(t),
           (\E t \in Shards : HasInstalled(t)) => Conflicting' = Conflicting
    PROVE  Publishes'
<1>1. Txs' = Txs /\ \A i : Home(i)' = Home(i) /\ SnapshotOutput(i)' = SnapshotOutput(i)
    BY DEF Txs, Home, SnapshotOutput
<1> SUFFICES ASSUME NEW s \in Shards, NEW i \in Txs PROVE PublishedOf(s, i)'
    BY <1>1 DEF Publishes
<1>2. PublishedOf(s, i)
    BY DEF Publishes
<1>3. CASE HasInstalled(s)
    <2>1. Conflicting' = Conflicting
        BY <1>3
    <2> QED BY <1>1, <1>2, <2>1 DEF PublishedOf
<1>4. CASE ~HasInstalled(s)
    BY <1>1, <1>2, <1>4 DEF PublishedOf
<1> QED BY <1>3, <1>4

\* Only behind both barriers has a shard installed, and then the conflicts stay.
LEMMA InstalledIsBehind ==
    ASSUME BarrierInv, DecidesConflicts, [SchedulerNext]_allVars,
           NEW s \in Shards, HasInstalled(s)
    PROVE  /\ Conflicting' = Conflicting /\ PastBoth(s)
           /\ \A u \in Shards : status[u] \notin BeforeDone
<1>1. PastBoth(s)
    BY DEF PastBoth, HasInstalled, Decided
<1> QED BY <1>1, BehindBoth, TablesAreFinal

\* Installing publishes the results of the successes.
LEMMA InstallKeepsPublished ==
    ASSUME AriaInv, AriaInv', DecidesConflicts, DataTypes, Publishes, NEW s \in Shards, Install(s),
           UNCHANGED pc
    PROVE  Publishes'
<1> USE DEF AriaInv, BarrierInv
<1>1. /\ status[s] = "install"
      /\ status' = [status EXCEPT ![s] = IF failed[s] = {} THEN "done" ELSE "waiting"]
      /\ UNCHANGED <<batch, start, readers, writers>>
    BY DEF Install, Goto, history, entryVars
<1>2. Txs' = Txs /\ \A i : Home(i)' = Home(i) /\ SnapshotOutput(i)' = SnapshotOutput(i)
    BY <1>1 DEF Txs, Home, SnapshotOutput
<1>3. Conflicting' = Conflicting
    <2>1. \A u : LocalFailedIndices(u)' = LocalFailedIndices(u)
        BY <1>1 DEF LocalFailedIndices
    <2> QED BY <2>1 DEF Conflicting
<1>4. \A t \in Shards : InFallback(t)' = InFallback(t)
    BY <1>2 DEF InFallback
<1>5. ~InFallback(s)
    BY <1>1 DEF Installing
<1>6. /\ ~HasInstalled(s) /\ HasInstalled(s)'
      /\ \A t \in Shards : t # s => HasInstalled(t)' = HasInstalled(t)
    BY <1>1, <1>4, <1>5 DEF HasInstalled, Installed, BarrierType
<1>7. \A t \in Shards, i \in Txs :
         results'[t][i] = IF t = s /\ Home(i) = s /\ i \notin Conflicting
                          THEN SnapshotOutput(i).result ELSE results[t][i]
    BY InstallPublishes
<1> SUFFICES ASSUME NEW t \in Shards, NEW i \in Txs PROVE PublishedOf(t, i)'
    BY <1>2 DEF Publishes
<1>8. PublishedOf(t, i)
    BY DEF Publishes
<1>9. CASE t # s
    BY <1>2, <1>3, <1>6, <1>7, <1>8, <1>9 DEF PublishedOf
<1>10. CASE t = s
    <2>1. results[s][i] \notin TxResult
        BY <1>6, <1>8, <1>10 DEF PublishedOf
    <2>2. SnapshotOutput(i).result \in TxResult
        BY SnapshotResult
    <2> QED BY <1>2, <1>3, <1>6, <1>7, <1>10, <2>1, <2>2 DEF PublishedOf
<1> QED BY <1>9, <1>10

\* A worker publishes for a failed transaction, on its result shard.
LEMMA FallbackKeepsPublished ==
    ASSUME AriaInv, AriaInv', DecidesConflicts, DecidesConflicts', DataTypes, Publishes,
           FallsBackSerially, FallbackStep
    PROVE  Publishes'
<1> USE DEF AriaInv, BarrierInv
<1>1. /\ batch' = batch /\ Txs' = Txs /\ Conflicting' = Conflicting
      /\ \A t \in Shards : HasInstalled(t)' = HasInstalled(t)
    BY FallbackFrame
<1>2. \A i : Home(i)' = Home(i) /\ SnapshotOutput(i)' = SnapshotOutput(i)
    BY <1>1 DEF Home, SnapshotOutput, FallbackStep
<1> SUFFICES ASSUME NEW t \in Shards, NEW j \in Txs PROVE PublishedOf(t, j)'
    BY <1>1 DEF Publishes
<1>3. PublishedOf(t, j)
    BY DEF Publishes
<1>4. pc[t][j] # "none" => pc'[t][j] # "none"
    BY WorkersStay
<1>5. CASE results'[t][j] = results[t][j]
    BY <1>1, <1>2, <1>3, <1>4, <1>5 DEF PublishedOf
<1>6. CASE results'[t][j] # results[t][j]
    <2>1. PICK s \in Shards, i \in Txs :
            (\E x : results' = [results EXCEPT ![s][i] = x]) /\ s = Home(i) /\ pc[s][i] # "none"
        BY <1>6, FallbackWrites
    <2>2. t = s /\ j = i
        BY <1>6, <2>1 DEF DataTypes
    <2>3. i \in Conflicting /\ HasInstalled(s)
        BY <2>1, FallbackGoesOn DEF HasInstalled, InFallback
    <2> QED BY <1>1, <1>2, <1>4, <2>1, <2>2, <2>3 DEF PublishedOf
<1> QED BY <1>5, <1>6

\* The other steps of the optimistic phase publish nothing.
LEMMA ExecutorKeepsPublished ==
    ASSUME AriaInv, AriaInv', DecidesConflicts, DataTypes, Publishes,
           OptimisticStep, NEW s \in Shards, Executor(s) \/ FailReport(s), ~Install(s)
    PROVE  Publishes'
<1> USE DEF AriaInv, BarrierInv
<1>1. UNCHANGED <<batch, start, pc>> /\ Txs' = Txs /\ \A t \in Shards : InFallback(t)' = InFallback(t)
    BY OptimisticEffect DEF fallbackVars
<1>2. \/ status' = status
      \/ /\ status[s] \in BeforeInstall
         /\ \E where \in BeforeInstall \cup {"install", "failed"} : status' = [status EXCEPT ![s] = where]
    BY DEF Executor, StartBatch, CollectCoordinators, ReportDone, ReportFailures, KeepWaiting, Notified,
           PassDoneBarrier, PassFailureBarrier, FailReport, AfterReport, Goto, shardVars, BeforeDone,
           BeforeInstall
<1>3. \A t \in Shards : HasInstalled(t)' = HasInstalled(t)
    BY <1>1, <1>2 DEF HasInstalled, Installed, BarrierType, BeforeInstall, BeforeDone
<1>4. SchedulerNext
    BY DEF OptimisticStep, SchedulerNext, Optimistic, RpcFails
<1>5. (\E t \in Shards : HasInstalled(t)) =>
          Conflicting' = Conflicting /\ \A u \in Shards : status[u] \notin BeforeDone
    BY <1>4, InstalledIsBehind
<1>6. CASE results' = results
    BY <1>1, <1>3, <1>5, <1>6, PublishedKept
<1>7. CASE StartBatch(s)
    <2>1. /\ status[s] = "idle"
          /\ results' = [results EXCEPT ![s] = [i \in Txs |-> IF Home(i) = s THEN "Pending" ELSE "NotResponsible"]]
        BY <1>7 DEF StartBatch
    <2>2. \A t \in Shards : ~HasInstalled(t) /\ ~HasInstalled(t)'
        BY <1>3, <1>5, <2>1 DEF BeforeDone
    <2>3. ASSUME NEW t \in Shards, NEW i \in Txs PROVE results'[t][i] \notin TxResult
        <3>1. results[t][i] \notin TxResult
            BY <2>2 DEF Publishes, PublishedOf
        <3> QED BY <2>1, <3>1 DEF DataTypes, TxResult
    <2> QED BY <1>1, <2>2, <2>3 DEF Publishes, PublishedOf
<1> QED BY <1>6, <1>7 DEF Executor, CollectCoordinators, ReportDone, ReportFailures, KeepWaiting, Notified,
           PassDoneBarrier, PassFailureBarrier, FailReport, shardVars

\* Every step keeps what is published.
LEMMA PublishesStep ==
    ASSUME AriaInv, AriaInv', DecidesConflicts, DecidesConflicts', DataTypes, Publishes,
           FallsBackSerially, [SchedulerNext]_allVars
    PROVE  Publishes'
<1>1. CASE FallbackStep
    BY <1>1, FallbackKeepsPublished
<1>2. CASE OptimisticStep
    <2>1. pc' = pc
        BY <1>2 DEF OptimisticStep, fallbackVars
    <2>2. ASSUME NEW i \in Txs, Coordinator(i) \/ FailCoordinator(i) PROVE Publishes'
        <3>1. UNCHANGED <<batch, start, results, status>>
            BY <2>2 DEF Coordinator, ReadSnapshot, ExecuteTx, StageOutcome, FailCoordinator,
                        history, shardVars
        <3>2. \A t \in Shards : HasInstalled(t)' = HasInstalled(t)
            BY <2>1, <3>1 DEF HasInstalled, Installed, InFallback, Txs
        <3>3. (\E t \in Shards : HasInstalled(t)) => Conflicting' = Conflicting
            BY InstalledIsBehind DEF AriaInv
        <3> QED BY <2>1, <3>1, <3>2, <3>3, PublishedKept
    <2>3. ASSUME NEW s \in Shards, Executor(s) \/ FailReport(s) PROVE Publishes'
        BY <1>2, <2>1, <2>3, InstallKeepsPublished, ExecutorKeepsPublished
    <2> QED BY <1>2, <2>2, <2>3 DEF OptimisticStep, TaskStep, RpcStep
<1>3. CASE UNCHANGED allVars
    <2>1. UNCHANGED <<batch, start, results, pc, status>>
        BY <1>3 DEF allVars, vars, fallbackVars, history, shardVars
    <2>2. \A t \in Shards : HasInstalled(t)' = HasInstalled(t)
        BY <2>1 DEF HasInstalled, Installed, InFallback, Txs
    <2>3. (\E t \in Shards : HasInstalled(t)) => Conflicting' = Conflicting
        BY InstalledIsBehind DEF AriaInv
    <2> QED BY <2>1, <2>2, <2>3, PublishedKept
<1> QED BY <1>1, <1>2, <1>3
        DEF SchedulerNext, Optimistic, RpcFails, FallBack, FallbackStep, OptimisticStep

-----------------------------------------------------------------------------
(* Both phases together *)

FallbackInv == /\ DataTypes /\ DecidesConflicts /\ UndecidedIsEmpty
               /\ FallsBackSerially /\ Publishes

LEMMA FallbackInit == SchedulerInit => FallbackInv
<1> SUFFICES ASSUME SchedulerInit PROVE FallbackInv
    OBVIOUS
<1>1. /\ status = [s \in Shards |-> "idle"] /\ failed = [s \in Shards |-> {}]
      /\ pc = [s \in Shards |-> [i \in Txs |-> "none"]]
      /\ results = [s \in Shards |-> [i \in Txs |-> "absent"]]
    BY DEF SchedulerInit, Init
<1>2. \A s \in Shards : ~InFallback(s) /\ ~PastBoth(s) /\ ~HasInstalled(s) /\ ~FallsBack(s)
    BY <1>1 DEF InFallback, PastBoth, HasInstalled, FallsBack, Decided, Installed
<1>3. DataTypes
    <2>1. store \in [Shards -> State]
        BY AriaAssumption, InodeTypes DEF SchedulerInit, Init, State
    <2>2. rpcFailures \in 0 .. MaxRpcFailures
        BY AriaAssumption DEF SchedulerInit, Init
    <2> QED BY <1>1, <2>1, <2>2 DEF SchedulerInit, Init, DataTypes
<1>4. FallbackIdle
    BY DEF SchedulerInit, FallbackIdle
<1>5. FallsBackSerially
    BY <1>2, <1>4 DEF FallsBackSerially, FallbackBegun
<1>6. Publishes
    BY <1>1, <1>2 DEF Publishes, PublishedOf, TxResult
<1> QED BY <1>1, <1>2, <1>3, <1>5, <1>6 DEF FallbackInv, DecidesConflicts, UndecidedIsEmpty

LEMMA FallbackInvariant == SchedulerSpec => [](AriaInv /\ FallbackInv)
<1>1. AriaInv /\ FallbackInv /\ [SchedulerNext]_allVars => (AriaInv /\ FallbackInv)'
    <2> SUFFICES ASSUME AriaInv, FallbackInv, [SchedulerNext]_allVars PROVE AriaInv' /\ FallbackInv'
        OBVIOUS
    <2>1. AriaInv'
        BY BarrierStep, TablesStep, ConflictsStep, InstallingStep DEF AriaInv
    <2>2. DecidesConflicts'
        BY <2>1, DecidesStep DEF FallbackInv
    <2> QED BY <2>1, <2>2, UndecidedStep, DataStep, FallsBackStep, PublishesStep DEF FallbackInv, AriaInv
<1> QED BY <1>1, AriaInit, FallbackInit, PTL DEF SchedulerSpec

\* The optimistic phase is well typed with the fallback at work (AriaBatchRegistry).
THEOREM AriaTypeCorrect == SchedulerSpec => []TypeOK
<1>1. AriaInv /\ FallbackInv => TypeOK
    BY DEF AriaInv, BarrierInv, BarrierType, Staging, Statuses, BeforeDone, FallbackInv, DataTypes, TypeOK
<1> QED BY <1>1, FallbackInvariant, PTL

\* Once a shard is behind both barriers, the reorder records that there are name
\* the conflicts.
LEMMA RecordIsConflicts ==
    ASSUME FallbackInv, NEW s \in Shards, PastBoth(s)
    PROVE  AllFailed = Conflicting
<1>1. \A t \in Shards : failed[t] = Conflicting \/ failed[t] = {}
    BY DEF FallbackInv, DecidesConflicts, UndecidedIsEmpty
<1>2. failed[s] = Conflicting
    BY DEF FallbackInv, DecidesConflicts
<1> QED BY <1>1, <1>2 DEF AllFailed

\* When every shard has answered Ok, the merged stores are the state of the reference
\* execution in the order of the reorder record, RPC failures included: the locks
\* order the fallback, and no shard that still installs is in its way
\* (execute_aria_batch, execute_aria_fallback_batch).
THEOREM CompletedIsReorderedAlways == SchedulerSpec => []CompletedIsReordered
<1>1. ASSUME AriaInv, FallbackInv PROVE CompletedIsReordered
    <2> SUFFICES ASSUME \A s \in Shards : status[s] = "done", NEW s \in Shards, NEW k \in Keys
                 PROVE  store[s][k] = IF Owner[k] = s THEN ReorderedState(start, batch, AllFailed)[k]
                                      ELSE Missing
        BY DEF CompletedIsReordered, HoldTogether
    <2>1. AllFailed = Conflicting /\ HasInstalled(s)
        BY <1>1, RecordIsConflicts DEF PastBoth, Decided, Installed, HasInstalled
    <2>2. ReorderedState(start, batch, AllFailed) = FSerial[Len(batch)]
        BY <2>1 DEF ReorderedState, FSerial
    <2>3. FStore[s] = store[s]
        BY <2>1 DEF FStore
    <2>4. F!LockingInv
        BY <1>1, FallbackIsLocking DEF FallbackInv
    <2>5. F!NoError /\ \A i \in F!Members : s \in F!Active(i) => outcome[s][i] # "none"
        <3>1. CASE HasConflicts
            <4>1. \A t \in Shards : FStatus[t] = "done"
                BY <1>1, <3>1, StatusIsPlain DEF PlainStatus, AriaInv, FallbackInv
            <4> QED BY <2>4, <4>1, F!AllDone, FallbackAssumptions, SameSets
        <3>2. CASE ~HasConflicts
            <4>1. \A t \in Shards : failed[t] = {}
                BY <1>1, <3>2 DEF HasConflicts, FallbackInv, DecidesConflicts, UndecidedIsEmpty
            <4>2. \A t \in Shards, i \in Txs : pc[t][i] = "none"
                BY <1>1, <4>1 DEF AriaInv, Installing, InFallback
            <4>3. F!Members = {}
                BY <3>2, FallbackHasMembers DEF HasConflicts
            <4> QED BY <4>2, <4>3, SameSets DEF F!NoError
        <3> QED BY <3>1, <3>2
    <2>6. FStore[s][k] = IF Owner[k] = s THEN FSerial[Len(batch)][k] ELSE F!Missing
        BY <2>4, <2>5, F!ExecutedIsSerial, FallbackAssumptions, SameSets
    <2> QED BY <2>2, <2>3, <2>6, SameSets
<1> QED BY <1>1, FallbackInvariant, PTL

\* A client is told the result that its transaction has in that order, by the shard
\* that SubmitTx named, unless a worker of the fallback has failed; and a shard that
\* answers Ok has told it (TxResultRegistry, install_aria_successes).
THEOREM PublishedIsReorderedAlways == SchedulerSpec => []PublishedIsReordered
<1>1. ASSUME AriaInv, FallbackInv PROVE PublishedIsReordered
    <2>1. F!LockingInv
        BY <1>1, FallbackIsLocking DEF FallbackInv
    <2>2. ASSUME ~FallbackError, NEW s \in Shards, NEW i \in Txs, results[s][i] \in TxResult
          PROVE  s = Home(i) /\ results[s][i] = ReorderedResult(start, batch, AllFailed, i)
        <3>1. PublishedOf(s, i)
            BY <1>1 DEF FallbackInv, Publishes
        <3>2. s = Home(i) /\ PastBoth(s)
            BY <2>2, <3>1 DEF PublishedOf, HasInstalled, PastBoth, Decided
        <3>3. AllFailed = Conflicting /\ AllOk
            BY <1>1, <3>2, RecordIsConflicts, BehindBoth DEF AriaInv, FallbackInv
        <3>4. CASE i \in Conflicting
            <4>1. FResults[s][i] = results[s][i]
                BY <3>4 DEF FResults
            <4>2. F!NoError
                BY <2>2, SameSets DEF F!NoError, FallbackError
            <4>3. FResults[s][i] = F!ReferenceOutput(FSerial[i - 1], batch[i].op).result
                BY <2>1, <2>2, <4>1, <4>2, F!PublishedBySerial, FallbackAssumptions, SameSets
            <4>4. F!ReferenceOutput(FSerial[i - 1], batch[i].op) = ReferenceOutput(FSerial[i - 1], batch[i].op)
                BY SameEffects
            <4> QED BY <3>2, <3>3, <3>4, <4>1, <4>3, <4>4 DEF ReorderedResult, FSerial
        <3>5. CASE i \notin Conflicting
            <4>1. results[s][i] = SnapshotOutput(i).result
                BY <2>2, <3>1, <3>5 DEF PublishedOf
            <4>2. i \in 1 .. Len(batch)
                BY <1>1, ReorderedRuns DEF AriaInv, BarrierInv
            <4> DEFINE f == Conflicting
            <4>3. f = UNION {LocalFailedIndices(u) : u \in Shards}
                BY DEF Conflicting
            <4> HIDE DEF f
            <4>4. ReferenceOutput(SuccessRun(start, batch, f)[i - 1], batch[i].op) = SnapshotOutput(i)
                BY <1>1, <3>3, <3>5, <4>2, <4>3, SuccessSteps DEF AriaInv, f
            <4> QED BY <3>2, <3>3, <3>5, <4>1, <4>4 DEF ReorderedResult, f
        <3> QED BY <3>4, <3>5
    <2>3. ASSUME NEW s \in Shards, status[s] = "done", NEW i \in Txs, Home(i) = s
          PROVE  results[s][i] \in TxResult
        <3>1. CASE i \notin Conflicting
            BY <1>1, <2>3, <3>1 DEF FallbackInv, Publishes, PublishedOf, HasInstalled, Installed
        <3>2. CASE i \in Conflicting
            <4>1. FStatus[s] = "done"
                BY <1>1, <2>3, <3>2, StatusIsPlain DEF HasConflicts, PlainStatus, AriaInv, FallbackInv
            <4>2. i \in F!Members /\ F!ResultShard(i) = s /\ FResults[s][i] = results[s][i]
                BY <2>3, <3>2, FallbackHasMembers, SameParts DEF FResults
            <4>3. FResults[s][i] \in F!TxResult
                BY <2>1, <2>3, <4>1, <4>2, F!DonePublished, FallbackAssumptions, SameSets DEF F!LockingInv
            <4> QED BY <4>2, <4>3, SameSets
        <3> QED BY <3>1, <3>2
    <2> QED BY <2>2, <2>3 DEF PublishedIsReordered
<1> QED BY <1>1, FallbackInvariant, PTL
=============================================================================
