---------------------- MODULE LockingBatchType_proofs ----------------------
(***************************************************************************)
(* Type correctness of LockingBatch.  The lock table is typed by LockType  *)
(* of LockingBatch_proofs; DataType is the rest: stores, reads, messages   *)
(* and results, whose types rest on those of the transaction logic.        *)
(***************************************************************************)
EXTENDS LockingBatch_proofs, Namespace_proofs

\* A map from some keys to what was read there, and a message that carries one.
ReadMap == UNION {[D -> ReadValue] : D \in SUBSET Keys}
Message == [from : Shards, reads : ReadMap]

DataType ==
    /\ serial \in [0 .. Len(batch) -> State]
    /\ store \in [Shards -> State]
    /\ results \in [Shards -> [Txs -> {"absent", "Pending", "NotResponsible"} \cup TxResult]]
    /\ todo \in [Shards -> [Txs -> SUBSET Shards]]
    /\ reads \in [Shards -> [Txs -> ReadMap]]
    /\ received \in [Shards -> [Txs -> SUBSET Shards]]
    /\ mail \in [Shards -> [Txs -> SUBSET Message]]
    /\ stray \in [Shards -> SUBSET Txs]
    /\ outcome \in [Shards -> [Txs -> {"none"} \cup TxResult]]
    /\ rpcFailures \in 0 .. MaxRpcFailures

\* The data before the batch starts anywhere: stores and results are as the
\* optimistic phase or an earlier batch left them.
FreshData ==
    /\ batch \in Batches
    /\ serial \in [0 .. Len(batch) -> State]
    /\ store \in [Shards -> State]
    /\ results \in [Shards -> [Txs -> {"absent", "Pending", "NotResponsible"}]]
    /\ todo = [s \in Shards |-> [i \in Txs |-> {}]]
    /\ reads = [s \in Shards |-> [i \in Txs |-> << >>]]
    /\ received = [s \in Shards |-> [i \in Txs |-> {}]]
    /\ mail = [s \in Shards |-> [i \in Txs |-> {}]]
    /\ stray = [s \in Shards |-> {}]
    /\ outcome = [s \in Shards |-> [i \in Txs |-> "none"]]
    /\ rpcFailures \in 0 .. MaxRpcFailures

-----------------------------------------------------------------------------
\* A map is a ReadMap when its domain and its values are of the right type.
LEMMA ReadMapIntro ==
    ASSUME NEW D, D \subseteq Keys, NEW f \in [D -> ReadValue]
    PROVE  f \in ReadMap
BY DEF ReadMap

\* What membership in ReadMap means.
LEMMA ReadMapElim ==
    ASSUME NEW f \in ReadMap
    PROVE  DOMAIN f \subseteq Keys /\ f \in [DOMAIN f -> ReadValue]
BY DEF ReadMap

\* The shards and keys that a transaction of the batch names exist.
LEMMA TxType ==
    ASSUME batch \in Batches, NEW i \in Txs
    PROVE  /\ batch[i].op \in FsOp
           /\ Active(i) \subseteq Shards
           /\ \A s : LocalReadKeys(batch[i], s) \subseteq Keys
<1>1. batch[i] \in OrderedTx
    <2>1. batch \in Seq(OrderedTx)
        BY BatchAssumption
    <2> QED BY <2>1, ElementType DEF Txs
<1>2. batch[i].op \in FsOp /\ batch[i].tx_id \in Nat
    BY <1>1 DEF OrderedTx
<1>3. /\ ReadSet(batch[i]) \subseteq Keys /\ WriteSet(batch[i]) \subseteq Keys
      /\ ReadSet(batch[i]) # {}
    BY <1>2, SetsInKeys DEF ReadSet, WriteSet
<1>4. \A K \in SUBSET Keys : OwnersOf(K) \subseteq Shards
    BY RouterAssumption DEF OwnersOf
<1>5. aria_result_shard(batch[i]) \in Shards
    BY <1>2, RouterAssumption DEF aria_result_shard, Shards
<1>6. ReadOnlyCoordinator(batch[i]) \in Shards
    <2>1. (CHOOSE k \in ReadSet(batch[i]) : TRUE) \in ReadSet(batch[i])
        BY <1>3
    <2>2. (CHOOSE k \in ReadSet(batch[i]) : TRUE) \in Keys
        BY <2>1, <1>3
    <2> QED BY <2>2, RouterAssumption DEF ReadOnlyCoordinator
<1>7. Active(i) \subseteq Shards
    BY <1>3, <1>4, <1>5, <1>6 DEF Active, ActiveParticipants, aria_fallback_active_shards
<1> QED BY <1>2, <1>3, <1>7 DEF LocalReadKeys

\* Before the batch starts the data is typed.
LEMMA DataFresh == FreshData => DataType
<1> SUFFICES ASSUME FreshData PROVE DataType
    OBVIOUS
<1>1. << >> \in ReadMap
    <2>1. << >> \in [{} -> ReadValue]
        OBVIOUS
    <2> QED BY <2>1, ReadMapIntro
<1>2. reads \in [Shards -> [Txs -> ReadMap]]
    BY <1>1 DEF FreshData
<1>3. results \in [Shards -> [Txs -> {"absent", "Pending", "NotResponsible"} \cup TxResult]]
    BY DEF FreshData
<1>4. /\ todo \in [Shards -> [Txs -> SUBSET Shards]]
      /\ received \in [Shards -> [Txs -> SUBSET Shards]]
      /\ mail \in [Shards -> [Txs -> SUBSET Message]]
    BY DEF FreshData
<1>5. /\ stray \in [Shards -> SUBSET Txs]
      /\ outcome \in [Shards -> [Txs -> {"none"} \cup TxResult]]
    BY DEF FreshData
<1> QED BY <1>2, <1>3, <1>4, <1>5 DEF DataType, FreshData

\* The store starts as the shards' parts of a state, and the history as the
\* reference execution from that state.
LEMMA InitIsFreshData == Init => FreshData
<1> SUFFICES ASSUME Init PROVE FreshData
    OBVIOUS
<1>0. batch \in Batches
    BY DEF Init
<1>1. PICK st \in InitialStates :
          /\ serial = SerialRun(st, [i \in Txs |-> batch[i].op])
          /\ store = [s \in Shards |->
                        [k \in Keys |-> IF Owner[k] = s THEN st[k] ELSE Missing]]
    BY DEF Init
<1>2. st \in State
    BY BatchAssumption
<1>3. batch \in Seq(OrderedTx) /\ Len(batch) \in Nat /\ Txs = 1 .. Len(batch)
    BY <1>0, BatchAssumption DEF Txs
<1> DEFINE ops == [i \in Txs |-> batch[i].op]
<1>4. Len(ops) = Len(batch)
    BY <1>3
<1>5. \A n \in 1 .. Len(batch) : ops[n] \in FsOp
    BY <1>0, <1>3, TxType
<1>6. SerialRun(st, ops) \in [0 .. Len(batch) -> State]
    <2> HIDE DEF ops
    <2> QED BY <1>2, <1>3, <1>4, <1>5, SerialRunType
<1>7. store \in [Shards -> State]
    BY <1>1, <1>2, InodeTypes DEF State
<1>8. rpcFailures \in 0 .. MaxRpcFailures
    BY BatchAssumption DEF Init
<1>9. results \in [Shards -> [Txs -> {"absent", "Pending", "NotResponsible"}]]
    BY DEF Init, InitialResults, Registered
<1>10. serial \in [0 .. Len(batch) -> State]
    BY <1>1, <1>6
<1> QED BY <1>0, <1>7, <1>8, <1>9, <1>10 DEF FreshData, Init

\* So the data is typed at the beginning.
LEMMA DataInit == Init => DataType
BY InitIsFreshData, DataFresh

-----------------------------------------------------------------------------
\* Typed reads stay typed when maps are merged.
LEMMA MergeType ==
    ASSUME NEW f \in ReadMap, NEW g \in ReadMap
    PROVE  MergeReads(f, g) \in ReadMap
<1> DEFINE D == DOMAIN f \cup DOMAIN g
<1>1. D \subseteq Keys
    BY ReadMapElim
<1>2. MergeReads(f, g) \in [D -> ReadValue]
    BY ReadMapElim DEF MergeReads
<1> QED BY <1>1, <1>2, ReadMapIntro

\* A message is filed in a mailbox or counted as stray.
LEMMA RouteType ==
    ASSUME DataType, batch' = batch, members' = members, NEW t \in Shards, NEW i \in Txs, NEW m \in Message,
           Route(t, i, m)
    PROVE  (mail \in [Shards -> [Txs -> SUBSET Message]] /\ stray \in [Shards -> SUBSET Txs])'
<1> USE SameBatch
<1>1. CASE mail' = [mail EXCEPT ![t][i] = @ \cup {m}] /\ stray' = stray
    BY <1>1 DEF DataType
<1>2. CASE stray' = [stray EXCEPT ![t] = @ \cup {i}] /\ mail' = mail
    BY <1>2 DEF DataType
<1> QED BY <1>1, <1>2 DEF Route

\* The store and the result of an execution are typed.
LEMMA ExecuteType ==
    ASSUME batch \in Batches, DataType, NEW s \in Shards, NEW i \in Txs, ExecuteAndApply(s, i)
    PROVE  DataType'
<1> USE SameBatch
<1> DEFINE output == ExecuteDeterministic(batch[i].op, reads[s][i])
           kept   == FilterLocalWrites(output.writes, s)
<1>0. UNCHANGED <<batch, members, serial, todo, reads, received, mail, stray, rpcFailures>>
    BY DEF ExecuteAndApply, history, netVars
<1>1. CASE UNCHANGED <<store, results, outcome>>
    BY <1>0, <1>1 DEF DataType
<1>2. CASE /\ DOMAIN reads[s][i] = ReadSet(batch[i])
           /\ store' = [store EXCEPT ![s] = ApplyWrites(@, output.writes, kept)]
           /\ results' = IF ResultShard(i) = s THEN [results EXCEPT ![s][i] = output.result]
                         ELSE results
           /\ outcome' = [outcome EXCEPT ![s][i] = output.result]
    <2>1. batch[i].op \in FsOp
        BY TxType
    <2>2. /\ DeriveReadSet(batch[i].op) = DOMAIN reads[s][i]
          /\ \A k \in DeriveReadSet(batch[i].op) : reads[s][i][k] \in ReadValue
        <3>1. reads[s][i] \in ReadMap
            BY DEF DataType
        <3> QED BY <3>1, <1>2, ReadMapElim DEF ReadSet
    <2>3. output \in Outcome(DeriveWriteSet(batch[i].op))
        BY <2>1, <2>2, WritesStayInWriteSet
    <2>4. output.result \in TxResult /\ output.writes \in Writes(DeriveWriteSet(batch[i].op))
        BY <2>3 DEF Outcome
    <2> HIDE DEF output
    <2>5. kept \subseteq DOMAIN output.writes
        BY DEF FilterLocalWrites
    <2> HIDE DEF kept
    <2>6. ApplyWrites(store[s], output.writes, kept) \in State
        BY <2>4, <2>5, ApplyWritesType DEF DataType
    <2>7. store' \in [Shards -> State]
        BY <1>2, <2>6 DEF DataType
    <2>8. results' \in [Shards -> [Txs -> {"absent", "Pending", "NotResponsible"} \cup TxResult]]
        BY <1>2, <2>4 DEF DataType
    <2>9. outcome' \in [Shards -> [Txs -> {"none"} \cup TxResult]]
        BY <1>2, <2>4 DEF DataType
    <2> QED BY <1>0, <2>7, <2>8, <2>9 DEF DataType
<1> QED BY <1>1, <1>2 DEF ExecuteAndApply

\* The other steps of a worker.
LEMMA WorkerType ==
    ASSUME batch \in Batches, DataType, NEW s \in Shards, NEW i \in Txs,
           Worker(s, i) \/ FailReadResult(s, i)
    PROVE  DataType'
<1> USE SameBatch
<1>1. CASE AcquireAndRead(s, i)
    <2>0. UNCHANGED <<batch, members, serial, store, results, received, mail, stray, outcome, rpcFailures>>
        BY <1>1 DEF AcquireAndRead, history, shardVars, netVars
    <2>1. reads' \in [Shards -> [Txs -> ReadMap]]
        <3> DEFINE f == [k \in LocalReadKeys(batch[i], s) |-> store[s][k]]
        <3>1. LocalReadKeys(batch[i], s) \subseteq Keys
            BY TxType
        <3>2. f \in [LocalReadKeys(batch[i], s) -> ReadValue]
            BY <3>1 DEF DataType, State
        <3>3. f \in ReadMap
            BY <3>1, <3>2, ReadMapIntro
        <3>4. reads' = [reads EXCEPT ![s][i] = f]
            BY <1>1 DEF AcquireAndRead
        <3> HIDE DEF f
        <3> QED BY <3>3, <3>4 DEF DataType
    <2>2. todo' \in [Shards -> [Txs -> SUBSET Shards]]
        <3>1. Active(i) \subseteq Shards
            BY TxType
        <3>2. PICK targets \in SUBSET Shards : todo' = [todo EXCEPT ![s][i] = targets]
            BY <3>1, <1>1 DEF AcquireAndRead
        <3> QED BY <3>2 DEF DataType
    <2> QED BY <2>0, <2>1, <2>2 DEF DataType
<1>2. ASSUME SendReadResult(s, i) \/ FailReadResult(s, i) PROVE DataType'
    <2>0. UNCHANGED <<batch, members, serial, store, results, reads, received, outcome>>
        BY <1>2 DEF SendReadResult, FailReadResult, history, shardVars
    <2> DEFINE m == [from |-> s, reads |-> reads[s][i]]
    <2>1. m \in Message
        BY DEF DataType, Message
    <2>2. PICK t \in Shards : UNCHANGED <<mail, stray>> \/ Route(t, i, m)
        BY <1>2 DEF SendReadResult, FailReadResult, DataType
    <2> HIDE DEF m
    <2>3. (mail \in [Shards -> [Txs -> SUBSET Message]] /\ stray \in [Shards -> SUBSET Txs])'
        <3>1. CASE UNCHANGED <<mail, stray>>
            BY <3>1, <2>0 DEF DataType
        <3>2. CASE Route(t, i, m)
            BY <3>2, <2>0, <2>1, RouteType
        <3> QED BY <2>2, <3>1, <3>2
    <2>4. todo' \in [Shards -> [Txs -> SUBSET Shards]]
        <3>1. todo' = todo \/ \E u : todo' = [todo EXCEPT ![s][i] = @ \ {u}]
            BY <1>2 DEF SendReadResult, FailReadResult
        <3>2. CASE todo' = todo
            BY <3>2, <2>0 DEF DataType
        <3>3. ASSUME NEW u, todo' = [todo EXCEPT ![s][i] = @ \ {u}]
              PROVE  todo' \in [Shards -> [Txs -> SUBSET Shards]]
            BY <3>3, <2>0 DEF DataType
        <3> QED BY <3>1, <3>2, <3>3
    <2>5. rpcFailures' \in 0 .. MaxRpcFailures
        <3>1. MaxRpcFailures \in Nat
            BY BatchAssumption
        <3>2. rpcFailures' = rpcFailures \/ (rpcFailures < MaxRpcFailures /\ rpcFailures' = rpcFailures + 1)
            BY <1>2 DEF SendReadResult, FailReadResult
        <3> QED BY <3>1, <3>2 DEF DataType
    <2> QED BY <2>0, <2>3, <2>4, <2>5 DEF DataType
<1>3. CASE CollectReadResult(s, i)
    <2>0. UNCHANGED <<batch, members, serial, store, results, todo, outcome, stray, rpcFailures>>
        BY <1>3 DEF CollectReadResult, history, shardVars
    <2>1. PICK m \in mail[s][i] :
              /\ mail' = [mail EXCEPT ![s][i] = @ \ {m}]
              /\ \/ UNCHANGED <<received, reads>>
                 \/ /\ received' = [received EXCEPT ![s][i] = @ \cup {m.from}]
                    /\ reads' = [reads EXCEPT ![s][i] = MergeReads(@, m.reads)]
        BY <1>3 DEF CollectReadResult
    <2>2. m.from \in Shards /\ m.reads \in ReadMap
        BY <2>1 DEF DataType, Message
    <2>3. mail' \in [Shards -> [Txs -> SUBSET Message]]
        BY <2>1 DEF DataType
    <2>4. CASE UNCHANGED <<received, reads>>
        BY <2>0, <2>3, <2>4 DEF DataType
    <2>5. CASE /\ received' = [received EXCEPT ![s][i] = @ \cup {m.from}]
               /\ reads' = [reads EXCEPT ![s][i] = MergeReads(@, m.reads)]
        <3>1. received' \in [Shards -> [Txs -> SUBSET Shards]]
            BY <2>5, <2>2 DEF DataType
        <3> DEFINE f == MergeReads(reads[s][i], m.reads)
        <3>2. f \in ReadMap
            BY <2>2, MergeType DEF DataType
        <3>3. reads' = [reads EXCEPT ![s][i] = f]
            BY <2>5 DEF DataType
        <3> HIDE DEF f
        <3>4. reads' \in [Shards -> [Txs -> ReadMap]]
            BY <3>2, <3>3 DEF DataType
        <3> QED BY <2>0, <2>3, <3>1, <3>4 DEF DataType
    <2> QED BY <2>1, <2>4, <2>5
<1>4. CASE ExecuteAndApply(s, i)
    BY <1>4, ExecuteType
<1>5. CASE OrphanFails(s, i)
    BY <1>5 DEF OrphanFails, history, shardVars, netVars, DataType
<1> QED BY <1>1, <1>2, <1>3, <1>4, <1>5 DEF Worker

\* Every step keeps the data typed; the coordinator only touches the results.
LEMMA DataStep == batch \in Batches /\ DataType /\ [Next]_vars => DataType'
<1> SUFFICES ASSUME batch \in Batches, DataType, [Next]_vars PROVE DataType'
    OBVIOUS
<1> USE SameBatch
<1>1. CASE UNCHANGED vars
    BY <1>1 DEF vars, history, shardVars, workVars, netVars, DataType
<1>2. ASSUME NEW s \in Shards, StartBatch(s) PROVE DataType'
    <2>0. UNCHANGED <<batch, members, serial, store, todo, reads, received, mail, stray, outcome, rpcFailures>>
        BY <1>2 DEF StartBatch, history, netVars
    <2>1. results' = [results EXCEPT ![s] = RegisterResults(s)]
        BY <1>2 DEF StartBatch
    <2>2. RegisterResults(s) \in [Txs -> {"absent", "Pending", "NotResponsible"} \cup TxResult]
        BY DEF RegisterResults, Registered, DataType
    <2>3. results' \in [Shards -> [Txs -> {"absent", "Pending", "NotResponsible"} \cup TxResult]]
        BY <2>1, <2>2 DEF DataType
    <2> QED BY <2>0, <2>3 DEF DataType
<1>3. ASSUME NEW s \in Shards, NEW i \in Txs, CollectOutcome(s, i) PROVE DataType'
    BY <1>3 DEF CollectOutcome, history, workVars, netVars, DataType
<1>4. ASSUME NEW s \in Shards, FinishBatch(s) PROVE DataType'
    BY <1>4 DEF FinishBatch, history, workVars, netVars, DataType
<1>5. ASSUME NEW s \in Shards, NEW i \in Txs, Worker(s, i) \/ FailReadResult(s, i)
      PROVE  DataType'
    BY <1>5, WorkerType
<1> QED BY <1>1, <1>2, <1>3, <1>4, <1>5 DEF Next, Coordinator

\* Both schedulers keep their state well formed, for every batch, every number
\* of shards and any number of RPC failures.  In particular a worker that gets
\* as far as executing always finds a result and always writes proper inodes.
THEOREM TypeCorrect == Spec => []TypeOK
<1>1. LockIInv => LockType
    BY DEF LockIInv
<1>2. Spec => []DataType
    <2>1. DataType /\ LockIInv /\ [Next]_vars => DataType'
        BY <1>1, DataStep DEF LockType
    <2> QED BY <2>1, DataInit, LocksInvariant, PTL DEF Spec
<1>3. LockType /\ DataType => TypeOK
    <2> SUFFICES ASSUME LockType, DataType PROVE TypeOK
        OBVIOUS
    <2>1. ASSUME NEW s \in Shards, NEW i \in Txs PROVE IsReadMap(reads[s][i])
        <3>1. reads[s][i] \in ReadMap
            BY DEF DataType
        <3> QED BY <3>1, ReadMapElim DEF IsReadMap
    <2>2. ASSUME NEW s \in Shards, NEW i \in Txs, NEW m \in mail[s][i] PROVE IsMessage(m)
        <3>1. m \in Message
            BY DEF DataType
        <3>2. m.from \in Shards /\ m.reads \in ReadMap /\ m = [from |-> m.from, reads |-> m.reads]
            BY <3>1 DEF Message
        <3> QED BY <3>2, ReadMapElim DEF IsMessage, IsReadMap
    <2> QED BY <2>1, <2>2 DEF LockType, DataType, TypeOK, StatusValue, PcValue
<1> QED BY <1>1, <1>2, <1>3, LocksInvariant, PTL
=============================================================================
