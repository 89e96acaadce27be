--------------------- MODULE LockingBatchSerial_proofs ---------------------
(***************************************************************************)
(* Deterministic locking is serializable in batch order, for every batch,  *)
(* every number of shards and every placement of keys: what workers read,  *)
(* what clients are told and what a completed batch leaves in the stores   *)
(* is what the reference executor computes.  The argument has four parts,  *)
(* each an invariant on top of those of the lock table (LockIInv) and of   *)
(* the types (DataType): the reads that workers exchange come from the     *)
(* owners of the keys (AgreeInv); a batch ends with all its workers        *)
(* accounted for (EndInv); read results are sent once and awaited          *)
(* (MailInv); and the owner of a key holds the value of the serial         *)
(* execution after the writers that it has executed (SerialInv).           *)
(***************************************************************************)
EXTENDS LockingBatchType_proofs

-----------------------------------------------------------------------------
(* The exchange of reads *)

\* All shards execute the same transactions: all of the batch if it is one of its
\* own, the failed ones if it is the fallback phase of an Aria batch.
Members == UNION {members[s] : s \in Shards}
SameMembers == \A s \in Shards : members[s] = Members

\* Every value of f, reads for transaction i, is what the owner of its key has
\* read for that transaction.
FromOwner(i, f) == \A k \in DOMAIN f : /\ k \in DOMAIN reads[Owner[k]][i]
                                       /\ f[k] = reads[Owner[k]][i][k]

\* A worker has read nothing before it has its locks, and what it knows later,
\* or will take from its mailbox, comes from the owners.
ReadsFromOwners(s, i) ==
    /\ pc[s][i] \in {"none", "locks"} => reads[s][i] = << >>
    /\ FromOwner(i, reads[s][i])
    /\ \A m \in mail[s][i] : FromOwner(i, m.reads)

\* A result is computed from the whole read set, by a worker that then ended.
OutcomeFromReads(s, i) ==
    outcome[s][i] # "none" =>
        /\ pc[s][i] = "ok"
        /\ DOMAIN reads[s][i] = ReadSet(batch[i])
        /\ outcome[s][i] = ExecuteDeterministic(batch[i].op, reads[s][i]).result

AgreeInv == /\ SameMembers
            /\ \A s \in Shards, i \in Txs : ReadsFromOwners(s, i) /\ OutcomeFromReads(s, i)

-----------------------------------------------------------------------------
(* The end of a batch *)

\* The coordinator spawns the workers of relevant transactions, and has failed
\* if it has taken an error from one of them.
WorkerAccounted(s, i) ==
    /\ status[s] \in {"running", "done"} => (pc[s][i] # "none" <=> Relevant(s, i))
    /\ i \in released[s] /\ pc[s][i] = "err" => status[s] = "failed"

\* An active worker that ended well has executed, and the result it published
\* is its own.
OutcomePublished(s, i) ==
    /\ pc[s][i] = "ok" /\ s \in Active(i) => outcome[s][i] # "none"
    /\ outcome[s][i] # "none" /\ ResultShard(i) = s => results[s][i] = outcome[s][i]
    /\ results[s][i] \in TxResult => ResultShard(i) = s /\ results[s][i] = outcome[s][i]

EndInv == \A s \in Shards :
             /\ status[s] = "done" => AllCollected(s)
             /\ \A i \in Txs : WorkerAccounted(s, i) /\ OutcomePublished(s, i)

-----------------------------------------------------------------------------
(* The mailboxes *)

\* Worker i of shard u is done with sending its reads to shard t.
SentTo(u, t, i) == \/ pc[u][i] = "err"
                   \/ pc[u][i] \in {"send", "collect", "ok"} /\ t \notin todo[u][i]

\* Reads go from the sources to the active shards, once each.
MailOnce(t, i) ==
    /\ todo[t][i] \subseteq Active(i) \ {t}
    /\ todo[t][i] # {} => t \in ReadSources(i)
    /\ \A u \in received[t][i] : SentTo(u, t, i)
    /\ \A m \in mail[t][i] : /\ t \in Active(i)
                             /\ m.from \in Expected(t, i) \ received[t][i]
                             /\ SentTo(m.from, t, i)
    /\ \A m, n \in mail[t][i] : m.from = n.from => m = n
    /\ pc[t][i] = "ok" /\ t \in Active(i) => received[t][i] = Expected(t, i)

MailInv == \A t \in Shards : /\ status[t] # "failed" => stray[t] = {}
                             /\ \A i \in Txs : MailOnce(t, i)

-----------------------------------------------------------------------------
(* Serial execution *)

\* serial is the reference execution of the members of the batch.
HistoryInv == \A n \in 1 .. Len(batch) :
    serial[n] = IF n \in Members THEN ApplyReferenceTx(serial[n - 1], batch[n].op)
                ELSE serial[n - 1]

\* A shard stores its own keys only.
OnlyOwnKeys == \A s \in Shards, k \in Keys : Owner[k] # s => store[s][k] = Missing

Writers(k) == {i \in Members : k \in WriteSet(batch[i])}

\* Shard s has executed the writers of key k up to position n, and no other.
AppliedUpTo(s, k, n) == \A i \in Writers(k) : outcome[s][i] # "none" <=> i <= n

\* The owner of a key holds the value that the serial execution gives it after
\* the transactions that the owner has executed.
StoreIsSerial == \A k \in Keys, n \in 0 .. Len(batch) :
    AppliedUpTo(Owner[k], k, n) => store[Owner[k]][k] = serial[n][k]

OwnReadsAreSerial == \A s \in Shards, i \in Txs : \A k \in DOMAIN reads[s][i] :
    Owner[k] = s => reads[s][i][k] = serial[i - 1][k]

\* No worker has failed, though a shard may have given up before it had any.
NoError == \A s \in Shards, i \in Txs : pc[s][i] # "err"

SerialInv == /\ HistoryInv /\ OnlyOwnKeys
             /\ NoError => StoreIsSerial /\ OwnReadsAreSerial

-----------------------------------------------------------------------------
(* How the batch begins *)

\* Nothing has started, the stores hold what the history begins with, and the
\* history is the reference execution from there.
Fresh == /\ FreshLocks /\ FreshData /\ SameMembers /\ HistoryInv
         /\ \A s \in Shards, k \in Keys :
               store[s][k] = IF Owner[k] = s THEN serial[0][k] ELSE Missing

-----------------------------------------------------------------------------
(* What steps leave alone *)

\* Who takes part in a transaction does not change while the batch stays.
LEMMA SameRoles ==
    ASSUME batch' = batch, members' = members
    PROVE  /\ Txs' = Txs
           /\ \A i : Active(i)' = Active(i) /\ ReadSources(i)' = ReadSources(i)
           /\ \A i : ResultShard(i)' = ResultShard(i)
           /\ \A s, i : Expected(s, i)' = Expected(s, i) /\ Relevant(s, i)' = Relevant(s, i)
BY DEF Txs, Active, ReadSources, ResultShard, Expected, Relevant, LockKeys

\* The batch is fixed once it is there.
LEMMA HistoryKept ==
    ASSUME [Next]_vars
    PROVE  UNCHANGED <<batch, members, serial>>
<1>1. ASSUME NEW s \in Shards, Coordinator(s) PROVE UNCHANGED history
    BY <1>1 DEF Coordinator, StartBatch, CollectOutcome, FinishBatch
<1>2. ASSUME NEW s \in Shards, NEW i \in Txs, Worker(s, i) \/ FailReadResult(s, i)
      PROVE  UNCHANGED history
    BY <1>2 DEF Worker, AcquireAndRead, SendReadResult, FailReadResult, CollectReadResult,
                ExecuteAndApply, OrphanFails
<1> QED BY <1>1, <1>2 DEF Next, vars, history

\* A step of worker i of shard s is not seen by the other workers, save through
\* its shard's store and results and through the mailboxes.
LEMMA WorkerIsLocal ==
    ASSUME LockType, DataType, NEW s \in Shards, NEW i \in Txs,
           Worker(s, i) \/ FailReadResult(s, i)
    PROVE  /\ UNCHANGED <<status, queue, granted, released>>
           /\ \A t \in Shards, j \in Txs : t # s \/ j # i =>
                 /\ pc'[t][j] = pc[t][j] /\ todo'[t][j] = todo[t][j]
                 /\ reads'[t][j] = reads[t][j] /\ received'[t][j] = received[t][j]
                 /\ outcome'[t][j] = outcome[t][j] /\ results'[t][j] = results[t][j]
<1>1. CASE AcquireAndRead(s, i)
    BY <1>1 DEF AcquireAndRead, Goto, shardVars, LockType, DataType
<1>2. CASE SendReadResult(s, i)
    BY <1>2 DEF SendReadResult, Goto, shardVars, LockType, DataType
<1>3. CASE FailReadResult(s, i)
    BY <1>3 DEF FailReadResult, Goto, shardVars, LockType, DataType
<1>4. CASE CollectReadResult(s, i)
    BY <1>4 DEF CollectReadResult, Goto, shardVars, LockType, DataType
<1>5. CASE ExecuteAndApply(s, i)
    BY <1>5 DEF ExecuteAndApply, Goto, LockType, DataType
<1>6. CASE OrphanFails(s, i)
    BY <1>6 DEF OrphanFails, Goto, shardVars, LockType, DataType
<1> QED BY <1>1, <1>2, <1>3, <1>4, <1>5, <1>6 DEF Worker

\* The coordinator leaves the data of the workers alone; it only moves their
\* control when it spawns them.
LEMMA CoordinatorIsLocal ==
    ASSUME LockIInv, DataType, NEW s \in Shards, Coordinator(s)
    PROVE  /\ UNCHANGED <<store, todo, reads, received, outcome, mail, stray, rpcFailures>>
           /\ \A t \in Shards, j \in Txs : pc[t][j] # "none" => pc'[t][j] = pc[t][j]
           /\ \A t \in Shards, j \in Txs : pc'[t][j] \in {pc[t][j], "none", "locks"}
<1>1. CASE StartBatch(s)
    <2>1. \A j \in Txs : pc[s][j] = "none"
        BY <1>1 DEF StartBatch, LockIInv, LockInv, Spawned
    <2> QED BY <1>1, <2>1 DEF StartBatch, netVars, LockIInv, LockType
<1>2. ASSUME NEW i \in Txs, CollectOutcome(s, i)
      PROVE  UNCHANGED <<store, todo, reads, received, outcome, mail, stray, rpcFailures, pc>>
    BY <1>2 DEF CollectOutcome, workVars, netVars
<1>3. CASE FinishBatch(s)
    BY <1>3 DEF FinishBatch, workVars, netVars
<1> QED BY <1>1, <1>2, <1>3 DEF Coordinator

\* A worker that has ended stays as it is.
LEMMA EndedIsFinal ==
    ASSUME LockIInv, DataType, [Next]_vars, NEW t \in Shards, NEW j \in Txs, Ended(t, j)
    PROVE  /\ pc'[t][j] = pc[t][j] /\ reads'[t][j] = reads[t][j]
           /\ received'[t][j] = received[t][j] /\ outcome'[t][j] = outcome[t][j]
<1>0. LockType
    BY DEF LockIInv
<1>1. CASE UNCHANGED vars
    BY <1>1 DEF vars, workVars
<1>2. ASSUME NEW s \in Shards, Coordinator(s)
      PROVE  /\ pc'[t][j] = pc[t][j] /\ reads'[t][j] = reads[t][j]
             /\ received'[t][j] = received[t][j] /\ outcome'[t][j] = outcome[t][j]
    BY <1>2, CoordinatorIsLocal DEF Ended
<1>3. ASSUME NEW s \in Shards, NEW i \in Txs, Worker(s, i) \/ FailReadResult(s, i)
      PROVE  t # s \/ j # i
    BY <1>3 DEF Worker, AcquireAndRead, SendReadResult, FailReadResult, CollectReadResult,
                ExecuteAndApply, OrphanFails, Ended
<1> QED BY <1>0, <1>1, <1>2, <1>3, WorkerIsLocal DEF Next

-----------------------------------------------------------------------------
(* Workers agree on what they read *)

\* Reads change when a worker gets its locks and when it takes a read result.
LEMMA OnlyTheseRead ==
    ASSUME LockIInv, DataType, [Next]_vars
    PROVE  \/ reads' = reads
           \/ \E s \in Shards, i \in Txs : AcquireAndRead(s, i) \/ CollectReadResult(s, i)
<1>1. ASSUME NEW s \in Shards, Coordinator(s) PROVE reads' = reads
    BY <1>1, CoordinatorIsLocal
<1>2. ASSUME NEW s \in Shards, NEW i \in Txs,
             SendReadResult(s, i) \/ FailReadResult(s, i) \/ ExecuteAndApply(s, i) \/ OrphanFails(s, i)
      PROVE  reads' = reads
    BY <1>2 DEF SendReadResult, FailReadResult, ExecuteAndApply, OrphanFails
<1>3. CASE UNCHANGED vars
    BY <1>3 DEF vars, workVars
<1> QED BY <1>1, <1>2, <1>3 DEF Next, Worker

\* What AcquireAndRead reads.
LEMMA AcquireReads ==
    ASSUME DataType, NEW s \in Shards, NEW i \in Txs, AcquireAndRead(s, i)
    PROVE  /\ DOMAIN reads'[s][i] = LocalReadKeys(batch[i], s)
           /\ \A k \in LocalReadKeys(batch[i], s) :
                 Owner[k] = s /\ k \in ReadSet(batch[i]) /\ reads'[s][i][k] = store[s][k]
BY DEF AcquireAndRead, DataType, LocalReadKeys

\* What CollectReadResult adds.
LEMMA CollectReads ==
    ASSUME DataType, NEW s \in Shards, NEW i \in Txs, CollectReadResult(s, i)
    PROVE  \/ reads' = reads
           \/ \E m \in mail[s][i] :
                 /\ ValidReadResult(s, i, m)
                 /\ DOMAIN reads'[s][i] = DOMAIN reads[s][i] \cup DOMAIN m.reads
                 /\ \A k \in DOMAIN reads[s][i] : reads'[s][i][k] = reads[s][i][k]
                 /\ \A k \in DOMAIN m.reads : reads'[s][i][k] = m.reads[k]
<1>1. PICK m \in mail[s][i] :
          IF ValidReadResult(s, i, m)
          THEN reads' = [reads EXCEPT ![s][i] = MergeReads(@, m.reads)]
          ELSE reads' = reads
    BY DEF CollectReadResult
<1>2. CASE ValidReadResult(s, i, m)
    <2>1. reads'[s][i] = MergeReads(reads[s][i], m.reads)
        BY <1>1, <1>2 DEF DataType
    <2>2. DOMAIN m.reads \cap DOMAIN reads[s][i] = {}
        BY <1>2 DEF ValidReadResult
    <2> QED BY <1>2, <2>1, <2>2 DEF MergeReads
<1> QED BY <1>1, <1>2

\* A worker never forgets or changes what it has read.
LEMMA ReadsGrow ==
    ASSUME LockIInv, DataType, AgreeInv, [Next]_vars, NEW t \in Shards, NEW j \in Txs
    PROVE  \A k \in DOMAIN reads[t][j] :
               k \in DOMAIN reads'[t][j] /\ reads'[t][j][k] = reads[t][j][k]
<1>0. LockType
    BY DEF LockIInv
<1>1. CASE reads' = reads
    BY <1>1
<1>2. ASSUME NEW s \in Shards, NEW i \in Txs, AcquireAndRead(s, i), t = s, j = i
      PROVE  reads[t][j] = << >>
    BY <1>2 DEF AcquireAndRead, AgreeInv, ReadsFromOwners
<1>3. ASSUME NEW s \in Shards, NEW i \in Txs, CollectReadResult(s, i), t = s, j = i,
             NEW k \in DOMAIN reads[t][j]
      PROVE  k \in DOMAIN reads'[t][j] /\ reads'[t][j][k] = reads[t][j][k]
    BY <1>3, CollectReads
<1>4. ASSUME NEW s \in Shards, NEW i \in Txs, AcquireAndRead(s, i) \/ CollectReadResult(s, i),
             t # s \/ j # i
      PROVE  reads'[t][j] = reads[t][j]
    BY <1>0, <1>4, WorkerIsLocal DEF Worker
<1>5. DOMAIN << >> = {}
    OBVIOUS
<1> QED BY <1>1, <1>2, <1>3, <1>4, <1>5, OnlyTheseRead

\* Values that come from the owners still do after a step.
LEMMA FromOwnerKept ==
    ASSUME LockIInv, DataType, AgreeInv, [Next]_vars,
           NEW j \in Txs, NEW f, DOMAIN f \subseteq Keys, FromOwner(j, f)
    PROVE  \A k \in DOMAIN f : k \in DOMAIN reads'[Owner[k]][j] /\ f[k] = reads'[Owner[k]][j][k]
BY ReadsGrow, RouterAssumption DEF FromOwner
\* A read result that is in a mailbox after a step was there before, or has just
\* been sent by a worker that had it to send, to a shard still at the batch.
LEMMA MailGrows ==
    ASSUME LockIInv, DataType, [Next]_vars, NEW t \in Shards, NEW j \in Txs, NEW m \in mail'[t][j]
    PROVE  \/ m \in mail[t][j]
           \/ \E s \in Shards : /\ m = [from |-> s, reads |-> reads[s][j]]
                                /\ pc[s][j] = "send" /\ t \in todo[s][j]
                                /\ pc'[s][j] = "err" \/ t \notin todo'[s][j]
                                /\ SendReadResult(s, j) \/ FailReadResult(s, j)
<1> DEFINE Goal == \/ m \in mail[t][j]
                   \/ \E s \in Shards : /\ m = [from |-> s, reads |-> reads[s][j]]
                                        /\ pc[s][j] = "send" /\ t \in todo[s][j]
                                        /\ pc'[s][j] = "err" \/ t \notin todo'[s][j]
                                        /\ SendReadResult(s, j) \/ FailReadResult(s, j)
<1>1. CASE UNCHANGED vars
    BY <1>1 DEF vars, netVars
<1>2. ASSUME NEW s \in Shards, Coordinator(s) PROVE Goal
    BY <1>2, CoordinatorIsLocal
<1>3. ASSUME NEW s \in Shards, NEW i \in Txs,
             AcquireAndRead(s, i) \/ ExecuteAndApply(s, i) \/ OrphanFails(s, i)
      PROVE  Goal
    BY <1>3 DEF AcquireAndRead, ExecuteAndApply, OrphanFails, netVars
<1>4. ASSUME NEW s \in Shards, NEW i \in Txs, CollectReadResult(s, i) PROVE Goal
    <2>1. PICK n : mail' = [mail EXCEPT ![s][i] = @ \ {n}]
        BY <1>4 DEF CollectReadResult
    <2> QED BY <2>1 DEF DataType
<1>5. ASSUME NEW s \in Shards, NEW i \in Txs, SendReadResult(s, i) \/ FailReadResult(s, i)
      PROVE  Goal
    <2> DEFINE msg == [from |-> s, reads |-> reads[s][i]]
    <2>1. PICK u \in todo[s][i] : /\ UNCHANGED mail \/ mail' = [mail EXCEPT ![u][i] = @ \cup {msg}]
                                  /\ \/ todo' = [todo EXCEPT ![s][i] = @ \ {u}]
                                     \/ pc' = [pc EXCEPT ![s][i] = "err"]
        BY <1>5 DEF SendReadResult, FailReadResult, Route, Goto
    <2>2. pc[s][i] = "send"
        BY <1>5 DEF SendReadResult, FailReadResult
    <2>3. pc'[s][i] = "err" \/ u \notin todo'[s][i]
        BY <2>1 DEF LockIInv, LockType, DataType
    <2>4. m \in mail[t][j] \/ (m = msg /\ t = u /\ j = i)
        BY <2>1 DEF DataType
    <2> QED BY <1>5, <2>1, <2>2, <2>3, <2>4
<1> QED BY <1>1, <1>2, <1>3, <1>4, <1>5 DEF Next, Worker

\* Before the batch nobody has read anything.
LEMMA AgreeFresh == Fresh => AgreeInv
<1> SUFFICES ASSUME Fresh PROVE AgreeInv
    OBVIOUS
<1>1. DOMAIN << >> = {}
    OBVIOUS
<1> QED BY <1>1 DEF Fresh, FreshLocks, FreshData, AgreeInv, ReadsFromOwners, FromOwner,
                    OutcomeFromReads

\* The initial states of a batch of its own are fresh, with all transactions as
\* members.
LEMMA InitIsFresh == Init => Fresh /\ Members = Txs
<1> SUFFICES ASSUME Init PROVE Fresh /\ Members = Txs
    OBVIOUS
<1>0. FreshLocks /\ FreshData
    BY InitIsFreshData DEF Init, FreshLocks
<1>1. SameMembers /\ Members = Txs
    <2>1. 0 \in Shards
        BY RouterAssumption DEF Shards
    <2>2. \A s \in Shards : members[s] = Txs
        BY DEF Init
    <2> QED BY <2>1, <2>2 DEF SameMembers, Members
<1>2. PICK st \in InitialStates :
          /\ serial = SerialRun(st, [i \in Txs |-> batch[i].op])
          /\ store = [s \in Shards |->
                        [k \in Keys |-> IF Owner[k] = s THEN st[k] ELSE Missing]]
    BY DEF Init
<1>3. batch \in Seq(OrderedTx) /\ Len(batch) \in Nat /\ Txs = 1 .. Len(batch)
    BY BatchAssumption DEF Txs, Init
<1> DEFINE ops == [i \in Txs |-> batch[i].op]
<1>4. Len(ops) = Len(batch) /\ \A n \in 1 .. Len(batch) : ops[n] = batch[n].op
    BY <1>3
<1> HIDE DEF ops
<1>5. /\ SerialRun(st, ops)[0] = st
      /\ \A n \in 1 .. Len(batch) : SerialRun(st, ops)[n] =
                                      ApplyReferenceTx(SerialRun(st, ops)[n - 1], ops[n])
    <2> DEFINE L == Len(batch)
    <2>1. L \in Nat /\ Len(ops) = L
        BY <1>3, <1>4
    <2> HIDE DEF L
    <2>2. /\ SerialRun(st, ops)[0] = st
          /\ \A n \in 1 .. L : SerialRun(st, ops)[n] =
                                  ApplyReferenceTx(SerialRun(st, ops)[n - 1], ops[n])
        BY <2>1, SerialRunSteps
    <2> QED BY <2>2 DEF L
<1>6. HistoryInv /\ serial[0] = st
    BY <1>1, <1>2, <1>3, <1>4, <1>5 DEF HistoryInv, ops
<1>7. \A s \in Shards, k \in Keys :
          store[s][k] = IF Owner[k] = s THEN serial[0][k] ELSE Missing
    BY <1>2, <1>6
<1> QED BY <1>0, <1>1, <1>6, <1>7 DEF Fresh

\* Every step keeps the reads equal to those of the owners.
LEMMA ReadsStep ==
    ASSUME LockIInv, DataType, AgreeInv, [Next]_vars, NEW t \in Shards, NEW j \in Txs
    PROVE  ReadsFromOwners(t, j)'
<1>0. LockType /\ ReadsFromOwners(t, j)
    BY DEF LockIInv, AgreeInv
<1>1. UNCHANGED <<batch, members>>
    BY HistoryKept
<1>2. reads[t][j] \in ReadMap /\ DOMAIN reads[t][j] \subseteq Keys
    BY ReadMapElim DEF DataType
<1>3. pc'[t][j] \in {"none", "locks"} => reads'[t][j] = << >>
    <2>1. CASE UNCHANGED vars
        BY <2>1, <1>0 DEF vars, workVars, ReadsFromOwners
    <2>2. ASSUME NEW s \in Shards, Coordinator(s), pc'[t][j] \in {"none", "locks"}
          PROVE  reads'[t][j] = << >>
        <3>1. pc[t][j] \in {"none", "locks"} /\ reads' = reads
            BY <2>2, CoordinatorIsLocal
        <3> QED BY <3>1, <1>0 DEF ReadsFromOwners
    <2>3. ASSUME NEW s \in Shards, NEW i \in Txs, Worker(s, i) \/ FailReadResult(s, i),
                 t = s, j = i
          PROVE  pc'[t][j] \notin {"none", "locks"}
        BY <2>3, <1>0 DEF Worker, AcquireAndRead, SendReadResult, FailReadResult, CollectReadResult,
                ExecuteAndApply, OrphanFails, Goto, AfterSend, LockType
    <2>4. ASSUME NEW s \in Shards, NEW i \in Txs, Worker(s, i) \/ FailReadResult(s, i),
                 t # s \/ j # i, pc'[t][j] \in {"none", "locks"}
          PROVE  reads'[t][j] = << >>
        BY <2>4, <1>0, WorkerIsLocal DEF ReadsFromOwners
    <2> QED BY <2>1, <2>2, <2>3, <2>4 DEF Next
<1>4. ASSUME NEW k \in DOMAIN reads'[t][j]
      PROVE  k \in DOMAIN reads'[Owner[k]][j] /\ reads'[t][j][k] = reads'[Owner[k]][j][k]
    <2>1. CASE k \in DOMAIN reads[t][j] /\ reads'[t][j][k] = reads[t][j][k]
        BY <2>1, <1>0, <1>2, FromOwnerKept DEF ReadsFromOwners
    <2>2. ASSUME NEW m \in mail[t][j], k \in DOMAIN m.reads, reads'[t][j][k] = m.reads[k]
          PROVE  k \in DOMAIN reads'[Owner[k]][j] /\ reads'[t][j][k] = reads'[Owner[k]][j][k]
        <3>1. m \in Message
            BY <2>2 DEF DataType
        <3>2. m.reads \in ReadMap
            BY <3>1 DEF Message
        <3> QED BY <2>2, <3>2, ReadMapElim, <1>0, FromOwnerKept DEF ReadsFromOwners
    <2>3. CASE reads'[t][j] = reads[t][j]
        BY <2>3, <2>1, <1>4
    <2>4. ASSUME NEW s \in Shards, NEW i \in Txs, AcquireAndRead(s, i) \/ CollectReadResult(s, i),
                 t # s \/ j # i
          PROVE  reads'[t][j] = reads[t][j]
        BY <1>0, <2>4, WorkerIsLocal DEF Worker
    <2>5. CASE AcquireAndRead(t, j)
        <3>1. Owner[k] = t
            BY <2>5, <1>4, AcquireReads
        <3> QED BY <3>1, <1>4
    <2>6. CASE CollectReadResult(t, j)
        <3>1. CASE reads' = reads
            BY <3>1, <2>3
        <3>2. ASSUME NEW m \in mail[t][j], ValidReadResult(t, j, m),
                     DOMAIN reads'[t][j] = DOMAIN reads[t][j] \cup DOMAIN m.reads,
                     \A x \in DOMAIN reads[t][j] : reads'[t][j][x] = reads[t][j][x],
                     \A x \in DOMAIN m.reads : reads'[t][j][x] = m.reads[x]
              PROVE  k \in DOMAIN reads'[Owner[k]][j] /\ reads'[t][j][k] = reads'[Owner[k]][j][k]
            BY <3>2, <2>1, <2>2, <1>4
        <3> QED BY <2>6, <3>1, <3>2, CollectReads
    <2> QED BY <2>3, <2>4, <2>5, <2>6, OnlyTheseRead
<1>5. ASSUME NEW m \in mail'[t][j], NEW k \in DOMAIN m.reads
      PROVE  k \in DOMAIN reads'[Owner[k]][j] /\ m.reads[k] = reads'[Owner[k]][j][k]
    <2>1. CASE m \in mail[t][j]
        <3>1. m \in Message
            BY <2>1 DEF DataType
        <3>2. m.reads \in ReadMap
            BY <3>1 DEF Message
        <3> QED BY <2>1, <3>2, ReadMapElim, <1>0, <1>5, FromOwnerKept DEF ReadsFromOwners
    <2>2. ASSUME NEW s \in Shards, m = [from |-> s, reads |-> reads[s][j]]
          PROVE  k \in DOMAIN reads'[Owner[k]][j] /\ m.reads[k] = reads'[Owner[k]][j][k]
        <3>1. m.reads = reads[s][j] /\ reads[s][j] \in ReadMap /\ FromOwner(j, reads[s][j])
            BY <2>2 DEF DataType, AgreeInv, ReadsFromOwners
        <3> QED BY <3>1, ReadMapElim, <1>5, FromOwnerKept
    <2> QED BY <2>1, <2>2, <1>5, MailGrows
<1> QED BY <1>3, <1>4, <1>5 DEF ReadsFromOwners, FromOwner

\* Every step keeps results computed from whole read sets.
LEMMA OutcomeStep ==
    ASSUME LockIInv, DataType, AgreeInv, [Next]_vars, NEW t \in Shards, NEW j \in Txs
    PROVE  OutcomeFromReads(t, j)'
<1>0. LockType /\ OutcomeFromReads(t, j) /\ UNCHANGED <<batch, members>>
    BY HistoryKept DEF LockIInv, AgreeInv
<1>1. CASE outcome[t][j] # "none"
    <2>1. Ended(t, j)
        BY <1>1, <1>0 DEF OutcomeFromReads, Ended
    <2> QED BY <2>1, <1>0, EndedIsFinal DEF OutcomeFromReads
<1>2. CASE outcome'[t][j] = outcome[t][j] /\ outcome[t][j] = "none"
    BY <1>2 DEF OutcomeFromReads
<1>3. CASE ExecuteAndApply(t, j)
    <2>1. \/ outcome' = outcome
          \/ /\ DOMAIN reads[t][j] = ReadSet(batch[j]) /\ reads' = reads
             /\ pc' = [pc EXCEPT ![t][j] = "ok"]
             /\ outcome' = [outcome EXCEPT ![t][j] =
                                ExecuteDeterministic(batch[j].op, reads[t][j]).result]
        BY <1>3 DEF ExecuteAndApply, Goto
    <2>2. CASE outcome' = outcome
        BY <2>2, <1>1, <1>2
    <2>3. CASE /\ DOMAIN reads[t][j] = ReadSet(batch[j]) /\ reads' = reads
               /\ pc' = [pc EXCEPT ![t][j] = "ok"]
               /\ outcome' = [outcome EXCEPT ![t][j] =
                                ExecuteDeterministic(batch[j].op, reads[t][j]).result]
        BY <2>3, <1>0 DEF OutcomeFromReads, LockType, DataType
    <2> QED BY <2>1, <2>2, <2>3
<1>4. ASSUME NEW s \in Shards, Coordinator(s) PROVE outcome' = outcome
    BY <1>4, CoordinatorIsLocal
<1>5. ASSUME NEW s \in Shards, NEW i \in Txs, Worker(s, i) \/ FailReadResult(s, i), t # s \/ j # i
      PROVE  outcome'[t][j] = outcome[t][j]
    BY <1>5, <1>0, WorkerIsLocal
<1>6. ASSUME NEW s \in Shards, NEW i \in Txs, Worker(s, i) \/ FailReadResult(s, i),
             ~ExecuteAndApply(s, i)
      PROVE  outcome' = outcome
    BY <1>6 DEF Worker, AcquireAndRead, SendReadResult, FailReadResult, CollectReadResult, OrphanFails
<1>7. CASE UNCHANGED vars
    BY <1>7, <1>1, <1>2 DEF vars, workVars
<1> QED BY <1>1, <1>2, <1>3, <1>4, <1>5, <1>6, <1>7 DEF Next

\* Every step keeps AgreeInv.
LEMMA AgreeStep == LockIInv /\ DataType /\ AgreeInv /\ [Next]_vars => AgreeInv'
<1> SUFFICES ASSUME LockIInv, DataType, AgreeInv, [Next]_vars PROVE AgreeInv'
    OBVIOUS
<1>1. Txs' = Txs /\ UNCHANGED <<batch, members>>
    BY HistoryKept DEF Txs
<1> QED BY <1>1, ReadsStep, OutcomeStep DEF AgreeInv, SameMembers, Members

\* The types, as an invariant of the specification.
LEMMA DataInvariant == Spec => []DataType
<1>1. DataType /\ LockIInv /\ [Next]_vars => DataType'
    BY DataStep DEF LockIInv, LockType
<1> QED BY <1>1, DataInit, LocksInvariant, PTL DEF Spec

\* Active shards agree on what they read, always.
LEMMA AgreeInvariant == Spec => []AgreeInv
BY InitIsFresh, AgreeFresh, AgreeStep, LocksInvariant, DataInvariant, PTL DEF Spec

\* All active shards of a transaction that execute it compute the same result,
\* RPC failures and failed peers included (assert_tx_results_consistent).
THEOREM OutcomesAgreeAlways == Spec => []OutcomesAgree
<1>1. DataType /\ AgreeInv => OutcomesAgree
    <2> SUFFICES ASSUME DataType, AgreeInv, NEW s \in Shards, NEW t \in Shards, NEW i \in Txs,
                        outcome[s][i] # "none", outcome[t][i] # "none"
                 PROVE  outcome[s][i] = outcome[t][i]
        BY DEF OutcomesAgree
    <2>1. /\ DOMAIN reads[s][i] = ReadSet(batch[i]) /\ DOMAIN reads[t][i] = ReadSet(batch[i])
          /\ outcome[s][i] = ExecuteDeterministic(batch[i].op, reads[s][i]).result
          /\ outcome[t][i] = ExecuteDeterministic(batch[i].op, reads[t][i]).result
        BY DEF AgreeInv, OutcomeFromReads
    <2>2. \A k \in ReadSet(batch[i]) : reads[s][i][k] = reads[t][i][k]
        BY <2>1 DEF AgreeInv, ReadsFromOwners, FromOwner
    <2>3. reads[s][i] \in ReadMap /\ reads[t][i] \in ReadMap
        BY DEF DataType
    <2>4. reads[s][i] \in [ReadSet(batch[i]) -> ReadValue] /\ reads[t][i] \in [ReadSet(batch[i]) -> ReadValue]
        BY <2>1, <2>3, ReadMapElim
    <2>5. reads[s][i] = reads[t][i]
        BY <2>2, <2>4
    <2> QED BY <2>1, <2>5
<1> QED BY <1>1, DataInvariant, AgreeInvariant, PTL
-----------------------------------------------------------------------------
(* A completed batch has executed and published everything *)

\* The shard that answers the client is active, and so is the owner of a key
\* that is written.
LEMMA ActiveShards ==
    ASSUME batch \in Batches, NEW i \in Txs
    PROVE  /\ ResultShard(i) \in Active(i)
           /\ \A k \in WriteSet(batch[i]) : Owner[k] \in Active(i)
<1>1. batch[i].op \in FsOp /\ Active(i) \subseteq Shards
    BY TxType
<1>2. \A k \in WriteSet(batch[i]) : Owner[k] \in Active(i)
    BY DEF Active, ActiveParticipants, aria_fallback_active_shards, OwnersOf
<1>3. CASE Scheduler = "Aria"
    BY <1>3, <1>2 DEF ResultShard, Active, aria_fallback_active_shards
<1>4. CASE Scheduler # "Aria"
    <2>1. Active(i) = ActiveParticipants(batch[i]) /\ ResultShard(i) = Min(ActiveParticipants(batch[i]))
        BY <1>4 DEF Active, ResultShard, result_shard
    <2>2. ActiveParticipants(batch[i]) # {}
        BY DEF ActiveParticipants, OwnersOf
    <2>3. Shards \subseteq Nat
        BY RouterAssumption DEF Shards
    <2> QED BY <1>1, <1>2, <2>1, <2>2, <2>3, MinIsLeast
<1> QED BY <1>2, <1>3, <1>4

\* A worker that knows the whole read set computes a proper result, and writes
\* inside the write set.
LEMMA WorkerOutput ==
    ASSUME batch \in Batches, DataType, NEW s \in Shards, NEW i \in Txs,
           DOMAIN reads[s][i] = ReadSet(batch[i])
    PROVE  ExecuteDeterministic(batch[i].op, reads[s][i]) \in Outcome(WriteSet(batch[i]))
<1>1. batch[i].op \in FsOp /\ reads[s][i] \in ReadMap
    BY TxType DEF DataType
<1>2. \A k \in DeriveReadSet(batch[i].op) : reads[s][i][k] \in ReadValue
    BY <1>1, ReadMapElim DEF ReadSet
<1> QED BY <1>1, <1>2, WritesStayInWriteSet DEF ReadSet, WriteSet

\* What ExecuteAndApply does to its worker.
LEMMA ExecuteEffect ==
    ASSUME LockType, DataType, NEW s \in Shards, NEW i \in Txs, ExecuteAndApply(s, i)
    PROVE  \/ pc'[s][i] = "err" /\ UNCHANGED <<store, results, outcome>>
           \/ /\ pc'[s][i] = "ok" /\ DOMAIN reads[s][i] = ReadSet(batch[i])
              /\ outcome'[s][i] = ExecuteDeterministic(batch[i].op, reads[s][i]).result
              /\ outcome'[s][i] \in TxResult /\ outcome'[s][i] # "none"
              /\ results'[s][i] = IF ResultShard(i) = s THEN outcome'[s][i] ELSE results[s][i]
<1> DEFINE output == ExecuteDeterministic(batch[i].op, reads[s][i])
<1>1. CASE Goto(s, i, "err") /\ UNCHANGED <<store, results, outcome>>
    BY <1>1 DEF Goto, LockType
<1>2. CASE /\ DOMAIN reads[s][i] = ReadSet(batch[i]) /\ Goto(s, i, "ok")
           /\ outcome' = [outcome EXCEPT ![s][i] = output.result]
           /\ results' = IF ResultShard(i) = s THEN [results EXCEPT ![s][i] = output.result]
                         ELSE results
    <2>1. output \in Outcome(WriteSet(batch[i]))
        BY <1>2, WorkerOutput DEF LockType
    <2> HIDE DEF output
    <2>2. output.result \in TxResult /\ "none" \notin TxResult
        BY <2>1 DEF Outcome, TxResult
    <2>3. outcome'[s][i] = output.result
        BY <1>2 DEF DataType
    <2>4. results'[s][i] = IF ResultShard(i) = s THEN output.result ELSE results[s][i]
        BY <1>2 DEF DataType
    <2>5. pc'[s][i] = "ok"
        BY <1>2 DEF Goto, LockType
    <2> QED BY <1>2, <2>2, <2>3, <2>4, <2>5 DEF output
<1> QED BY <1>1, <1>2 DEF ExecuteAndApply

\* How the coordinator moves.
LEMMA StatusMoves ==
    ASSUME LockType, [Next]_vars, NEW t \in Shards
    PROVE  /\ released[t] \subseteq released'[t]
           /\ \/ UNCHANGED <<status, released>>
              \/ status'[t] = status[t] /\ released'[t] = released[t]
              \/ StartBatch(t) /\ status'[t] = "running" /\ released' = released
              \/ FinishBatch(t) /\ status'[t] = "done" /\ released' = released
              \/ \E i \in Txs : /\ CollectOutcome(t, i) /\ released'[t] = released[t] \cup {i}
                                /\ status'[t] \in {"running", "failed"}
                                /\ pc[t][i] = "err" => status'[t] = "failed"
<1>1. CASE UNCHANGED vars
    BY <1>1 DEF vars, shardVars
<1>2. ASSUME NEW s \in Shards, NEW i \in Txs, Worker(s, i) \/ FailReadResult(s, i)
      PROVE  UNCHANGED <<status, released>>
    BY <1>2 DEF Worker, AcquireAndRead, SendReadResult, FailReadResult, CollectReadResult,
                ExecuteAndApply, OrphanFails, shardVars
<1>3. ASSUME NEW s \in Shards, StartBatch(s) \/ FinishBatch(s)
      PROVE  released' = released /\ (s # t => status'[t] = status[t])
    BY <1>3 DEF StartBatch, FinishBatch, LockType
<1>4. ASSUME StartBatch(t) PROVE status'[t] = "running"
    BY <1>4 DEF StartBatch, LockType
<1>5. ASSUME FinishBatch(t) PROVE status'[t] = "done"
    BY <1>5 DEF FinishBatch, LockType
<1>6. ASSUME NEW s \in Shards, NEW i \in Txs, CollectOutcome(s, i), s # t
      PROVE  status'[t] = status[t] /\ released'[t] = released[t]
    BY <1>6 DEF CollectOutcome, LockType
<1>7. ASSUME NEW i \in Txs, CollectOutcome(t, i)
      PROVE  /\ released'[t] = released[t] \cup {i} /\ status'[t] \in {"running", "failed"}
             /\ pc[t][i] = "err" => status'[t] = "failed"
    BY <1>7 DEF CollectOutcome, BatchFails, LockType
<1> QED BY <1>1, <1>2, <1>3, <1>4, <1>5, <1>6, <1>7 DEF Next, Coordinator

\* No shard has done anything before the batch arrives.
LEMMA EndFresh == Fresh => EndInv
<1> SUFFICES ASSUME Fresh PROVE EndInv
    OBVIOUS
<1>1. "absent" \notin TxResult /\ "Pending" \notin TxResult /\ "NotResponsible" \notin TxResult
    BY DEF TxResult
<1>2. \A s \in Shards, i \in Txs : results[s][i] \notin TxResult
    <2>1. \A s \in Shards, i \in Txs : results[s][i] \in {"absent", "Pending", "NotResponsible"}
        BY DEF Fresh, FreshData
    <2> QED BY <1>1, <2>1
<1>3. \A s \in Shards : status[s] \in {"waiting", "failed"}
    BY DEF Fresh, FreshLocks
<1> QED BY <1>2, <1>3 DEF Fresh, FreshLocks, FreshData, EndInv, WorkerAccounted, OutcomePublished

\* Every step keeps the workers accounted for.
LEMMA AccountStep ==
    ASSUME LockIInv, DataType, EndInv, [Next]_vars, NEW t \in Shards, NEW j \in Txs
    PROVE  WorkerAccounted(t, j)'
<1>0. LockType /\ WorkerAccounted(t, j) /\ UNCHANGED <<batch, members>>
    BY HistoryKept DEF LockIInv, EndInv
<1>1. Relevant(t, j)' = Relevant(t, j)
    BY <1>0, SameRoles
<1>2. CASE StartBatch(t)
    <2>1. pc'[t][j] = IF Relevant(t, j) THEN "locks" ELSE "none"
        BY <1>2, <1>0 DEF StartBatch, LockType
    <2> QED BY <2>1, <1>1 DEF WorkerAccounted
<1>3. ASSUME ~StartBatch(t), status'[t] \in {"running", "done"}
      PROVE  status[t] \in {"running", "done"}
    BY <1>3, <1>0, StatusMoves DEF FinishBatch, CollectOutcome
<1>4. ASSUME ~StartBatch(t) PROVE pc'[t][j] # "none" <=> pc[t][j] # "none"
    <2>1. CASE UNCHANGED vars
        BY <2>1 DEF vars, workVars
    <2>2. ASSUME NEW s \in Shards, StartBatch(s), s # t PROVE pc'[t][j] = pc[t][j]
        BY <2>2, <1>0 DEF StartBatch, LockType
    <2>3. ASSUME NEW s \in Shards, FinishBatch(s) \/ \E i \in Txs : CollectOutcome(s, i)
          PROVE  pc' = pc
        BY <2>3 DEF FinishBatch, CollectOutcome, workVars
    <2>4. ASSUME NEW s \in Shards, NEW i \in Txs, Worker(s, i) \/ FailReadResult(s, i), t # s \/ j # i
          PROVE  pc'[t][j] = pc[t][j]
        BY <2>4, <1>0, WorkerIsLocal
    <2>5. ASSUME Worker(t, j) \/ FailReadResult(t, j)
          PROVE  pc[t][j] # "none" /\ pc'[t][j] # "none"
        BY <2>5, <1>0 DEF Worker, AcquireAndRead, SendReadResult, FailReadResult, CollectReadResult,
                ExecuteAndApply, OrphanFails, Goto, AfterSend, LockType
    <2> QED BY <1>4, <2>1, <2>2, <2>3, <2>4, <2>5 DEF Next, Coordinator
<1>5. ASSUME j \in released'[t], pc'[t][j] = "err" PROVE status'[t] = "failed"
    <2>1. CASE j \in released[t]
        <3>1. Ended(t, j)
            BY <2>1 DEF LockIInv, LockInv, ReleasedEnded
        <3>2. pc[t][j] = "err" /\ status[t] = "failed"
            BY <3>1, <1>5, <2>1, <1>0, EndedIsFinal DEF WorkerAccounted
        <3> QED BY <3>2, <1>0, StatusMoves DEF StartBatch, FinishBatch, CollectOutcome
    <2>2. CASE j \notin released[t]
        <3>1. CollectOutcome(t, j) /\ (pc[t][j] = "err" => status'[t] = "failed")
            BY <2>2, <1>5, <1>0, StatusMoves
        <3>2. pc'[t][j] = pc[t][j]
            BY <3>1 DEF CollectOutcome, workVars
        <3> QED BY <1>5, <3>1, <3>2
    <2> QED BY <2>1, <2>2
<1> QED BY <1>0, <1>1, <1>2, <1>3, <1>4, <1>5 DEF WorkerAccounted

\* Every step keeps what is published equal to what was computed.
LEMMA PublishStep ==
    ASSUME LockIInv, DataType, AgreeInv, EndInv, [Next]_vars, NEW t \in Shards, NEW j \in Txs
    PROVE  OutcomePublished(t, j)'
<1>0. LockType /\ OutcomePublished(t, j) /\ UNCHANGED <<batch, members>>
    BY HistoryKept DEF LockIInv, EndInv
<1>1. Active(j)' = Active(j) /\ ResultShard(j)' = ResultShard(j)
    BY <1>0, SameRoles
<1>2. CASE pc'[t][j] = pc[t][j] /\ outcome'[t][j] = outcome[t][j] /\ results'[t][j] = results[t][j]
    BY <1>0, <1>1, <1>2 DEF OutcomePublished
<1>3. CASE StartBatch(t)
    <2>1. pc[t][j] = "none" /\ outcome[t][j] = "none" /\ outcome' = outcome
        BY <1>3 DEF StartBatch, LockIInv, LockInv, Spawned, AgreeInv, OutcomeFromReads
    <2>2. pc'[t][j] # "ok"
        BY <1>3, <1>0 DEF StartBatch, LockType
    <2>3. results'[t][j] \in {results[t][j], "Pending", "NotResponsible"}
        BY <1>3 DEF StartBatch, RegisterResults, Registered, DataType
    <2>4. results[t][j] \notin TxResult
        BY <2>1, <1>0 DEF OutcomePublished, TxResult
    <2>5. results'[t][j] \notin TxResult
        BY <2>3, <2>4 DEF TxResult
    <2> QED BY <2>1, <2>2, <2>5 DEF OutcomePublished
<1>4. CASE UNCHANGED vars
    BY <1>4, <1>2 DEF vars, workVars, shardVars
<1>5. ASSUME NEW s \in Shards, StartBatch(s), s # t
      PROVE  pc'[t][j] = pc[t][j] /\ outcome'[t][j] = outcome[t][j] /\ results'[t][j] = results[t][j]
    BY <1>5, <1>0 DEF StartBatch, LockType, DataType
<1>6. ASSUME NEW s \in Shards, FinishBatch(s) \/ \E i \in Txs : CollectOutcome(s, i)
      PROVE  pc' = pc /\ outcome' = outcome /\ results' = results
    BY <1>6 DEF FinishBatch, CollectOutcome, workVars
<1>7. ASSUME NEW s \in Shards, NEW i \in Txs, Worker(s, i) \/ FailReadResult(s, i), t # s \/ j # i
      PROVE  pc'[t][j] = pc[t][j] /\ outcome'[t][j] = outcome[t][j] /\ results'[t][j] = results[t][j]
    BY <1>7, <1>0, WorkerIsLocal
<1>8. CASE ExecuteAndApply(t, j)
    <2>1. CASE pc'[t][j] = "err" /\ UNCHANGED <<store, results, outcome>>
        BY <2>1, <1>0, <1>1 DEF OutcomePublished
    <2>2. CASE /\ outcome'[t][j] \in TxResult /\ outcome'[t][j] # "none"
               /\ results'[t][j] = IF ResultShard(j) = t THEN outcome'[t][j] ELSE results[t][j]
        BY <2>2, <1>0, <1>1 DEF OutcomePublished
    <2> QED BY <1>8, <1>0, <2>1, <2>2, ExecuteEffect
<1>9. CASE CollectReadResult(t, j) \/ OrphanFails(t, j) \/ FailReadResult(t, j)
    <2>1. pc'[t][j] \in {pc[t][j], "err"} /\ outcome' = outcome /\ results' = results
        BY <1>9, <1>0 DEF CollectReadResult, OrphanFails, FailReadResult, Goto, shardVars, LockType
    <2> QED BY <2>1, <1>0, <1>1 DEF OutcomePublished
<1>10. CASE AcquireAndRead(t, j) \/ SendReadResult(t, j)
    <2>1. /\ pc'[t][j] \in {"send", "err", AfterSend(t, j)}
          /\ outcome' = outcome /\ results' = results
        BY <1>10, <1>0 DEF AcquireAndRead, SendReadResult, Goto, shardVars, LockType
    <2>2. pc'[t][j] = "ok" => t \notin Active(j)
        BY <2>1 DEF AfterSend
    <2> QED BY <2>1, <2>2, <1>0, <1>1 DEF OutcomePublished
<1> QED BY <1>2, <1>3, <1>4, <1>5, <1>6, <1>7, <1>8, <1>9, <1>10 DEF Next, Coordinator, Worker

\* Every step keeps EndInv.
LEMMA EndStep == LockIInv /\ DataType /\ AgreeInv /\ EndInv /\ [Next]_vars => EndInv'
<1> SUFFICES ASSUME LockIInv, DataType, AgreeInv, EndInv, [Next]_vars PROVE EndInv'
    OBVIOUS
<1>0. LockType /\ UNCHANGED <<batch, members>>
    BY HistoryKept DEF LockIInv
<1>1. Txs' = Txs /\ \A s, i : Relevant(s, i)' = Relevant(s, i)
    BY <1>0, SameRoles
<1>2. ASSUME NEW t \in Shards, status'[t] = "done" PROVE AllCollected(t)'
    <2>1. AllCollected(t)
        BY <1>0, <1>2, StatusMoves DEF FinishBatch, EndInv
    <2>2. released[t] \subseteq released'[t]
        BY <1>0, StatusMoves
    <2> QED BY <1>1, <2>1, <2>2 DEF AllCollected
<1> QED BY <1>1, <1>2, AccountStep, PublishStep DEF EndInv

\* Workers are accounted for and what ended is published, always.
LEMMA EndInvariant == Spec => []EndInv
BY InitIsFresh, EndFresh, EndStep, LocksInvariant, DataInvariant, AgreeInvariant, PTL DEF Spec

\* On a shard that has finished the batch, every worker ended well.
LEMMA DoneWorkers ==
    ASSUME LockIInv, AgreeInv, EndInv, NEW s \in Shards, status[s] = "done", NEW i \in Txs,
           i \in Members
    PROVE  /\ pc[s][i] # "err"
           /\ s \in Active(i) => pc[s][i] = "ok" /\ outcome[s][i] # "none"
<1>1. (pc[s][i] # "none" <=> Relevant(s, i)) /\ (Relevant(s, i) => i \in released[s])
    BY DEF EndInv, WorkerAccounted, AllCollected
<1>2. i \in released[s] => pc[s][i] = "ok"
    BY DEF LockIInv, LockInv, ReleasedEnded, Ended, EndInv, WorkerAccounted
<1>3. s \in Active(i) => Relevant(s, i)
    BY DEF Relevant, AgreeInv, SameMembers
<1> QED BY <1>1, <1>2, <1>3 DEF EndInv, OutcomePublished

\* And it has published the result of each of them that clients ask it for.
LEMMA DonePublished ==
    ASSUME LockIInv, DataType, AgreeInv, EndInv, NEW s \in Shards, status[s] = "done",
           NEW i \in Txs, i \in Members, ResultShard(i) = s
    PROVE  results[s][i] \in TxResult
<1>1. s \in Active(i)
    BY ActiveShards DEF LockIInv, LockType
<1>2. outcome[s][i] # "none"
    BY <1>1, DoneWorkers
<1>3. results[s][i] = outcome[s][i] /\ outcome[s][i] \in TxResult
    BY <1>2 DEF EndInv, OutcomePublished, DataType
<1> QED BY <1>3

\* A shard that answers the batch with Ok has published every result that clients
\* were told to fetch from it, RPC failures included: no GetTxResult is left
\* waiting on a completed batch.
THEOREM DoneIsPublishedAlways == Spec => []DoneIsPublished
<1>1. LockIInv /\ DataType /\ AgreeInv /\ EndInv /\ Members = Txs => DoneIsPublished
    BY DonePublished DEF DoneIsPublished
<1>2. Members = Txs /\ [Next]_vars => (Members = Txs)'
    BY HistoryKept DEF Members, Txs
<1> QED BY <1>1, <1>2, InitIsFresh, LocksInvariant, DataInvariant, AgreeInvariant, EndInvariant,
           PTL DEF Spec
-----------------------------------------------------------------------------
(* Read results are sent once, and awaited *)

\* All mailboxes start empty.
LEMMA MailFresh == Fresh => MailInv
BY DEF Fresh, FreshLocks, FreshData, MailInv, MailOnce

\* What a worker has sent stays sent.
LEMMA SentToKept ==
    ASSUME LockIInv, DataType, [Next]_vars, NEW u \in Shards, NEW t \in Shards, NEW j \in Txs,
           SentTo(u, t, j)
    PROVE  SentTo(u, t, j)'
<1>0. LockType /\ pc[u][j] \notin {"none", "locks"}
    BY DEF LockIInv, SentTo
<1>1. CASE pc'[u][j] = pc[u][j] /\ todo'[u][j] = todo[u][j]
    BY <1>1 DEF SentTo
<1>2. CASE UNCHANGED vars
    BY <1>2, <1>1 DEF vars, workVars
<1>3. ASSUME NEW s \in Shards, Coordinator(s) PROVE pc'[u][j] = pc[u][j] /\ todo'[u][j] = todo[u][j]
    BY <1>0, <1>3, CoordinatorIsLocal
<1>4. ASSUME NEW s \in Shards, NEW i \in Txs, Worker(s, i) \/ FailReadResult(s, i), u # s \/ j # i
      PROVE  pc'[u][j] = pc[u][j] /\ todo'[u][j] = todo[u][j]
    BY <1>4, <1>0, WorkerIsLocal
<1>5. CASE FailReadResult(u, j) \/ OrphanFails(u, j)
    BY <1>5, <1>0 DEF FailReadResult, OrphanFails, Goto, LockType, SentTo
<1>6. CASE CollectReadResult(u, j) \/ ExecuteAndApply(u, j)
    <2>1. pc'[u][j] \in {"collect", "ok", "err"} /\ todo' = todo /\ pc[u][j] = "collect"
        BY <1>6, <1>0 DEF CollectReadResult, ExecuteAndApply, Goto, LockType
    <2> QED BY <2>1 DEF SentTo
<1>7. CASE SendReadResult(u, j)
    <2>1. PICK x : todo' = [todo EXCEPT ![u][j] = @ \ {x}]
        BY <1>7 DEF SendReadResult
    <2>2. pc'[u][j] \in {"send", "collect", "ok", "err"} /\ pc[u][j] = "send"
        BY <1>7, <1>0 DEF SendReadResult, Goto, AfterSend, LockType
    <2>3. todo'[u][j] \subseteq todo[u][j]
        BY <2>1 DEF DataType
    <2> QED BY <2>2, <2>3 DEF SentTo
<1>8. ~AcquireAndRead(u, j)
    BY <1>0 DEF AcquireAndRead
<1> QED BY <1>1, <1>2, <1>3, <1>4, <1>5, <1>6, <1>7, <1>8 DEF Next, Worker

\* Reads are only ever owed by sources, to other active shards.
LEMMA TodoStep ==
    ASSUME LockIInv, DataType, MailInv, [Next]_vars, NEW t \in Shards, NEW j \in Txs
    PROVE  todo'[t][j] \subseteq Active(j) \ {t} /\ (todo'[t][j] # {} => t \in ReadSources(j))
<1>0. /\ LockType /\ todo[t][j] \subseteq Active(j) \ {t}
      /\ todo[t][j] # {} => t \in ReadSources(j)
    BY DEF LockIInv, MailInv, MailOnce
<1>1. CASE UNCHANGED vars
    BY <1>1, <1>0 DEF vars, workVars
<1>2. ASSUME NEW s \in Shards, Coordinator(s) PROVE todo' = todo
    BY <1>2, CoordinatorIsLocal
<1>3. ASSUME NEW s \in Shards, NEW i \in Txs, Worker(s, i) \/ FailReadResult(s, i), t # s \/ j # i
      PROVE  todo'[t][j] = todo[t][j]
    BY <1>3, <1>0, WorkerIsLocal
<1>4. CASE FailReadResult(t, j) \/ OrphanFails(t, j) \/ CollectReadResult(t, j) \/ ExecuteAndApply(t, j)
    BY <1>4, <1>0 DEF FailReadResult, OrphanFails, CollectReadResult, ExecuteAndApply
<1>5. CASE SendReadResult(t, j)
    <2>1. PICK x : todo' = [todo EXCEPT ![t][j] = @ \ {x}]
        BY <1>5 DEF SendReadResult
    <2>2. todo'[t][j] \subseteq todo[t][j]
        BY <2>1 DEF DataType
    <2> QED BY <2>2, <1>0
<1>6. CASE AcquireAndRead(t, j)
    BY <1>6 DEF AcquireAndRead, DataType
<1> QED BY <1>0, <1>1, <1>2, <1>3, <1>4, <1>5, <1>6 DEF Next, Worker

\* How the set of senders that a worker has heard changes.
LEMMA ReceivedMoves ==
    ASSUME LockIInv, DataType, [Next]_vars, NEW t \in Shards, NEW j \in Txs
    PROVE  \/ received'[t][j] = received[t][j]
           \/ \E n \in mail[t][j] : /\ CollectReadResult(t, j)
                                    /\ mail'[t][j] = mail[t][j] \ {n}
                                    /\ received'[t][j] = received[t][j] \cup {n.from}
<1>0. LockType
    BY DEF LockIInv
<1>1. CASE UNCHANGED vars
    BY <1>1 DEF vars, workVars
<1>2. ASSUME NEW s \in Shards, Coordinator(s) PROVE received' = received
    BY <1>2, CoordinatorIsLocal
<1>3. ASSUME NEW s \in Shards, NEW i \in Txs, Worker(s, i) \/ FailReadResult(s, i), t # s \/ j # i
      PROVE  received'[t][j] = received[t][j]
    BY <1>3, <1>0, WorkerIsLocal
<1>4. CASE \/ FailReadResult(t, j) \/ OrphanFails(t, j) \/ SendReadResult(t, j)
           \/ ExecuteAndApply(t, j) \/ AcquireAndRead(t, j)
    BY <1>4 DEF FailReadResult, OrphanFails, SendReadResult, ExecuteAndApply, AcquireAndRead
<1>5. CASE CollectReadResult(t, j)
    <2>1. PICK n \in mail[t][j] :
              /\ mail' = [mail EXCEPT ![t][j] = @ \ {n}]
              /\ \/ received' = received
                 \/ received' = [received EXCEPT ![t][j] = @ \cup {n.from}]
        BY <1>5 DEF CollectReadResult
    <2>2. CASE received' = received
        BY <2>2
    <2>3. CASE received' = [received EXCEPT ![t][j] = @ \cup {n.from}]
        BY <2>1, <2>3, <1>5 DEF DataType
    <2> QED BY <2>1, <2>2, <2>3
<1> QED BY <1>1, <1>2, <1>3, <1>4, <1>5 DEF Next, Worker

\* A worker that just got a read result from s had none from s before.
LEMMA NewMail ==
    ASSUME LockIInv, DataType, MailInv, [Next]_vars, NEW t \in Shards, NEW j \in Txs,
           NEW s \in Shards, pc[s][j] = "send", t \in todo[s][j],
           pc'[s][j] = "err" \/ t \notin todo'[s][j],
           SendReadResult(s, j) \/ FailReadResult(s, j)
    PROVE  /\ t \in Active(j) /\ s \in Expected(t, j) \ received[t][j]
           /\ SentTo(s, t, j)' /\ received' = received
           /\ \A m \in mail[t][j] : m.from # s
<1>1. ~SentTo(s, t, j)
    BY DEF SentTo
<1>2. MailOnce(t, j) /\ MailOnce(s, j)
    BY DEF MailInv
<1>3. t \in Active(j) /\ t # s /\ s \in ReadSources(j)
    BY <1>2 DEF MailOnce
<1>4. s \in Expected(t, j) \ received[t][j] /\ \A m \in mail[t][j] : m.from # s
    BY <1>1, <1>2, <1>3 DEF MailOnce, Expected
<1>5. SentTo(s, t, j)'
    <2>1. pc'[s][j] \in {"send", "collect", "ok", "err"}
        BY DEF SendReadResult, FailReadResult, Goto, AfterSend, LockIInv, LockType
    <2> QED BY <2>1 DEF SentTo
<1> QED BY <1>3, <1>4, <1>5 DEF SendReadResult, FailReadResult

\* Every step keeps the mailboxes in order.
LEMMA MailOnceStep ==
    ASSUME LockIInv, DataType, MailInv, [Next]_vars, NEW t \in Shards, NEW j \in Txs
    PROVE  MailOnce(t, j)'
<1>0. LockType /\ MailOnce(t, j) /\ UNCHANGED <<batch, members>>
    BY HistoryKept DEF LockIInv, MailInv
<1>1. /\ Active(j)' = Active(j) /\ ReadSources(j)' = ReadSources(j)
      /\ Expected(t, j)' = Expected(t, j)
    BY <1>0, SameRoles
<1>2. \A u \in received'[t][j] : SentTo(u, t, j)'
    <2> SUFFICES ASSUME NEW u \in received'[t][j] PROVE SentTo(u, t, j)'
        OBVIOUS
    <2>1. SentTo(u, t, j)
        BY <1>0, ReceivedMoves DEF MailOnce
    <2>2. u \in Shards
        <3>1. CASE u \in received[t][j]
            BY <3>1 DEF DataType
        <3>2. ASSUME NEW n \in mail[t][j], u = n.from PROVE u \in Shards
            BY <3>2 DEF DataType, Message
        <3> QED BY <3>1, <3>2, ReceivedMoves
    <2> QED BY <2>1, <2>2, SentToKept
<1>3. ASSUME NEW m \in mail'[t][j]
      PROVE  /\ t \in Active(j) /\ m.from \in Expected(t, j) \ received'[t][j]
             /\ SentTo(m.from, t, j)'
    <2>1. CASE m \in mail[t][j]
        <3>1. t \in Active(j) /\ m.from \in Expected(t, j) \ received[t][j] /\ SentTo(m.from, t, j)
            BY <2>1, <1>0 DEF MailOnce
        <3>2. m.from \in Shards
            BY <2>1 DEF DataType, Message
        <3>3. ASSUME NEW n \in mail[t][j], mail'[t][j] = mail[t][j] \ {n} PROVE m.from # n.from
            BY <3>3, <2>1, <1>3, <1>0 DEF MailOnce
        <3> QED BY <3>1, <3>2, <3>3, SentToKept, ReceivedMoves
    <2>2. ASSUME NEW s \in Shards, m = [from |-> s, reads |-> reads[s][j]], pc[s][j] = "send",
                 t \in todo[s][j], pc'[s][j] = "err" \/ t \notin todo'[s][j],
                 SendReadResult(s, j) \/ FailReadResult(s, j)
          PROVE  /\ t \in Active(j) /\ m.from \in Expected(t, j) \ received'[t][j]
                 /\ SentTo(m.from, t, j)'
        BY <2>2, NewMail
    <2> QED BY <1>3, <2>1, <2>2, MailGrows
<1>4. ASSUME NEW m \in mail'[t][j], NEW n \in mail'[t][j], m.from = n.from PROVE m = n
    <2>1. CASE m \in mail[t][j] /\ n \in mail[t][j]
        BY <2>1, <1>4, <1>0 DEF MailOnce
    <2>2. ASSUME NEW x \in mail'[t][j], x \notin mail[t][j]
          PROVE  \E s \in Shards : /\ x = [from |-> s, reads |-> reads[s][j]]
                                   /\ \A y \in mail[t][j] : y.from # s
        BY <2>2, MailGrows, NewMail
    <2> QED BY <2>1, <2>2, <1>4
<1>5. ASSUME pc'[t][j] = "ok", t \in Active(j) PROVE received'[t][j] = Expected(t, j)
    <2>1. CASE Ended(t, j)
        BY <2>1, <1>5, <1>0, EndedIsFinal DEF MailOnce
    <2>2. CASE ~Ended(t, j)
        <3>1. CASE UNCHANGED vars
            BY <3>1, <1>5, <2>2 DEF vars, workVars, Ended
        <3>2. ~\E s \in Shards : Coordinator(s)
            BY <2>2, <1>5, CoordinatorIsLocal DEF Ended
        <3>3. ASSUME NEW s \in Shards, NEW i \in Txs, Worker(s, i) \/ FailReadResult(s, i)
              PROVE  s = t /\ i = j
            BY <3>3, <2>2, <1>5, <1>0, WorkerIsLocal DEF Ended
        <3>4. CASE ExecuteAndApply(t, j)
            BY <3>4 DEF ExecuteAndApply
        <3>5. ASSUME \/ AcquireAndRead(t, j) \/ SendReadResult(t, j) \/ CollectReadResult(t, j)
                     \/ OrphanFails(t, j) \/ FailReadResult(t, j)
              PROVE  FALSE
            BY <3>5, <1>5, <1>0 DEF AcquireAndRead, SendReadResult, CollectReadResult, OrphanFails,
                FailReadResult, Goto, AfterSend, LockType
        <3> QED BY <3>1, <3>2, <3>3, <3>4, <3>5 DEF Next, Worker
    <2> QED BY <2>1, <2>2
<1> QED BY <1>1, <1>2, <1>3, <1>4, <1>5, TodoStep DEF MailOnce

\* No read result goes astray on a shard that has not failed: every shard that is
\* sent one waits for it.
LEMMA StrayStep ==
    ASSUME LockIInv, DataType, AgreeInv, EndInv, MailInv, [Next]_vars, NEW t \in Shards,
           status'[t] # "failed"
    PROVE  stray'[t] = {}
<1>0. LockType
    BY DEF LockIInv
<1>1. status[t] # "failed" /\ stray[t] = {}
    BY <1>0, StatusMoves DEF StartBatch, FinishBatch, CollectOutcome, MailInv
<1>2. CASE UNCHANGED vars
    BY <1>2, <1>1 DEF vars, netVars
<1>3. ASSUME NEW s \in Shards, Coordinator(s) PROVE stray' = stray
    BY <1>3, CoordinatorIsLocal
<1>4. ASSUME NEW s \in Shards, NEW i \in Txs,
             \/ AcquireAndRead(s, i) \/ ExecuteAndApply(s, i)
             \/ OrphanFails(s, i) \/ CollectReadResult(s, i)
      PROVE  stray' = stray
    BY <1>4 DEF AcquireAndRead, ExecuteAndApply, OrphanFails, CollectReadResult, netVars
<1>5. ASSUME NEW s \in Shards, NEW i \in Txs, SendReadResult(s, i) \/ FailReadResult(s, i)
      PROVE  stray'[t] = {}
    <2>1. pc[s][i] = "send"
        BY <1>5 DEF SendReadResult, FailReadResult
    <2>2. PICK u \in todo[s][i] :
              \/ stray' = stray
              \/ status[u] \in {"done", "failed"} /\ stray' = [stray EXCEPT ![u] = @ \cup {i}]
        BY <1>5 DEF SendReadResult, FailReadResult, Route
    <2>3. ASSUME u = t, status[t] = "done" PROVE FALSE
        <3>1. MailOnce(t, i) /\ MailOnce(s, i) /\ ~SentTo(s, t, i)
            BY <2>1, <2>2, <2>3 DEF MailInv, SentTo
        <3>2. t \in Active(i) /\ s \in Expected(t, i)
            BY <2>2, <2>3, <3>1 DEF MailOnce, Expected
        <3>3. i \in Members
            BY <2>1 DEF LockIInv, LockInv, Spawned, AgreeInv, SameMembers
        <3>4. pc[t][i] = "ok"
            BY <2>3, <3>2, <3>3, DoneWorkers
        <3> QED BY <3>1, <3>2, <3>4 DEF MailOnce
    <2> QED BY <1>1, <2>2, <2>3 DEF DataType
<1> QED BY <1>1, <1>2, <1>3, <1>4, <1>5 DEF Next, Worker

\* Every step keeps MailInv.
LEMMA MailStep == LockIInv /\ DataType /\ AgreeInv /\ EndInv /\ MailInv /\ [Next]_vars => MailInv'
<1> SUFFICES ASSUME LockIInv, DataType, AgreeInv, EndInv, MailInv, [Next]_vars PROVE MailInv'
    OBVIOUS
<1>1. Txs' = Txs
    BY HistoryKept DEF Txs
<1> QED BY <1>1, MailOnceStep, StrayStep DEF MailInv

\* Every read result has one addressee that takes it, always.
LEMMA MailInvariant == Spec => []MailInv
BY MailStep, InitIsFresh, MailFresh, LocksInvariant, DataInvariant, AgreeInvariant, EndInvariant, PTL DEF Spec

\* cleanup_batch drops empty mailboxes only, and route never makes a mailbox for
\* a batch that its shard has finished, RPC failures included.
THEOREM NoLateReadResultAlways == Spec => []NoLateReadResult
<1>1. LockIInv /\ DataType /\ AgreeInv /\ EndInv /\ MailInv => NoLateReadResult
    <2> SUFFICES ASSUME LockIInv, DataType, AgreeInv, EndInv, MailInv, NEW s \in Shards, status[s] = "done"
                 PROVE  stray[s] = {} /\ \A i \in Txs : mail[s][i] = {}
        BY DEF NoLateReadResult
    <2>1. ASSUME NEW i \in Txs, NEW m \in mail[s][i] PROVE FALSE
        <3>1. MailOnce(s, i) /\ s \in Active(i) /\ m.from \in Expected(s, i) \ received[s][i]
            BY <2>1 DEF MailInv, MailOnce
        <3>2. SentTo(m.from, s, i) /\ m.from \in Shards
            BY <2>1 DEF MailInv, MailOnce, DataType, Message
        <3>3. i \in Members
            BY <3>2 DEF SentTo, LockIInv, LockInv, Spawned, AgreeInv, SameMembers
        <3>4. pc[s][i] = "ok"
            BY <3>1, <3>3, DoneWorkers
        <3> QED BY <3>1, <3>4 DEF MailOnce
    <2> QED BY <2>1 DEF MailInv
<1> QED BY <1>1, LocksInvariant, DataInvariant, AgreeInvariant, EndInvariant, MailInvariant, PTL
-----------------------------------------------------------------------------
(* The serial execution *)

\* The reference executor leaves the keys outside the write set alone.
LEMMA ReferenceElsewhere ==
    ASSUME NEW state \in State, NEW op \in FsOp, NEW k \in Keys, k \notin DeriveWriteSet(op)
    PROVE  ApplyReferenceTx(state, op)[k] = state[k]
<1> DEFINE ws == ReferenceOutput(state, op).writes
<1>1. ws \in Writes(DeriveWriteSet(op))
    BY ReferenceType DEF Outcome
<1> HIDE DEF ws
<1>2. ASSUME NEW w \in DOMAIN ws PROVE ws[w].key # k
    <2>1. ws[w] \in [key : DeriveWriteSet(op), value : ReadValue]
        BY <1>1, <1>2, ElementType DEF Writes
    <2> QED BY <2>1
<1>3. k \in DOMAIN state
    BY DEF State
<1>4. ApplyWrites(state, ws, DOMAIN ws)[k] = state[k]
    BY <1>2, <1>3, ApplyWritesElsewhere
<1> QED BY <1>4 DEF ApplyReferenceTx, ws

\* Writers are transactions of the batch.
LEMMA WritersAreTxs == LockType => Members \subseteq Txs /\ \A k : Writers(k) \subseteq Txs
BY DEF LockType, Members, Writers

\* A key keeps its value between two of its writers.
LEMMA SerialUntouched ==
    ASSUME batch \in Batches, DataType, HistoryInv, NEW k \in Keys,
           NEW a \in 0 .. Len(batch), NEW n \in 0 .. Len(batch), a <= n,
           \A i \in Writers(k) : ~(a < i /\ i <= n)
    PROVE  serial[n][k] = serial[a][k]
<1> DEFINE bad == {m \in 0 .. Len(batch) : a <= m /\ m <= n /\ serial[m][k] # serial[a][k]}
<1>0. Len(batch) \in Nat /\ Txs = 1 .. Len(batch)
    BY BatchAssumption DEF Txs
<1>1. bad = {}
    <2> SUFFICES ASSUME bad # {} PROVE FALSE
        OBVIOUS
    <2>1. PICK m \in bad : \A y \in bad : m <= y
        <3>1. bad \subseteq Nat
            BY <1>0
        <3> QED BY <3>1, NatMin
    <2>2. m # a
        BY <2>1
    <2>3. m \in Txs /\ m - 1 \in 0 .. Len(batch) /\ a <= m - 1 /\ m - 1 <= n /\ m - 1 \notin bad
        BY <2>1, <2>2, <1>0
    <2>4. serial[m - 1][k] = serial[a][k]
        BY <2>3
    <2>5. m \notin Writers(k) /\ batch[m].op \in FsOp /\ serial[m - 1] \in State
        BY <2>1, <2>2, <2>3, <1>0, TxType DEF DataType
    <2>6. m \in Members => k \notin DeriveWriteSet(batch[m].op)
        BY <2>3, <2>5 DEF Writers, WriteSet
    <2>7. serial[m] = IF m \in Members THEN ApplyReferenceTx(serial[m - 1], batch[m].op)
                      ELSE serial[m - 1]
        BY <2>3, <1>0 DEF HistoryInv
    <2>8. serial[m][k] = serial[m - 1][k]
        BY <2>5, <2>6, <2>7, ReferenceElsewhere
    <2> QED BY <2>1, <2>4, <2>8
<1>2. n \notin bad
    BY <1>1
<1> QED BY <1>2, <1>0

\* Each shard starts with its part of the state that the history begins with.
LEMMA SerialFresh == Fresh => SerialInv
<1> SUFFICES ASSUME Fresh PROVE SerialInv
    OBVIOUS
<1>0. batch \in Batches /\ DataType /\ HistoryInv /\ LockType
    BY DataFresh, LockFresh DEF Fresh, FreshData, LockIInv
<1>1. Len(batch) \in Nat /\ Txs = 1 .. Len(batch)
    BY <1>0, BatchAssumption DEF Txs
<1>2. OnlyOwnKeys
    BY DEF Fresh, OnlyOwnKeys
<1>3. StoreIsSerial
    <2> SUFFICES ASSUME NEW k \in Keys, NEW n \in 0 .. Len(batch), AppliedUpTo(Owner[k], k, n)
                 PROVE  store[Owner[k]][k] = serial[n][k]
        BY DEF StoreIsSerial
    <2>1. Owner[k] \in Shards /\ store[Owner[k]][k] = serial[0][k]
        BY RouterAssumption DEF Fresh
    <2>2. ASSUME NEW i \in Writers(k) PROVE ~(i <= n)
        BY <1>0, <2>1, <2>2, WritersAreTxs DEF AppliedUpTo, Fresh, FreshData
    <2>3. serial[n][k] = serial[0][k]
        BY <1>0, <1>1, <2>2, SerialUntouched
    <2> QED BY <2>1, <2>3
<1>4. OwnReadsAreSerial
    <2>1. DOMAIN << >> = {}
        OBVIOUS
    <2> QED BY <2>1 DEF OwnReadsAreSerial, Fresh, FreshData
<1> QED BY <1>0, <1>2, <1>3, <1>4 DEF SerialInv

\* A failure is not forgotten.
LEMMA NoErrorBefore ==
    ASSUME LockIInv, DataType, [Next]_vars, NoError'
    PROVE  NoError
<1>0. Txs' = Txs
    BY HistoryKept DEF Txs
<1>1. ASSUME NEW s \in Shards, NEW i \in Txs PROVE pc[s][i] # "err"
    BY <1>0, EndedIsFinal DEF NoError, Ended
<1> QED BY <1>1 DEF NoError

\* Without a failure there is no error.
LEMMA NoFailureNoError == NoFailure => NoError
BY DEF NoFailure, NoError

\* A worker that holds its locks and has not executed finds that, of the writers
\* of each key it locks, exactly those before it have executed: what the order of
\* the lock queues is for.
LEMMA HolderView ==
    ASSUME LockIInv, AgreeInv, EndInv, NoError, NEW s \in Shards, NEW i \in Txs,
           granted[s][i] = LockKeys(s, i), pc[s][i] \in {"locks", "send", "collect"},
           NEW k \in ReadSet(batch[i]) \cup WriteSet(batch[i]), Owner[k] = s
    PROVE  AppliedUpTo(s, k, i - 1)
<1>0. /\ batch \in Batches /\ Txs \subseteq Nat /\ members[s] = Members
      /\ Members \subseteq Txs /\ i \in Members
    BY TxsAreNat, WritersAreTxs DEF LockIInv, LockType, LockInv, Spawned, AgreeInv, SameMembers
<1>1. \A j \in Members : k \in ReadSet(batch[j]) \cup WriteSet(batch[j]) => k \in LockKeys(s, j)
    BY <1>0 DEF LockKeys, LocalLockKeys
<1>2. ASSUME NEW j \in Writers(k), j < i PROVE outcome[s][j] # "none"
    <2>1. j \in Txs /\ j \in LockRequests(s, k) /\ s \in Active(j)
        BY <1>0, <1>1, <1>2, ActiveShards DEF Writers, LockRequests
    <2>2. k \in granted[s][i]
        BY <1>0, <1>1
    <2>3. j \in released[s]
        BY <1>2, <2>1, <2>2 DEF LockIInv, LockInv, GrantInOrder
    <2>4. pc[s][j] = "ok"
        BY <2>1, <2>3 DEF LockIInv, LockInv, ReleasedEnded, Ended, NoError
    <2> QED BY <2>1, <2>4 DEF EndInv, OutcomePublished
<1>3. ASSUME NEW j \in Writers(k), i < j PROVE outcome[s][j] = "none"
    <2> SUFFICES ASSUME outcome[s][j] # "none" PROVE FALSE
        OBVIOUS
    <2>1. j \in Txs /\ k \in LockKeys(s, j) /\ i \in LockRequests(s, k)
        BY <1>0, <1>1, <1>3 DEF Writers, LockRequests
    <2>2. pc[s][j] = "ok"
        BY <2>1 DEF AgreeInv, OutcomeFromReads
    <2>3. k \in granted[s][j]
        BY <2>1, <2>2 DEF LockIInv, LockInv, HoldsLocks, PastLocks
    <2>4. i \in released[s]
        BY <1>3, <2>1, <2>3 DEF LockIInv, LockInv, GrantInOrder
    <2> QED BY <2>4 DEF LockIInv, LockInv, ReleasedEnded, Ended
<1>4. outcome[s][i] = "none"
    BY DEF AgreeInv, OutcomeFromReads
<1> SUFFICES ASSUME NEW j \in Writers(k) PROVE outcome[s][j] # "none" <=> j <= i - 1
    BY DEF AppliedUpTo
<1>5. j \in Nat /\ i \in Nat
    BY <1>0 DEF Writers
<1>6. CASE j < i
    BY <1>2, <1>5, <1>6
<1>7. CASE i < j
    BY <1>3, <1>5, <1>7
<1>8. CASE i = j
    BY <1>4, <1>5, <1>8
<1> QED BY <1>5, <1>6, <1>7, <1>8

\* So it finds the value of the serial execution in the store.
LEMMA HolderReads ==
    ASSUME LockIInv, AgreeInv, EndInv, SerialInv, NoError, NEW s \in Shards, NEW i \in Txs,
           granted[s][i] = LockKeys(s, i), pc[s][i] \in {"locks", "send", "collect"},
           NEW k \in ReadSet(batch[i]) \cup WriteSet(batch[i]), k \in Keys, Owner[k] = s
    PROVE  store[s][k] = serial[i - 1][k]
<1>1. i - 1 \in 0 .. Len(batch)
    BY BatchAssumption DEF Txs, LockIInv, LockType
<1>2. AppliedUpTo(s, k, i - 1)
    BY HolderView
<1> QED BY <1>1, <1>2 DEF SerialInv, StoreIsSerial

\* All reads of a worker are serial, since those of the owners are.
LEMMA AllReadsSerial ==
    ASSUME DataType, AgreeInv, SerialInv, NoError, NEW s \in Shards, NEW i \in Txs,
           NEW k \in DOMAIN reads[s][i]
    PROVE  reads[s][i][k] = serial[i - 1][k]
<1>1. reads[s][i] \in ReadMap
    BY DEF DataType
<1>2. k \in Keys /\ Owner[k] \in Shards
    BY <1>1, ReadMapElim, RouterAssumption
<1>3. k \in DOMAIN reads[Owner[k]][i] /\ reads[s][i][k] = reads[Owner[k]][i][k]
    BY DEF AgreeInv, ReadsFromOwners, FromOwner
<1> QED BY <1>2, <1>3 DEF SerialInv, OwnReadsAreSerial

\* And so a worker that has the whole read set computes what the reference
\* executor computes.
LEMMA OutputIsReference ==
    ASSUME LockType, DataType, AgreeInv, SerialInv, NoError, NEW s \in Shards, NEW i \in Txs,
           DOMAIN reads[s][i] = ReadSet(batch[i])
    PROVE  ExecuteDeterministic(batch[i].op, reads[s][i])
               = ReferenceOutput(serial[i - 1], batch[i].op)
<1>1. reads[s][i] \in ReadMap
    BY DEF DataType
<1>2. reads[s][i] \in [ReadSet(batch[i]) -> ReadValue]
    BY <1>1, ReadMapElim
<1>3. reads[s][i] = [k \in ReadSet(batch[i]) |-> serial[i - 1][k]]
    BY <1>2, AllReadsSerial
<1> QED BY <1>3 DEF ReferenceOutput, ReadFrom, ReadSet
\* For a key of its own, a shard that filters the writes applies all of them.
LEMMA FilteredWrites ==
    ASSUME NEW st, NEW ref, NEW ws, NEW s, NEW k \in DOMAIN st, k \in DOMAIN ref,
           Owner[k] = s, st[k] = ref[k]
    PROVE  ApplyWrites(st, ws, FilterLocalWrites(ws, s))[k] = ApplyWrites(ref, ws, DOMAIN ws)[k]
<1>1. {w \in FilterLocalWrites(ws, s) : ws[w].key = k} = {w \in DOMAIN ws : ws[w].key = k}
    BY DEF FilterLocalWrites
<1> QED BY <1>1 DEF ApplyWrites

\* Executing a transaction moves each key it writes to the next state of the serial
\* execution, and leaves the others where they are.
LEMMA ExecuteIsSerial ==
    ASSUME LockIInv, DataType, AgreeInv, EndInv, SerialInv, NoError,
           NEW s \in Shards, NEW i \in Txs, ExecuteAndApply(s, i),
           outcome'[s][i] # "none", NEW k \in Keys, Owner[k] = s
    PROVE  /\ k \in WriteSet(batch[i]) => store'[s][k] = serial[i][k]
           /\ k \notin WriteSet(batch[i]) => store'[s][k] = store[s][k]
<1>0. LockType /\ pc[s][i] = "collect" /\ outcome[s][i] = "none"
    BY DEF LockIInv, ExecuteAndApply, AgreeInv, OutcomeFromReads
<1> DEFINE ws == ExecuteDeterministic(batch[i].op, reads[s][i]).writes
<1>1. /\ DOMAIN reads[s][i] = ReadSet(batch[i])
      /\ store' = [store EXCEPT ![s] = ApplyWrites(@, ws, FilterLocalWrites(ws, s))]
    BY <1>0 DEF ExecuteAndApply
<1>2. ws \in Writes(WriteSet(batch[i]))
    BY <1>0, <1>1, WorkerOutput DEF LockType, Outcome
<1>3. ws = ReferenceOutput(serial[i - 1], batch[i].op).writes
    BY <1>0, <1>1, OutputIsReference
<1> HIDE DEF ws
<1>4. store'[s] = ApplyWrites(store[s], ws, FilterLocalWrites(ws, s)) /\ k \in DOMAIN store[s]
    BY <1>1 DEF DataType, State
<1>5. ASSUME k \in WriteSet(batch[i]) PROVE store'[s][k] = serial[i][k]
    <2>1. granted[s][i] = LockKeys(s, i)
        BY <1>0 DEF LockIInv, LockInv, HoldsLocks, PastLocks
    <2>2. store[s][k] = serial[i - 1][k]
        BY <1>0, <1>5, <2>1, HolderReads
    <2>3. i - 1 \in 0 .. Len(batch) /\ i \in 1 .. Len(batch)
        BY <1>0, BatchAssumption DEF Txs, LockType
    <2>4. i \in Members
        BY <1>0 DEF LockIInv, LockInv, Spawned, AgreeInv, SameMembers
    <2>5. k \in DOMAIN serial[i - 1] /\ serial[i] = ApplyReferenceTx(serial[i - 1], batch[i].op)
        BY <2>3, <2>4 DEF DataType, State, SerialInv, HistoryInv
    <2> QED BY <1>3, <1>4, <2>2, <2>5, FilteredWrites DEF ApplyReferenceTx
<1>6. ASSUME k \notin WriteSet(batch[i]) PROVE store'[s][k] = store[s][k]
    <2>1. ASSUME NEW w \in FilterLocalWrites(ws, s) PROVE ws[w].key # k
        <3>1. ws[w] \in [key : WriteSet(batch[i]), value : ReadValue]
            BY <1>2, <2>1, ElementType DEF Writes, FilterLocalWrites
        <3> QED BY <3>1, <1>6
    <2> QED BY <1>4, <2>1, ApplyWritesElsewhere
<1> QED BY <1>5, <1>6

\* Every step keeps the keys of other shards out of a store.
LEMMA OnlyOwnKeysStep ==
    ASSUME DataType, OnlyOwnKeys, [Next]_vars
    PROVE  OnlyOwnKeys'
<1>1. CASE store' = store
    BY <1>1 DEF OnlyOwnKeys
<1>2. ASSUME NEW s \in Shards, NEW i \in Txs, ExecuteAndApply(s, i) PROVE OnlyOwnKeys'
    <2>1. \/ store' = store
          \/ \E ws : store' = [store EXCEPT ![s] = ApplyWrites(@, ws, FilterLocalWrites(ws, s))]
        BY <1>2 DEF ExecuteAndApply
    <2>2. ASSUME NEW ws, store' = [store EXCEPT ![s] = ApplyWrites(@, ws, FilterLocalWrites(ws, s))]
          PROVE  OnlyOwnKeys'
        <3> SUFFICES ASSUME NEW t \in Shards, NEW k \in Keys, Owner[k] # t
                     PROVE  store'[t][k] = store[t][k]
            BY DEF OnlyOwnKeys
        <3>1. CASE t # s
            BY <3>1, <2>2 DEF DataType
        <3>2. CASE t = s
            <4>1. store'[t] = ApplyWrites(store[t], ws, FilterLocalWrites(ws, s)) /\ k \in DOMAIN store[t]
                BY <3>2, <2>2 DEF DataType, State
            <4>2. ~\E w \in FilterLocalWrites(ws, s) : ws[w].key = k
                BY <3>2 DEF FilterLocalWrites
            <4> QED BY <4>1, <4>2, ApplyWritesElsewhere
        <3> QED BY <3>1, <3>2
    <2> QED BY <2>1, <2>2, <1>1
<1> QED BY <1>1, <1>2, OnlyExecuteWrites

\* Every step keeps the stores serial.
LEMMA StoreStep ==
    ASSUME LockIInv, DataType, AgreeInv, EndInv, SerialInv, NoError, [Next]_vars
    PROVE  StoreIsSerial'
<1>0. LockType /\ UNCHANGED <<batch, members, serial>> /\ batch \in Batches
    BY HistoryKept DEF LockIInv, LockType
<1> SUFFICES ASSUME NEW k \in Keys, NEW n \in 0 .. Len(batch), AppliedUpTo(Owner[k], k, n)'
             PROVE  store'[Owner[k]][k] = serial[n][k]
    BY <1>0 DEF StoreIsSerial
<1> DEFINE s == Owner[k]
<1>1. s \in Shards /\ Writers(k) \subseteq Txs /\ Txs \subseteq Nat /\ Txs = 1 .. Len(batch)
    BY <1>0, RouterAssumption, BatchAssumption, TxsAreNat, WritersAreTxs DEF Txs
<1>2. \A i \in Writers(k) : outcome'[s][i] # "none" <=> i <= n
    BY <1>0 DEF AppliedUpTo, Writers, Members
<1> SUFFICES store'[s][k] = serial[n][k]
    OBVIOUS
<1> HIDE DEF s
<1>3. CASE store'[s][k] = store[s][k] /\ \A i \in Writers(k) : outcome'[s][i] = outcome[s][i]
    <2>1. AppliedUpTo(s, k, n)
        BY <1>2, <1>3 DEF AppliedUpTo
    <2> QED BY <1>3, <2>1 DEF SerialInv, StoreIsSerial, s
<1>4. ASSUME NEW i \in Txs, ExecuteAndApply(s, i) PROVE store'[s][k] = serial[n][k]
    <2>1. \A j \in Txs : j # i => outcome'[s][j] = outcome[s][j]
        BY <1>0, <1>1, <1>4, WorkerIsLocal DEF Worker
    <2>2. CASE pc'[s][i] = "err" /\ UNCHANGED <<store, results, outcome>>
        BY <2>2, <1>3
    <2>3. CASE outcome'[s][i] # "none"
        <3>1. /\ k \in WriteSet(batch[i]) => store'[s][k] = serial[i][k]
              /\ k \notin WriteSet(batch[i]) => store'[s][k] = store[s][k]
            BY <1>1, <1>4, <2>3, ExecuteIsSerial DEF s
        <3>2. CASE k \notin WriteSet(batch[i])
            <4>1. \A j \in Writers(k) : j # i
                BY <3>2 DEF Writers
            <4> QED BY <1>1, <1>3, <2>1, <3>1, <3>2, <4>1
        <3>3. CASE k \in WriteSet(batch[i])
            <4>1. pc[s][i] = "collect" /\ granted[s][i] = LockKeys(s, i)
                BY <1>1, <1>4 DEF ExecuteAndApply, LockIInv, LockInv, HoldsLocks, PastLocks
            <4>2. AppliedUpTo(s, k, i - 1)
                BY <1>1, <3>3, <4>1, HolderView DEF s
            <4>3. i \in Writers(k) /\ i \in Nat /\ i <= n /\ i \in 0 .. Len(batch)
                <5>1. i \in Members
                    BY <1>1, <4>1 DEF LockIInv, LockInv, Spawned, AgreeInv, SameMembers
                <5> QED BY <1>1, <1>2, <2>3, <3>3, <5>1 DEF Writers
            <4>4. ASSUME NEW j \in Writers(k), i < j, j <= n PROVE FALSE
                <5>1. j \in Nat /\ j \in Txs /\ j # i
                    BY <1>1, <4>3, <4>4
                <5>2. outcome[s][j] # "none"
                    BY <1>2, <2>1, <4>4, <5>1
                <5>3. j <= i - 1
                    BY <4>2, <4>4, <5>2 DEF AppliedUpTo
                <5> QED BY <4>3, <4>4, <5>1, <5>3
            <4>5. serial[n][k] = serial[i][k]
                BY <1>0, <4>3, <4>4, SerialUntouched DEF SerialInv
            <4> QED BY <3>1, <3>3, <4>5
        <3> QED BY <3>2, <3>3
    <2> QED BY <1>0, <1>1, <1>4, <2>2, <2>3, ExecuteEffect
<1>5. ASSUME NEW t \in Shards, NEW i \in Txs, ExecuteAndApply(t, i), t # s
      PROVE  store'[s][k] = store[s][k] /\ \A j \in Txs : outcome'[s][j] = outcome[s][j]
    <2>1. \A j \in Txs : outcome'[s][j] = outcome[s][j]
        BY <1>0, <1>1, <1>5, WorkerIsLocal DEF Worker
    <2>2. store' = store \/ \E x : store' = [store EXCEPT ![t] = x]
        BY <1>5 DEF ExecuteAndApply, DataType
    <2> QED BY <1>1, <1>5, <2>1, <2>2 DEF DataType
<1>6. ASSUME \A t \in Shards, i \in Txs : ~ExecuteAndApply(t, i)
      PROVE  store' = store /\ outcome' = outcome
    <2>1. store' = store
        BY <1>6, OnlyExecuteWrites
    <2>2. ASSUME NEW t \in Shards, Coordinator(t) PROVE outcome' = outcome
        BY <2>2, CoordinatorIsLocal
    <2>3. ASSUME NEW t \in Shards, NEW i \in Txs, Worker(t, i) \/ FailReadResult(t, i)
          PROVE  outcome' = outcome
        BY <1>6, <2>3 DEF Worker, AcquireAndRead, SendReadResult, FailReadResult, CollectReadResult, OrphanFails
    <2>4. CASE UNCHANGED vars
        BY <2>1, <2>4 DEF vars, workVars
    <2> QED BY <2>1, <2>2, <2>3, <2>4 DEF Next
<1>7. CASE \E i \in Txs : ExecuteAndApply(s, i)
    BY <1>4, <1>7
<1>8. CASE \E t \in Shards, i \in Txs : ExecuteAndApply(t, i) /\ t # s
    BY <1>1, <1>3, <1>5, <1>8
<1>9. CASE \A t \in Shards, i \in Txs : ~ExecuteAndApply(t, i)
    BY <1>3, <1>6, <1>9
<1> QED BY <1>7, <1>8, <1>9

\* Every step keeps what owners have read serial.
LEMMA OwnReadsStep ==
    ASSUME LockIInv, DataType, AgreeInv, EndInv, SerialInv, NoError, [Next]_vars
    PROVE  OwnReadsAreSerial'
<1>0. LockType /\ UNCHANGED <<batch, members, serial>> /\ Txs' = Txs /\ batch \in Batches
    BY HistoryKept DEF LockIInv, LockType, Txs
<1> SUFFICES ASSUME NEW s \in Shards, NEW i \in Txs, NEW k \in DOMAIN reads'[s][i], Owner[k] = s
             PROVE  reads'[s][i][k] = serial[i - 1][k]
    BY <1>0 DEF OwnReadsAreSerial
<1>1. CASE k \in DOMAIN reads[s][i]
    <2>1. reads'[s][i][k] = reads[s][i][k]
        BY <1>1, ReadsGrow
    <2> QED BY <1>1, <2>1 DEF SerialInv, OwnReadsAreSerial
<1>2. CASE k \notin DOMAIN reads[s][i]
    <2>1. reads'[s][i] # reads[s][i]
        BY <1>2
    <2>2. AcquireAndRead(s, i) \/ CollectReadResult(s, i)
        <3>1. ASSUME NEW t \in Shards, NEW j \in Txs, AcquireAndRead(t, j) \/ CollectReadResult(t, j)
              PROVE  t = s /\ j = i
            BY <1>0, <2>1, <3>1, WorkerIsLocal DEF Worker
        <3> QED BY <2>1, <3>1, OnlyTheseRead
    <2>3. CASE AcquireAndRead(s, i)
        <3>1. k \in ReadSet(batch[i]) /\ reads'[s][i][k] = store[s][k]
            BY <2>3, AcquireReads
        <3>2. k \in Keys
            BY <3>1, <1>0, TxType, SetsInKeys DEF ReadSet
        <3>3. granted[s][i] = LockKeys(s, i) /\ pc[s][i] = "locks"
            BY <2>3 DEF AcquireAndRead
        <3> QED BY <3>1, <3>2, <3>3, HolderReads
    <2>4. CASE CollectReadResult(s, i)
        <3>1. PICK m \in mail[s][i] : DOMAIN reads'[s][i] = DOMAIN reads[s][i] \cup DOMAIN m.reads
            BY <2>1, <2>4, CollectReads
        <3>2. FromOwner(i, m.reads) /\ k \in DOMAIN m.reads
            BY <1>2, <3>1 DEF AgreeInv, ReadsFromOwners
        <3> QED BY <1>2, <3>2 DEF FromOwner
    <2> QED BY <2>2, <2>3, <2>4
<1> QED BY <1>1, <1>2

\* Every step keeps SerialInv.
LEMMA SerialStep == LockIInv /\ DataType /\ AgreeInv /\ EndInv /\ SerialInv /\ [Next]_vars => SerialInv'
<1> SUFFICES ASSUME LockIInv, DataType, AgreeInv, EndInv, SerialInv, [Next]_vars PROVE SerialInv'
    OBVIOUS
<1>1. HistoryInv'
    BY HistoryKept DEF SerialInv, HistoryInv, Members
<1>2. OnlyOwnKeys'
    BY OnlyOwnKeysStep DEF SerialInv
<1>3. NoError' => StoreIsSerial' /\ OwnReadsAreSerial'
    BY NoErrorBefore, StoreStep, OwnReadsStep
<1> QED BY <1>1, <1>2, <1>3 DEF SerialInv

-----------------------------------------------------------------------------
(* The argument as a whole, for a batch that need not start everywhere: the *)
(* fallback of Aria is such a batch, on the shards that get there.          *)

LockingInv == LockIInv /\ DataType /\ AgreeInv /\ EndInv /\ MailInv /\ SerialInv

\* It holds before the batch starts anywhere.
LEMMA LockingFresh == Fresh => LockingInv
BY LockFresh, DataFresh, AgreeFresh, EndFresh, MailFresh, SerialFresh DEF Fresh, LockingInv

\* Every step of the batch keeps it.
LEMMA LockingStep == LockingInv /\ [Next]_vars => LockingInv'
BY LockStep, DataStep, AgreeStep, EndStep, MailStep, SerialStep DEF LockingInv, LockIInv, LockType

\* So does a shard that gives up before it has started.
LEMMA GiveUpStep ==
    ASSUME LockingInv, NEW s \in Shards, GiveUp(s)
    PROVE  LockingInv'
<1>0. /\ LockType /\ status[s] = "waiting" /\ status' = [status EXCEPT ![s] = "failed"]
      /\ UNCHANGED <<batch, members, serial, store, results, released, pc, todo, reads, received,
                     outcome, mail, stray>>
      /\ rpcFailures' \in 0 .. MaxRpcFailures
    BY DEF LockingInv, LockIInv, GiveUp, history, workVars
<1>1. LockIInv'
    BY GiveUpKeepsLocks DEF LockingInv
<1>2. /\ Txs' = Txs /\ Members' = Members
      /\ \A i : Active(i)' = Active(i) /\ ReadSources(i)' = ReadSources(i)
      /\ \A i : ResultShard(i)' = ResultShard(i)
      /\ \A t, i : Expected(t, i)' = Expected(t, i) /\ Relevant(t, i)' = Relevant(t, i)
    BY <1>0, SameRoles DEF Members
<1>3. \A t \in Shards : status'[t] = IF t = s THEN "failed" ELSE status[t]
    BY <1>0 DEF LockType
<1>4. DataType'
    BY <1>0, <1>2 DEF DataType, LockingInv
<1>5. AgreeInv'
    BY <1>0, <1>2 DEF AgreeInv, SameMembers, ReadsFromOwners, FromOwner, OutcomeFromReads, LockingInv
<1>6. EndInv'
    <2>1. ASSUME NEW t \in Shards, status'[t] = "done" PROVE AllCollected(t)'
        BY <1>0, <1>2, <1>3, <2>1 DEF AllCollected, EndInv, LockingInv
    <2>2. ASSUME NEW t \in Shards, NEW i \in Txs PROVE WorkerAccounted(t, i)' /\ OutcomePublished(t, i)'
        <3>1. WorkerAccounted(t, i) /\ OutcomePublished(t, i)
            BY DEF EndInv, LockingInv
        <3> QED BY <1>0, <1>2, <1>3, <3>1 DEF WorkerAccounted, OutcomePublished
    <2> QED BY <1>2, <2>1, <2>2 DEF EndInv
<1>7. MailInv'
    <2>1. ASSUME NEW t \in Shards, NEW i \in Txs PROVE MailOnce(t, i)'
        <3>1. MailOnce(t, i)
            BY DEF MailInv, LockingInv
        <3> QED BY <1>0, <1>2, <3>1 DEF MailOnce, SentTo
    <2> QED BY <1>0, <1>2, <1>3, <2>1 DEF MailInv, LockingInv
<1>8. SerialInv'
    BY <1>0, <1>2 DEF SerialInv, HistoryInv, OnlyOwnKeys, NoError, StoreIsSerial, AppliedUpTo, Writers,
                      OwnReadsAreSerial, LockingInv
<1> QED BY <1>1, <1>4, <1>5, <1>6, <1>7, <1>8 DEF LockingInv

\* And so does a step elsewhere that uses up one of the RPC failures.
LEMMA OtherFailureStep ==
    ASSUME LockingInv, UNCHANGED <<history, shardVars, workVars, mail, stray>>,
           rpcFailures' \in 0 .. MaxRpcFailures
    PROVE  LockingInv'
<1>0. UNCHANGED <<batch, members, serial, status, store, results, queue, granted, released,
                  pc, todo, reads, received, outcome, mail, stray>>
    BY DEF history, shardVars, workVars
<1>1. LockIInv'
    BY <1>0, StutterKeepsLocks DEF LockingInv
<1>2. /\ Txs' = Txs /\ Members' = Members
      /\ \A i : Active(i)' = Active(i) /\ ReadSources(i)' = ReadSources(i)
      /\ \A i : ResultShard(i)' = ResultShard(i)
      /\ \A t, i : Expected(t, i)' = Expected(t, i) /\ Relevant(t, i)' = Relevant(t, i)
    BY <1>0, SameRoles DEF Members
<1>3. DataType'
    BY <1>0, <1>2 DEF DataType, LockingInv
<1>4. AgreeInv'
    BY <1>0, <1>2 DEF AgreeInv, SameMembers, ReadsFromOwners, FromOwner, OutcomeFromReads, LockingInv
<1>5. EndInv'
    <2>1. ASSUME NEW t \in Shards PROVE AllCollected(t)' = AllCollected(t)
        BY <1>0, <1>2 DEF AllCollected
    <2>2. ASSUME NEW t \in Shards, NEW i \in Txs PROVE WorkerAccounted(t, i)' /\ OutcomePublished(t, i)'
        <3>1. WorkerAccounted(t, i) /\ OutcomePublished(t, i)
            BY DEF EndInv, LockingInv
        <3> QED BY <1>0, <1>2, <3>1 DEF WorkerAccounted, OutcomePublished
    <2> QED BY <1>0, <1>2, <2>1, <2>2 DEF EndInv, LockingInv
<1>6. MailInv'
    <2>1. ASSUME NEW t \in Shards, NEW i \in Txs PROVE MailOnce(t, i)'
        <3>1. MailOnce(t, i)
            BY DEF MailInv, LockingInv
        <3> QED BY <1>0, <1>2, <3>1 DEF MailOnce, SentTo
    <2> QED BY <1>0, <1>2, <2>1 DEF MailInv, LockingInv
<1>7. SerialInv'
    BY <1>0, <1>2 DEF SerialInv, HistoryInv, OnlyOwnKeys, NoError, StoreIsSerial, AppliedUpTo, Writers,
                      OwnReadsAreSerial, LockingInv
<1> QED BY <1>1, <1>3, <1>4, <1>5, <1>6, <1>7 DEF LockingInv

\* What a client is told of a member is what the serial execution answers, unless a
\* worker has failed.
LEMMA PublishedBySerial ==
    ASSUME LockingInv, NoError, NEW s \in Shards, NEW i \in Txs, results[s][i] \in TxResult
    PROVE  /\ s = ResultShard(i)
           /\ results[s][i] = ReferenceOutput(serial[i - 1], batch[i].op).result
<1>1. s = ResultShard(i) /\ results[s][i] = outcome[s][i]
    BY DEF EndInv, OutcomePublished, LockingInv
<1>2. outcome[s][i] # "none"
    BY <1>1 DEF TxResult
<1>3. /\ DOMAIN reads[s][i] = ReadSet(batch[i])
      /\ outcome[s][i] = ExecuteDeterministic(batch[i].op, reads[s][i]).result
    BY <1>2 DEF AgreeInv, OutcomeFromReads, LockingInv
<1> QED BY <1>1, <1>3, OutputIsReference DEF LockIInv, LockingInv

\* A shard that has executed all its members, none of them in vain, holds its part
\* of the final state.
LEMMA ExecutedIsSerial ==
    ASSUME LockingInv, NoError, NEW s \in Shards,
           \A i \in Members : s \in Active(i) => outcome[s][i] # "none", NEW k \in Keys
    PROVE  store[s][k] = IF Owner[k] = s THEN serial[Len(batch)][k] ELSE Missing
<1>1. CASE Owner[k] # s
    BY <1>1 DEF SerialInv, OnlyOwnKeys, LockingInv
<1>2. CASE Owner[k] = s
    <2>1. /\ batch \in Batches /\ Len(batch) \in Nat /\ Txs = 1 .. Len(batch)
          /\ Writers(k) \subseteq Txs
        BY BatchAssumption, WritersAreTxs DEF LockIInv, LockType, Txs, LockingInv
    <2>2. ASSUME NEW i \in Writers(k) PROVE outcome[s][i] # "none" /\ i <= Len(batch)
        <3>1. i \in Txs /\ i \in Members /\ s \in Active(i)
            BY <1>2, <2>1, <2>2, ActiveShards DEF Writers
        <3> QED BY <2>1, <3>1
    <2>3. AppliedUpTo(s, k, Len(batch)) /\ Len(batch) \in 0 .. Len(batch)
        BY <2>1, <2>2 DEF AppliedUpTo
    <2> QED BY <1>2, <2>3 DEF SerialInv, StoreIsSerial, LockingInv
<1> QED BY <1>1, <1>2

\* If all shards are done, no worker has failed and every member has been executed.
LEMMA AllDone ==
    ASSUME LockingInv, \A s \in Shards : status[s] = "done"
    PROVE  NoError /\ \A s \in Shards : \A i \in Members : s \in Active(i) => outcome[s][i] # "none"
<1>1. Members \subseteq Txs
    BY WritersAreTxs DEF LockingInv, LockIInv
<1>2. ASSUME NEW s \in Shards, NEW i \in Txs PROVE pc[s][i] # "err"
    <2>1. CASE i \in Members
        BY <2>1, DoneWorkers DEF LockingInv
    <2>2. CASE i \notin Members
        BY <2>2 DEF LockingInv, LockIInv, LockInv, Spawned, AgreeInv, SameMembers
    <2> QED BY <2>1, <2>2
<1> QED BY <1>1, <1>2, DoneWorkers DEF LockingInv, NoError

-----------------------------------------------------------------------------
(* The theorems *)

\* Every batch of its own keeps the invariant.
LEMMA LockingInvariant == Spec => []LockingInv
BY LockingStep, InitIsFresh, LockingFresh, PTL DEF Spec

\* Whatever a worker has read, itself or from a peer, is what the serial execution
\* of the batch shows to its transaction.
THEOREM ReadsAreSerialAlways == Spec => []ReadsAreSerial
<1>1. LockingInv => ReadsAreSerial
    BY AllReadsSerial, NoFailureNoError DEF ReadsAreSerial, LockingInv
<1> QED BY <1>1, LockingInvariant, PTL

\* Whatever a client is told is what the serial execution answers, and it is told
\* so by the shard that SubmitTx named.
THEOREM PublishedIsSerialAlways == Spec => []PublishedIsSerial
<1>1. LockingInv => PublishedIsSerial
    BY PublishedBySerial, NoFailureNoError DEF PublishedIsSerial
<1> QED BY <1>1, LockingInvariant, PTL

\* When every shard has answered the batch with Ok, the merged stores are the final
\* state of the reference executor, RPC failures included: what the sequencer
\* relies on when it logs the batch and the checker when it replays the log.
THEOREM CompletedIsSerialAlways == Spec => []CompletedIsSerial
<1>1. LockingInv => CompletedIsSerial
    BY AllDone, ExecutedIsSerial DEF CompletedIsSerial
<1> QED BY <1>1, LockingInvariant, PTL
=============================================================================
