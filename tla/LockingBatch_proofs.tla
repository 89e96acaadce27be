------------------------ MODULE LockingBatch_proofs ------------------------
(***************************************************************************)
(* What LockingBatch guarantees for every batch, every number of shards,   *)
(* every placement of keys and any number of RPC failures.                 *)
(***************************************************************************)
EXTENDS LockingBatch, TLAPS

-----------------------------------------------------------------------------
(* The inductive invariant of the lock table *)

StatusValue == {"waiting", "running", "done", "failed"}
PcValue     == {"none", "locks", "send", "collect", "ok", "err"}

\* The part of TypeOK that the lock table needs.
LockType ==
    /\ batch \in Batches
    /\ members \in [Shards -> SUBSET Txs]
    /\ status \in [Shards -> StatusValue]
    /\ queue \in [Shards -> [Keys -> SUBSET Txs]]
    /\ granted \in [Shards -> [Txs -> SUBSET Keys]]
    /\ released \in [Shards -> SUBSET Txs]
    /\ pc \in [Shards -> [Txs -> PcValue]]

\* Workers exist only once the batch has started on their shard, and only for
\* the transactions that the shard executes.
Spawned(s) == \A i \in Txs : pc[s][i] # "none" => status[s] # "waiting" /\ i \in members[s]

\* The coordinator only releases locks of workers that have ended.
ReleasedEnded(s) == \A i \in released[s] : Ended(s, i)

\* The batch has started on the shard, as its executor or one of its workers shows.
Started(s) == status[s] \in {"running", "done"} \/ \E i \in Txs : pc[s][i] # "none"

\* A queue holds the requests that have not been released.
QueueExact(s) ==
    Started(s) => \A k \in Keys : queue[s][k] = LockRequests(s, k) \ released[s]

\* A worker is granted its own keys only, each of them when all requests before
\* it have been released.
GrantOwn(s) == \A i \in Txs : granted[s][i] \subseteq LockKeys(s, i)
GrantInOrder(s) ==
    \A i \in Txs : \A k \in granted[s][i] : \A j \in LockRequests(s, k) :
        j < i => j \in released[s]

\* A worker that got past its locks holds them all.  One that has failed may
\* have failed for want of a grant, but only after the batch had failed.
PastLocks(s, i) == \/ pc[s][i] \in {"send", "collect", "ok"}
                   \/ pc[s][i] = "err" /\ status[s] = "running"
HoldsLocks(s) == \A i \in Txs : PastLocks(s, i) => granted[s][i] = LockKeys(s, i)

LockInv == \A s \in Shards : /\ Spawned(s) /\ ReleasedEnded(s) /\ QueueExact(s)
                             /\ GrantOwn(s) /\ GrantInOrder(s) /\ HoldsLocks(s)

LockIInv == LockType /\ LockInv

\* What the lock table is before the batch starts anywhere.  A shard may have given
\* up on it already: as the fallback of Aria, the batch has had a first phase.
FreshLocks ==
    /\ batch \in Batches
    /\ members \in [Shards -> SUBSET Txs]
    /\ status \in [Shards -> {"waiting", "failed"}]
    /\ queue = [s \in Shards |-> [k \in Keys |-> {}]]
    /\ granted = [s \in Shards |-> [i \in Txs |-> {}]]
    /\ released = [s \in Shards |-> {}]
    /\ pc = [s \in Shards |-> [i \in Txs |-> "none"]]

\* A shard gives up on the batch before it has started it, since an RPC has failed
\* in the first phase of Aria: not a step of Next.
GiveUp(s) ==
    /\ status[s] = "waiting"
    /\ status' = [status EXCEPT ![s] = "failed"]
    /\ rpcFailures' \in 0 .. MaxRpcFailures
    /\ UNCHANGED <<history, store, results, queue, granted, released, workVars, mail, stray>>

-----------------------------------------------------------------------------
\* The positions of a batch are natural numbers.
LEMMA TxsAreNat == ASSUME batch \in Batches PROVE Txs \subseteq Nat
BY BatchAssumption DEF Txs

\* Nothing that is said of a transaction changes while the batch stays the same.
LEMMA SameBatch ==
    ASSUME batch' = batch, members' = members
    PROVE  /\ Txs' = Txs
           /\ \A s, i : LockKeys(s, i)' = LockKeys(s, i)
           /\ \A s, k : LockRequests(s, k)' = LockRequests(s, k)
BY DEF Txs, LockKeys, LockRequests

\* A worker past its locks that has not been released is at the front of all its
\* queues: the fact behind both ReleaseFindsFront and WritesUnderLock.
LEMMA HolderIsFront ==
    ASSUME LockIInv, NEW s \in Shards, NEW i \in Txs,
           PastLocks(s, i), i \notin released[s]
    PROVE  \A k \in LockKeys(s, i) : k \in granted[s][i] /\ IsFront(i, queue[s][k])
<1> SUFFICES ASSUME NEW k \in LockKeys(s, i)
             PROVE  k \in granted[s][i] /\ IsFront(i, queue[s][k])
    OBVIOUS
<1>1. k \in granted[s][i] /\ k \in Keys
    BY DEF LockIInv, LockType, LockInv, HoldsLocks
<1>2. queue[s][k] = LockRequests(s, k) \ released[s]
    BY <1>1 DEF LockIInv, LockInv, QueueExact, Started, PastLocks
<1>3. i \in LockRequests(s, k)
    BY DEF LockRequests
<1>4. ASSUME NEW j \in queue[s][k] PROVE i <= j
    <2>1. j \in LockRequests(s, k) /\ j \notin released[s] /\ j \in Txs
        BY <1>2, <1>4 DEF LockRequests
    <2>2. ~(j < i)
        BY <1>1, <2>1 DEF LockIInv, LockInv, GrantInOrder
    <2>3. i \in Nat /\ j \in Nat
        BY <2>1, TxsAreNat DEF LockIInv, LockType
    <2> QED BY <2>2, <2>3
<1> QED BY <1>1, <1>2, <1>3, <1>4 DEF IsFront

-----------------------------------------------------------------------------
\* Before the batch arrives the lock table is empty.
LEMMA LockFresh == FreshLocks => LockIInv
<1> SUFFICES ASSUME FreshLocks PROVE LockIInv
    OBVIOUS
<1>1. LockType
    BY DEF FreshLocks, LockType, StatusValue, PcValue
<1>2. \A s \in Shards : status[s] \in {"waiting", "failed"}
    BY DEF FreshLocks
<1>3. LockInv
    BY <1>2 DEF FreshLocks, LockInv, Spawned, ReleasedEnded, QueueExact, Started, GrantOwn,
           GrantInOrder, HoldsLocks, PastLocks
<1> QED BY <1>1, <1>3 DEF LockIInv

\* And so it is in the initial states of a batch of its own.
LEMMA LockInit == Init => LockIInv
<1>1. Init => FreshLocks
    BY DEF Init, FreshLocks
<1> QED BY <1>1, LockFresh

\* A step of one worker moves its pc and leaves the lock table alone.
LEMMA WorkerKeepsLocks ==
    ASSUME LockIInv, NEW s \in Shards, NEW i \in Txs, NEW where \in PcValue \ {"none"},
           Goto(s, i, where), pc[s][i] # "none", ~Ended(s, i),
           UNCHANGED <<batch, members, status, queue, granted, released>>,
           where \in {"send", "collect", "ok"} \/ (where = "err" /\ status[s] = "running")
               => granted[s][i] = LockKeys(s, i)
    PROVE  LockIInv'
<1> USE SameBatch
<1>1. pc' \in [Shards -> [Txs -> PcValue]]
    BY DEF LockIInv, LockType, Goto
<1>2. LockType'
    BY <1>1 DEF LockIInv, LockType
<1>3. ASSUME NEW t \in Shards, NEW j \in Txs
      PROVE  pc'[t][j] = IF t = s /\ j = i THEN where ELSE pc[t][j]
    BY DEF LockIInv, LockType, Goto
<1>4. status[s] # "waiting"
    BY DEF LockIInv, LockInv, Spawned
<1>5. ASSUME NEW t \in Shards
      PROVE  (Spawned(t) /\ ReleasedEnded(t) /\ QueueExact(t)
              /\ GrantOwn(t) /\ GrantInOrder(t) /\ HoldsLocks(t))'
    <2>0. Spawned(t) /\ ReleasedEnded(t) /\ QueueExact(t)
          /\ GrantOwn(t) /\ GrantInOrder(t) /\ HoldsLocks(t)
        BY DEF LockIInv, LockInv
    <2>1. Spawned(t)'
        BY <2>0, <1>3, <1>4 DEF Spawned
    <2>2. ReleasedEnded(t)'
        <3>1. released[t] \subseteq Txs
            BY DEF LockIInv, LockType
        <3> QED BY <2>0, <3>1, <1>3 DEF ReleasedEnded, Ended
    <2>3. QueueExact(t)'
        <3>1. Started(t)' => Started(t)
            BY <1>3 DEF Started
        <3> QED BY <2>0, <3>1 DEF QueueExact
    <2>4. GrantOwn(t)' /\ GrantInOrder(t)'
        BY <2>0 DEF GrantOwn, GrantInOrder
    <2>5. HoldsLocks(t)'
        BY <2>0, <1>3 DEF HoldsLocks, PastLocks
    <2> QED BY <2>1, <2>2, <2>3, <2>4, <2>5
<1> QED BY <1>2, <1>5 DEF LockIInv, LockInv

\* The parts of the invariant that speak of shard t only depend on its own row of
\* the lock table.
LEMMA OtherShard ==
    ASSUME LockIInv, NEW t \in Shards, batch' = batch, members' = members,
           status'[t] = status[t], queue'[t] = queue[t], granted'[t] = granted[t],
           released'[t] = released[t], pc'[t] = pc[t]
    PROVE  (Spawned(t) /\ ReleasedEnded(t) /\ QueueExact(t)
            /\ GrantOwn(t) /\ GrantInOrder(t) /\ HoldsLocks(t))'
<1> USE SameBatch
<1>0. Spawned(t) /\ ReleasedEnded(t) /\ QueueExact(t)
      /\ GrantOwn(t) /\ GrantInOrder(t) /\ HoldsLocks(t)
    BY DEF LockIInv, LockInv
<1>1. Spawned(t)' /\ ReleasedEnded(t)'
    BY <1>0 DEF Spawned, ReleasedEnded, Ended
<1>2. QueueExact(t)'
    BY <1>0 DEF QueueExact, Started
<1>3. GrantOwn(t)' /\ GrantInOrder(t)'
    BY <1>0 DEF GrantOwn, GrantInOrder
<1>4. HoldsLocks(t)'
    BY <1>0 DEF HoldsLocks, PastLocks
<1> QED BY <1>1, <1>2, <1>3, <1>4

\* StartBatch fills every queue and grants its front (enqueue, grant_initial_heads).
LEMMA StartKeepsLocks ==
    ASSUME LockIInv, NEW s \in Shards, StartBatch(s)
    PROVE  LockIInv'
<1> USE SameBatch
<1>0. batch' = batch /\ members' = members /\ released' = released
    BY DEF StartBatch, history
<1>1. status' = [status EXCEPT ![s] = "running"] /\ status[s] = "waiting"
    BY DEF StartBatch
<1>2. queue' = [queue EXCEPT ![s] = [k \in Keys |-> LockRequests(s, k)]]
    BY DEF StartBatch
<1>3. granted' = [granted EXCEPT ![s] = [i \in Txs |-> InitialGrants(s, i)]]
    BY DEF StartBatch
<1>4. pc' = [pc EXCEPT ![s] =
          [i \in Txs |-> IF Relevant(s, i) THEN "locks" ELSE "none"]]
    BY DEF StartBatch
<1>5. LockType'
    <2>1. queue' \in [Shards -> [Keys -> SUBSET Txs]]
        BY <1>2 DEF LockIInv, LockType, LockRequests
    <2>2. granted' \in [Shards -> [Txs -> SUBSET Keys]]
        BY <1>3 DEF LockIInv, LockType, InitialGrants
    <2>3. pc' \in [Shards -> [Txs -> PcValue]]
        BY <1>4 DEF LockIInv, LockType, PcValue
    <2>4. status' \in [Shards -> StatusValue]
        BY <1>1 DEF LockIInv, LockType, StatusValue
    <2> QED BY <1>0, <2>1, <2>2, <2>3, <2>4 DEF LockIInv, LockType
<1>6. released[s] = {}
    <2>1. ASSUME NEW i \in released[s] PROVE FALSE
        <3>1. i \in Txs
            BY DEF LockIInv, LockType
        <3>2. pc[s][i] = "none"
            BY <1>1, <3>1 DEF LockIInv, LockInv, Spawned
        <3> QED BY <3>2 DEF LockIInv, LockInv, ReleasedEnded, Ended
    <2> QED BY <2>1
<1>7. ASSUME NEW i \in Txs
      PROVE  /\ pc'[s][i] \in {"locks", "none"}
             /\ granted'[s][i] = {k \in Keys : IsFront(i, LockRequests(s, k))}
    BY <1>3, <1>4 DEF LockIInv, LockType, InitialGrants
<1>8. ASSUME NEW k \in Keys PROVE queue'[s][k] = LockRequests(s, k)
    BY <1>2 DEF LockIInv, LockType
<1>9. (Spawned(s) /\ ReleasedEnded(s) /\ QueueExact(s)
       /\ GrantOwn(s) /\ GrantInOrder(s) /\ HoldsLocks(s))'
    <2>1. Spawned(s)' /\ ReleasedEnded(s)'
        <3>1. \A i \in Txs : pc'[s][i] # "none" => i \in members[s]
            BY <1>4 DEF LockIInv, LockType, Relevant
        <3>2. status'[s] = "running"
            BY <1>1 DEF LockIInv, LockType
        <3> QED BY <1>0, <1>6, <3>1, <3>2 DEF Spawned, ReleasedEnded
    <2>2. QueueExact(s)'
        BY <1>0, <1>6, <1>8 DEF QueueExact
    <2>3. GrantOwn(s)'
        BY <1>0, <1>7 DEF GrantOwn, IsFront, LockRequests
    <2>4. GrantInOrder(s)'
        <3> SUFFICES ASSUME NEW i \in Txs, NEW k \in Keys, IsFront(i, LockRequests(s, k)),
                            NEW j \in LockRequests(s, k), j < i
                     PROVE  FALSE
            BY <1>0, <1>7 DEF GrantInOrder
        <3>1. i <= j /\ j \in Txs
            BY DEF IsFront, LockRequests
        <3> QED BY <3>1, TxsAreNat DEF LockIInv, LockType
    <2>5. HoldsLocks(s)'
        BY <1>0, <1>7 DEF HoldsLocks, PastLocks
    <2> QED BY <2>1, <2>2, <2>3, <2>4, <2>5
<1>10. ASSUME NEW t \in Shards, t # s
       PROVE  (Spawned(t) /\ ReleasedEnded(t) /\ QueueExact(t)
               /\ GrantOwn(t) /\ GrantInOrder(t) /\ HoldsLocks(t))'
    <2>1. /\ status'[t] = status[t] /\ queue'[t] = queue[t] /\ granted'[t] = granted[t]
          /\ released'[t] = released[t] /\ pc'[t] = pc[t]
        BY <1>0, <1>1, <1>2, <1>3, <1>4, <1>10 DEF LockIInv, LockType
    <2> QED BY <1>0, <2>1, OtherShard
<1> QED BY <1>5, <1>9, <1>10 DEF LockIInv, LockInv

\* CollectOutcome passes the locks of a worker on, error or not
\* (release_and_grant_next).
LEMMA CollectKeepsLocks ==
    ASSUME LockIInv, NEW s \in Shards, NEW i \in Txs, CollectOutcome(s, i)
    PROVE  LockIInv'
<1> USE SameBatch
<1>0. batch' = batch /\ members' = members /\ pc' = pc /\ status[s] = "running" /\ Ended(s, i) /\ i \notin released[s]
    BY DEF CollectOutcome, history, workVars
<1>1. released' = [released EXCEPT ![s] = @ \cup {i}]
    BY DEF CollectOutcome
<1>2. \A k \in LockKeys(s, i) : IsFront(i, queue[s][k]) /\ k \in Keys
    <2>1. PastLocks(s, i)
        BY <1>0 DEF PastLocks, Ended
    <2>2. \A k \in LockKeys(s, i) : k \in granted[s][i] /\ IsFront(i, queue[s][k])
        BY <1>0, <2>1, HolderIsFront
    <2> QED BY <2>2 DEF LockIInv, LockType
<1>3. /\ queue' = [queue EXCEPT ![s] = Unlock(s, i)]
      /\ granted' = [granted EXCEPT ![s] = GrantNext(s, i)]
      /\ \/ status' = [status EXCEPT ![s] = "failed"]
         \/ status' = status
    BY <1>2 DEF CollectOutcome
<1>4. LockType'
    <2>1. queue' \in [Shards -> [Keys -> SUBSET Txs]]
        BY <1>3 DEF LockIInv, LockType, Unlock
    <2>2. granted' \in [Shards -> [Txs -> SUBSET Keys]]
        <3>1. GrantNext(s, i) \in [Txs -> SUBSET Keys]
            BY <1>2 DEF GrantNext, LockIInv, LockType
        <3> QED BY <1>3, <3>1 DEF LockIInv, LockType
    <2>3. released' \in [Shards -> SUBSET Txs]
        BY <1>1 DEF LockIInv, LockType
    <2>4. status' \in [Shards -> StatusValue]
        BY <1>3 DEF LockIInv, LockType, StatusValue
    <2> QED BY <1>0, <2>1, <2>2, <2>3, <2>4 DEF LockIInv, LockType
<1>5. ASSUME NEW t \in Shards, t # s
      PROVE  (Spawned(t) /\ ReleasedEnded(t) /\ QueueExact(t)
              /\ GrantOwn(t) /\ GrantInOrder(t) /\ HoldsLocks(t))'
    <2>1. /\ status'[t] = status[t] /\ queue'[t] = queue[t] /\ granted'[t] = granted[t]
          /\ released'[t] = released[t] /\ pc'[t] = pc[t]
        BY <1>0, <1>1, <1>3, <1>5 DEF LockIInv, LockType
    <2> QED BY <1>0, <2>1, OtherShard
<1>6. released'[s] = released[s] \cup {i} /\ status'[s] \in {"running", "failed"}
    BY <1>0, <1>1, <1>3 DEF LockIInv, LockType
<1>7. ASSUME NEW k \in Keys
      PROVE  queue[s][k] = LockRequests(s, k) \ released[s] /\ queue'[s][k] = queue[s][k] \ {i}
    <2>1. queue[s][k] = LockRequests(s, k) \ released[s]
        BY <1>0 DEF LockIInv, LockInv, QueueExact, Started
    <2>2. k \notin LockKeys(s, i) => i \notin queue[s][k]
        BY <2>1 DEF LockRequests
    <2> QED BY <1>3, <2>1, <2>2 DEF LockIInv, LockType, Unlock
<1>8. ASSUME NEW j \in Txs, NEW k \in granted'[s][j]
      PROVE  \/ k \in granted[s][j]
             \/ k \in LockKeys(s, i) /\ k \in Keys /\ IsFront(j, queue[s][k] \ {i})
    <2>1. granted'[s] = GrantNext(s, i)
        BY <1>3 DEF LockIInv, LockType
    <2>2. k \in Keys
        BY <1>0, <1>4 DEF LockType
    <2> QED BY <2>1, <2>2 DEF GrantNext
<1>9. ASSUME NEW j \in Txs PROVE granted[s][j] \subseteq granted'[s][j]
    BY <1>3 DEF LockIInv, LockType, GrantNext
<1>10. (Spawned(s) /\ ReleasedEnded(s) /\ QueueExact(s)
        /\ GrantOwn(s) /\ GrantInOrder(s) /\ HoldsLocks(s))'
    <2>0. ReleasedEnded(s) /\ GrantOwn(s) /\ GrantInOrder(s) /\ HoldsLocks(s)
        BY DEF LockIInv, LockInv
    <2>1. Spawned(s)'
        BY <1>0, <1>6 DEF Spawned, LockIInv, LockInv
    <2>2. ReleasedEnded(s)'
        BY <2>0, <1>0, <1>6 DEF ReleasedEnded, Ended
    <2>3. QueueExact(s)'
        BY <1>0, <1>6, <1>7 DEF QueueExact
    <2>4. GrantOwn(s)'
        <3> SUFFICES ASSUME NEW j \in Txs, NEW k \in granted'[s][j]
                     PROVE  k \in LockKeys(s, j)
            BY <1>0 DEF GrantOwn
        <3>1. CASE k \in granted[s][j]
            BY <3>1, <2>0 DEF GrantOwn
        <3>2. CASE k \in Keys /\ IsFront(j, queue[s][k] \ {i})
            BY <3>2, <1>7 DEF IsFront, LockRequests
        <3> QED BY <3>1, <3>2, <1>8
    <2>5. GrantInOrder(s)'
        <3> SUFFICES ASSUME NEW j \in Txs, NEW k \in granted'[s][j],
                            NEW m \in LockRequests(s, k), m < j
                     PROVE  m \in released[s] \cup {i}
            BY <1>0, <1>6 DEF GrantInOrder
        <3>1. CASE k \in granted[s][j]
            BY <3>1, <2>0 DEF GrantInOrder
        <3>2. CASE k \in Keys /\ IsFront(j, queue[s][k] \ {i})
            <4>1. m \in Nat /\ j \in Nat
                BY TxsAreNat DEF LockRequests, LockIInv, LockType
            <4>2. m \notin queue[s][k] \ {i}
                BY <4>1, <3>2 DEF IsFront
            <4> QED BY <4>2, <3>2, <1>7
        <3> QED BY <3>1, <3>2, <1>8
    <2>6. HoldsLocks(s)'
        <3> SUFFICES ASSUME NEW j \in Txs, PastLocks(s, j)'
                     PROVE  granted'[s][j] = LockKeys(s, j)
            BY <1>0 DEF HoldsLocks
        <3>1. PastLocks(s, j)
            BY <1>0, <1>6 DEF PastLocks
        <3>2. LockKeys(s, j) \subseteq granted'[s][j]
            BY <2>0, <3>1, <1>9 DEF HoldsLocks
        <3> QED BY <2>4, <3>2, <1>0 DEF GrantOwn
    <2> QED BY <2>1, <2>2, <2>3, <2>4, <2>5, <2>6
<1> QED BY <1>4, <1>5, <1>10 DEF LockIInv, LockInv

\* FinishBatch leaves the lock table as it is.
LEMMA FinishKeepsLocks ==
    ASSUME LockIInv, NEW s \in Shards, FinishBatch(s)
    PROVE  LockIInv'
<1> USE SameBatch
<1>0. /\ batch' = batch /\ members' = members /\ pc' = pc /\ queue' = queue /\ granted' = granted
      /\ released' = released /\ status[s] = "running"
      /\ status' = [status EXCEPT ![s] = "done"]
    BY DEF FinishBatch, history, workVars
<1>1. LockType'
    BY <1>0 DEF LockIInv, LockType, StatusValue
<1>2. ASSUME NEW t \in Shards
      PROVE  (Spawned(t) /\ ReleasedEnded(t) /\ QueueExact(t)
              /\ GrantOwn(t) /\ GrantInOrder(t) /\ HoldsLocks(t))'
    <2>1. CASE t # s
        BY <2>1, <1>0, OtherShard DEF LockIInv, LockType
    <2>2. CASE t = s
        <3>0. Spawned(t) /\ ReleasedEnded(t) /\ QueueExact(t)
              /\ GrantOwn(t) /\ GrantInOrder(t) /\ HoldsLocks(t)
            BY DEF LockIInv, LockInv
        <3>1. status'[t] = "done"
            BY <2>2, <1>0 DEF LockIInv, LockType
        <3>2. Spawned(t)' /\ ReleasedEnded(t)' /\ QueueExact(t)'
            BY <3>0, <3>1, <2>2, <1>0 DEF Spawned, ReleasedEnded, QueueExact, Started, Ended
        <3>3. GrantOwn(t)' /\ GrantInOrder(t)'
            BY <3>0, <1>0 DEF GrantOwn, GrantInOrder
        <3>4. HoldsLocks(t)'
            BY <3>0, <3>1, <1>0 DEF HoldsLocks, PastLocks
        <3> QED BY <3>2, <3>3, <3>4
    <2> QED BY <2>1, <2>2
<1> QED BY <1>1, <1>2 DEF LockIInv, LockInv

\* Steps that touch neither locks nor control keep the invariant.
LEMMA StutterKeepsLocks ==
    ASSUME LockIInv, UNCHANGED <<batch, members, status, queue, granted, released, pc>>
    PROVE  LockIInv'
<1>1. LockType'
    BY SameBatch DEF LockIInv, LockType
<1>2. ASSUME NEW t \in Shards
      PROVE  (Spawned(t) /\ ReleasedEnded(t) /\ QueueExact(t)
              /\ GrantOwn(t) /\ GrantInOrder(t) /\ HoldsLocks(t))'
    BY OtherShard
<1> QED BY <1>1, <1>2 DEF LockIInv, LockInv

\* No step of a worker touches the lock table; only AcquireAndRead gets past it.
LEMMA WorkerStepKeepsLocks ==
    ASSUME LockIInv, NEW s \in Shards, NEW i \in Txs,
           Worker(s, i) \/ FailReadResult(s, i)
    PROVE  LockIInv'
<1>0. ASSUME pc[s][i] \in {"send", "collect"} PROVE granted[s][i] = LockKeys(s, i)
    BY <1>0 DEF LockIInv, LockInv, HoldsLocks, PastLocks
<1>1. CASE AcquireAndRead(s, i)
    <2>1. PICK where \in {"send", "collect", "ok"} : Goto(s, i, where)
        BY <1>1 DEF AcquireAndRead, AfterSend
    <2>2. pc[s][i] = "locks" /\ granted[s][i] = LockKeys(s, i)
          /\ UNCHANGED <<batch, members, status, queue, granted, released>>
        BY <1>1 DEF AcquireAndRead, history, shardVars
    <2> QED BY <2>1, <2>2, WorkerKeepsLocks DEF PcValue, Ended
<1>2. CASE SendReadResult(s, i)
    <2>1. PICK where \in {"send", "collect", "ok", "err"} : Goto(s, i, where)
        BY <1>2 DEF SendReadResult, AfterSend
    <2>2. pc[s][i] = "send" /\ UNCHANGED <<batch, members, status, queue, granted, released>>
        BY <1>2 DEF SendReadResult, history, shardVars
    <2> QED BY <2>1, <2>2, <1>0, WorkerKeepsLocks DEF PcValue, Ended
<1>3. CASE FailReadResult(s, i)
    <2>1. Goto(s, i, "err") /\ pc[s][i] = "send"
          /\ UNCHANGED <<batch, members, status, queue, granted, released>>
        BY <1>3 DEF FailReadResult, history, shardVars
    <2> QED BY <2>1, <1>0, WorkerKeepsLocks DEF PcValue, Ended
<1>4. CASE CollectReadResult(s, i)
    <2>1. Goto(s, i, "err") \/ pc' = pc
        BY <1>4 DEF CollectReadResult
    <2>2. pc[s][i] = "collect" /\ UNCHANGED <<batch, members, status, queue, granted, released>>
        BY <1>4 DEF CollectReadResult, history, shardVars
    <2>3. CASE Goto(s, i, "err")
        BY <2>3, <2>2, <1>0, WorkerKeepsLocks DEF PcValue, Ended
    <2>4. CASE pc' = pc
        BY <2>4, <2>2, StutterKeepsLocks
    <2> QED BY <2>1, <2>3, <2>4
<1>5. CASE ExecuteAndApply(s, i)
    <2>1. PICK where \in {"ok", "err"} : Goto(s, i, where)
        BY <1>5 DEF ExecuteAndApply
    <2>2. pc[s][i] = "collect" /\ UNCHANGED <<batch, members, status, queue, granted, released>>
        BY <1>5 DEF ExecuteAndApply, history
    <2> QED BY <2>1, <2>2, <1>0, WorkerKeepsLocks DEF PcValue, Ended
<1>6. CASE OrphanFails(s, i)
    <2>1. /\ Goto(s, i, "err") /\ pc[s][i] \in {"locks", "collect"}
          /\ status[s] = "failed"
          /\ UNCHANGED <<batch, members, status, queue, granted, released>>
        BY <1>6 DEF OrphanFails, history, shardVars
    <2> QED BY <2>1, WorkerKeepsLocks DEF PcValue, Ended
<1> QED BY <1>1, <1>2, <1>3, <1>4, <1>5, <1>6 DEF Worker

\* A shard that gives up has no worker.
LEMMA GiveUpKeepsLocks ==
    ASSUME LockIInv, NEW s \in Shards, GiveUp(s)
    PROVE  LockIInv'
<1> USE SameBatch
<1>0. /\ batch' = batch /\ members' = members /\ pc' = pc /\ queue' = queue /\ granted' = granted
      /\ released' = released /\ status[s] = "waiting"
      /\ status' = [status EXCEPT ![s] = "failed"]
    BY DEF GiveUp, history, workVars
<1>1. LockType'
    BY <1>0 DEF LockIInv, LockType, StatusValue
<1>2. ASSUME NEW t \in Shards
      PROVE  (Spawned(t) /\ ReleasedEnded(t) /\ QueueExact(t)
              /\ GrantOwn(t) /\ GrantInOrder(t) /\ HoldsLocks(t))'
    <2>1. CASE t # s
        BY <2>1, <1>0, OtherShard DEF LockIInv, LockType
    <2>2. CASE t = s
        <3>0. Spawned(t) /\ ReleasedEnded(t) /\ GrantOwn(t) /\ GrantInOrder(t)
            BY DEF LockIInv, LockInv
        <3>1. status'[t] = "failed" /\ \A i \in Txs : pc'[t][i] = "none"
            BY <3>0, <2>2, <1>0 DEF LockIInv, LockType, Spawned
        <3>2. Spawned(t)' /\ ReleasedEnded(t)' /\ QueueExact(t)' /\ HoldsLocks(t)'
            BY <3>0, <3>1, <1>0
            DEF Spawned, ReleasedEnded, QueueExact, Started, HoldsLocks, PastLocks, Ended
        <3>3. GrantOwn(t)' /\ GrantInOrder(t)'
            BY <3>0, <1>0 DEF GrantOwn, GrantInOrder
        <3> QED BY <3>2, <3>3
    <2> QED BY <2>1, <2>2
<1> QED BY <1>1, <1>2 DEF LockIInv, LockInv

\* Every step keeps the invariant.
LEMMA LockStep == LockIInv /\ [Next]_vars => LockIInv'
<1> SUFFICES ASSUME LockIInv, [Next]_vars PROVE LockIInv'
    OBVIOUS
<1>1. CASE UNCHANGED vars
    BY <1>1, StutterKeepsLocks DEF vars, history, shardVars, workVars
<1>2. ASSUME NEW s \in Shards, Coordinator(s) PROVE LockIInv'
    BY <1>2, StartKeepsLocks, CollectKeepsLocks, FinishKeepsLocks DEF Coordinator
<1>3. ASSUME NEW s \in Shards, NEW i \in Txs, Worker(s, i) \/ FailReadResult(s, i)
      PROVE  LockIInv'
    BY <1>3, WorkerStepKeepsLocks
<1> QED BY <1>1, <1>2, <1>3 DEF Next

\* The lock table of every shard stays consistent with its workers.
THEOREM LocksInvariant == Spec => []LockIInv
BY LockInit, LockStep, PTL DEF Spec

\* release_and_grant_next always finds the transaction that it releases at the
\* front of every queue, so its LockInvariant errors cannot occur.
THEOREM ReleaseFindsFrontAlways == Spec => []ReleaseFindsFront
<1>1. LockIInv => ReleaseFindsFront
    <2> SUFFICES ASSUME LockIInv, NEW s \in Shards, NEW i \in Txs,
                        status[s] = "running", Ended(s, i), i \notin released[s]
                 PROVE  \A k \in LockKeys(s, i) : IsFront(i, queue[s][k])
        BY DEF ReleaseFindsFront
    <2>1. PastLocks(s, i)
        BY DEF PastLocks, Ended
    <2> QED BY <2>1, HolderIsFront
<1> QED BY <1>1, LocksInvariant, PTL

-----------------------------------------------------------------------------
(* Writes happen under locks *)

\* A store maps keys, on every shard.
StoreShape == DOMAIN store = Shards /\ \A s \in Shards : DOMAIN store[s] = Keys

\* Applying writes changes nothing but keys that are written.
LEMMA ApplyWritesElsewhere ==
    ASSUME NEW st, NEW ws, NEW kept, NEW k \in DOMAIN st,
           ApplyWrites(st, ws, kept)[k] # st[k]
    PROVE  \E w \in kept : ws[w].key = k
BY DEF ApplyWrites

\* No step but ExecuteAndApply changes a store.
LEMMA OnlyExecuteWrites ==
    ASSUME [Next]_vars
    PROVE  store' = store \/ \E s \in Shards, i \in Txs : ExecuteAndApply(s, i)
<1>1. CASE UNCHANGED vars
    BY <1>1 DEF vars, shardVars
<1>2. ASSUME NEW s \in Shards, Coordinator(s) PROVE store' = store
    BY <1>2 DEF Coordinator, StartBatch, CollectOutcome, FinishBatch
<1>3. ASSUME NEW s \in Shards, NEW i \in Txs, Worker(s, i), ~ExecuteAndApply(s, i)
      PROVE  store' = store
    BY <1>3 DEF Worker, AcquireAndRead, SendReadResult, CollectReadResult, OrphanFails, shardVars
<1>4. ASSUME NEW s \in Shards, NEW i \in Txs, FailReadResult(s, i) PROVE store' = store
    BY <1>4 DEF FailReadResult, shardVars
<1> QED BY <1>1, <1>2, <1>3, <1>4 DEF Next

\* The stores keep their domains.
LEMMA StoreShapeInvariant == Spec => []StoreShape
<1>1. Init => StoreShape
    BY DEF Init, StoreShape
<1>2. StoreShape /\ [Next]_vars => StoreShape'
    <2> SUFFICES ASSUME StoreShape, [Next]_vars PROVE StoreShape'
        OBVIOUS
    <2>1. CASE store' = store
        BY <2>1 DEF StoreShape
    <2>2. ASSUME NEW s \in Shards, NEW i \in Txs, ExecuteAndApply(s, i) PROVE StoreShape'
        <3>1. \/ store' = store
              \/ \E ws, kept : store' = [store EXCEPT ![s] = ApplyWrites(@, ws, kept)]
            BY <2>2 DEF ExecuteAndApply
        <3>2. ASSUME NEW ws, NEW kept, store' = [store EXCEPT ![s] = ApplyWrites(@, ws, kept)]
              PROVE  StoreShape'
            BY <3>2 DEF StoreShape, ApplyWrites
        <3> QED BY <3>1, <3>2, <2>1
    <2>3. \/ store' = store
          \/ \E s \in Shards, i \in Txs : ExecuteAndApply(s, i)
        BY OnlyExecuteWrites
    <2> QED BY <2>1, <2>2, <2>3
<1> QED BY <1>1, <1>2, PTL DEF Spec

\* A worker writes an inode only while it holds the lock of its key and is the
\* front of the key's queue, RPC failures and failed batches included.
THEOREM WritesUnderLockAlways == Spec => WritesUnderLock
<1> DEFINE Guarded ==
        \A s \in Shards, k \in Keys : store'[s][k] # store[s][k] =>
            \E i \in Txs : /\ pc[s][i] = "collect" /\ pc'[s][i] = "ok"
                           /\ k \in granted[s][i] /\ IsFront(i, queue[s][k])
<1>1. LockIInv /\ StoreShape /\ [Next]_vars => [Guarded]_vars
    <2> SUFFICES ASSUME LockIInv, StoreShape, [Next]_vars,
                        NEW s \in Shards, NEW k \in Keys, store'[s][k] # store[s][k]
                 PROVE  \E i \in Txs : /\ pc[s][i] = "collect" /\ pc'[s][i] = "ok"
                                       /\ k \in granted[s][i] /\ IsFront(i, queue[s][k])
        OBVIOUS
    <2>1. \/ store' = store
          \/ \E t \in Shards, i \in Txs : ExecuteAndApply(t, i)
        BY OnlyExecuteWrites
    <2>2. PICK t \in Shards, i \in Txs : ExecuteAndApply(t, i)
        BY <2>1
    <2> DEFINE ws   == ExecuteDeterministic(batch[i].op, reads[t][i]).writes
               kept == FilterLocalWrites(ws, t)
    <2>3. /\ ValidLocalWrites(t, i, ws, kept)
          /\ store' = [store EXCEPT ![t] = ApplyWrites(@, ws, kept)]
          /\ Goto(t, i, "ok") /\ pc[t][i] = "collect"
        BY <2>2 DEF ExecuteAndApply
    <2> HIDE DEF ws, kept
    <2>4. t = s /\ ApplyWrites(store[s], ws, kept)[k] # store[s][k]
        BY <2>3 DEF StoreShape
    <2>5. PICK w \in kept : ws[w].key = k
        BY <2>4, ApplyWritesElsewhere DEF StoreShape
    <2>6. k \in LockKeys(s, i)
        <3>1. i \in members[s]
            BY <2>3, <2>4 DEF LockIInv, LockInv, Spawned
        <3> QED BY <3>1, <2>3, <2>4, <2>5
                DEF ValidLocalWrites, LocalWriteKeys, LockKeys, LocalLockKeys
    <2>7. PastLocks(s, i) /\ i \notin released[s]
        BY <2>3, <2>4 DEF LockIInv, LockInv, Spawned, PastLocks, ReleasedEnded, Ended
    <2>8. k \in granted[s][i] /\ IsFront(i, queue[s][k])
        BY <2>6, <2>7, HolderIsFront
    <2>9. pc'[s][i] = "ok"
        BY <2>3, <2>4 DEF Goto, LockIInv, LockType
    <2> QED BY <2>3, <2>4, <2>8, <2>9
<1> QED BY <1>1, LocksInvariant, StoreShapeInvariant, PTL DEF Spec, WritesUnderLock
=============================================================================
