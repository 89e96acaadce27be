---------------------------- MODULE LockingBatch ----------------------------
(***************************************************************************)
(* One batch under deterministic locking, on all shards at once.           *)
(*                                                                         *)
(* This is execute_calvin_batch with its TxWorker, and the fallback phase  *)
(* of the Aria scheduler, execute_aria_fallback_batch with its             *)
(* AriaFallbackWorker, which is the same algorithm with other active       *)
(* shards: Scheduler chooses between the two.  A batch is executed as a    *)
(* whole or, in a fallback, only those of its transactions that are in     *)
(* members[s], the failed ones as shard s knows them.  Each shard has a    *)
(* coordinator (the batch executor task), one worker task per transaction  *)
(* that concerns it, a lock table, a registry of read-result mailboxes, an *)
(* inode store and a registry of client-visible results.                   *)
(*                                                                         *)
(* A transaction is named by its position in the batch.  RPCs between      *)
(* shards may fail up to MaxRpcFailures times, before or after delivery;   *)
(* the code turns that into an error of the sending worker.                *)
(***************************************************************************)
EXTENDS Router

CONSTANTS Scheduler,        \* "CalvinLocking" or "Aria"
          Batches,          \* the batches that may arrive
          InitialStates,    \* the cluster states they may find
          MaxBatchLen,      \* bound on their length
          MaxRpcFailures    \* bound on failing RPCs

\* validate_batch_order: no tx_id occurs twice.
ASSUME BatchAssumption ==
    /\ Scheduler \in {"CalvinLocking", "Aria"}
    /\ \A b \in Batches : \A i, j \in DOMAIN b : b[i].tx_id = b[j].tx_id => i = j
    /\ \A b \in Batches : b \in Seq(OrderedTx) /\ Len(b) <= MaxBatchLen
    /\ InitialStates \subseteq State
    /\ MaxRpcFailures \in Nat /\ MaxBatchLen \in Nat

VARIABLES
    batch,       \* the batch
    members,     \* members[s]: the transactions that shard s executes
    serial,      \* history: serial[n] is the reference state after n transactions
    status,      \* status[s]: where the batch executor of shard s is
    store,       \* store[s]: the inode store of shard s
    results,     \* results[s][i]: the TxResultRegistry entry of shard s
    queue,       \* queue[s][k]: transactions in the lock queue of key k
    granted,     \* granted[s][i]: the keys granted to worker i
    released,    \* released[s]: workers whose outcome the coordinator has taken
    pc,          \* pc[s][i]: where worker i of shard s is
    todo,        \* todo[s][i]: shards it still has to send its reads to
    reads,       \* reads[s][i]: the reads it knows
    received,    \* received[s][i]: the remote shards they came from
    mail,        \* mail[s][i]: its mailbox
    stray,       \* stray[s]: read results in mailboxes that nobody will take
    outcome,     \* outcome[s][i]: the result it computed
    rpcFailures  \* RPCs that have failed

history   == <<batch, members, serial>>
shardVars == <<status, store, results, queue, granted, released>>
workVars  == <<pc, todo, reads, received, outcome>>
netVars   == <<mail, stray, rpcFailures>>
vars == <<history, shardVars, workVars, netVars>>

Txs == DOMAIN batch

-----------------------------------------------------------------------------
(* Who takes part *)

Active(i) == IF Scheduler = "Aria" THEN aria_fallback_active_shards(batch[i])
             ELSE ActiveParticipants(batch[i])
ReadSources(i) == IF Scheduler = "Aria" THEN OwnersOf(ReadSet(batch[i]))
                  ELSE AllParticipants(batch[i])
ResultShard(i) == IF Scheduler = "Aria" THEN aria_result_shard(batch[i])
                  ELSE result_shard(batch[i])

LockKeys(s, i) == IF i \in members[s] THEN LocalLockKeys(batch[i], s) ELSE {}
Relevant(s, i) == i \in members[s] /\ (LockKeys(s, i) # {} \/ s \in Active(i))

\* The remote shards that send their reads to an active worker on s.
Expected(s, i) == ReadSources(i) \ {s}

-----------------------------------------------------------------------------
(* The lock table.  enqueue appends in batch order, so the front of a queue *)
(* is its smallest member.                                                  *)

LockRequests(s, k) == {i \in Txs : k \in LockKeys(s, i)}
\* Mutant: the last to enqueue is served first.
IsFront_lifo(i, q) == i \in q /\ \A j \in q : i >= j
IsFront(i, q) == i \in q /\ \A j \in q : i <= j

\* release_and_grant_next pops i from the queues of its local keys and grants
\* each of these keys to the next in line.
Unlock(s, i) ==
    [k \in Keys |-> IF k \in LockKeys(s, i) THEN queue[s][k] \ {i} ELSE queue[s][k]]
\* Mutant: the key is granted to no one.
GrantNext_lost(s, i) == granted[s]
GrantNext(s, i) ==
    [j \in Txs |-> granted[s][j] \cup
                   {k \in LockKeys(s, i) : IsFront(j, queue[s][k] \ {i})}]

\* grant_initial_heads.  Mutant: every request is granted at once.
InitialGrants_all(s, i) == {k \in Keys : i \in LockRequests(s, k)}
InitialGrants(s, i) == {k \in Keys : IsFront(i, LockRequests(s, k))}

-----------------------------------------------------------------------------
(* Client results.  execute_calvin_batch registers its transactions:        *)
(* ensure_pending keeps an entry that exists, mark_not_responsible does     *)
(* not.  For the Aria fallback, execute_aria_batch has done it.             *)

Registered(s, i, entry) ==
    IF ResultShard(i) # s THEN "NotResponsible"
    ELSE IF entry = "absent" THEN "Pending" ELSE entry

RegisterResults(s) ==
    IF Scheduler = "Aria" THEN results[s]
    ELSE [i \in Txs |-> IF i \in members[s] THEN Registered(s, i, results[s][i])
                        ELSE results[s][i]]

InitialResults(s) ==
    [i \in Txs |-> IF Scheduler = "Aria" THEN Registered(s, i, "absent") ELSE "absent"]

-----------------------------------------------------------------------------
Init ==
    /\ batch \in Batches
    /\ members = [s \in Shards |-> Txs]
    /\ \E st \in InitialStates :
          /\ serial = SerialRun(st, [i \in Txs |-> batch[i].op])
          /\ store = [s \in Shards |->
                        [k \in Keys |-> IF Owner[k] = s THEN st[k] ELSE Missing]]
    /\ status = [s \in Shards |-> "waiting"]
    /\ results = [s \in Shards |-> InitialResults(s)]
    /\ queue = [s \in Shards |-> [k \in Keys |-> {}]]
    /\ granted = [s \in Shards |-> [i \in Txs |-> {}]]
    /\ released = [s \in Shards |-> {}]
    /\ pc = [s \in Shards |-> [i \in Txs |-> "none"]]
    /\ todo = [s \in Shards |-> [i \in Txs |-> {}]]
    /\ reads = [s \in Shards |-> [i \in Txs |-> << >>]]
    /\ received = [s \in Shards |-> [i \in Txs |-> {}]]
    /\ mail = [s \in Shards |-> [i \in Txs |-> {}]]
    /\ stray = [s \in Shards |-> {}]
    /\ outcome = [s \in Shards |-> [i \in Txs |-> "none"]]
    /\ rpcFailures = 0

-----------------------------------------------------------------------------
(* The coordinator of shard s *)

\* ExecuteBatch reaches the executor: it fills the lock table, registers the
\* results, takes the mailboxes and spawns the workers in batch order, then
\* grants every key to the front of its queue.  No worker moves before that,
\* so the loop is one step.
StartBatch(s) ==
    /\ status[s] = "waiting"
    /\ status' = [status EXCEPT ![s] = "running"]
    /\ results' = [results EXCEPT ![s] = RegisterResults(s)]
    /\ queue' = [queue EXCEPT ![s] = [k \in Keys |-> LockRequests(s, k)]]
    /\ granted' = [granted EXCEPT ![s] = [i \in Txs |-> InitialGrants(s, i)]]
    /\ pc' = [pc EXCEPT ![s] =
          [i \in Txs |-> IF Relevant(s, i) THEN "locks" ELSE "none"]]
    /\ UNCHANGED <<history, store, released, todo, reads, received, outcome, netVars>>

Ended(s, i) == pc[s][i] \in {"ok", "err"}

\* Mutant: the error of a worker is dropped.
BatchFails_never(s, i) == FALSE
BatchFails(s, i) == pc[s][i] = "err"

\* One outcome from the workers: its locks are passed on first, and only then
\* does an error of the worker (or a release by a transaction that is not at
\* the front) end the batch on this shard.
CollectOutcome(s, i) ==
    /\ status[s] = "running"
    /\ Ended(s, i) /\ i \notin released[s]
    /\ released' = [released EXCEPT ![s] = @ \cup {i}]
    /\ IF \A k \in LockKeys(s, i) : IsFront(i, queue[s][k])
       THEN /\ queue' = [queue EXCEPT ![s] = Unlock(s, i)]
            /\ granted' = [granted EXCEPT ![s] = GrantNext(s, i)]
            /\ status' = IF BatchFails(s, i) THEN [status EXCEPT ![s] = "failed"]
                         ELSE status
       ELSE /\ status' = [status EXCEPT ![s] = "failed"]
            /\ UNCHANGED <<queue, granted>>
    /\ UNCHANGED <<history, store, results, workVars, netVars>>

\* Mutant: one outcome too few is awaited.
AllCollected_butOne(s) ==
    Cardinality({i \in Txs : Relevant(s, i)} \ released[s]) <= 1
AllCollected(s) == \A i \in Txs : Relevant(s, i) => i \in released[s]

\* All outcomes are in; the mailboxes of the batch are dropped and the summary
\* is returned to the sequencer.
FinishBatch(s) ==
    /\ status[s] = "running"
    /\ AllCollected(s)
    /\ status' = [status EXCEPT ![s] = "done"]
    /\ UNCHANGED <<history, store, results, queue, granted, released, workVars, netVars>>

-----------------------------------------------------------------------------
(* Worker i of shard s *)

Goto(s, i, where) == pc' = [pc EXCEPT ![s][i] = where]

\* Where a worker goes when its reads are sent: a passive one is finished.
AfterSend(s, i) == IF s \in Active(i) THEN "collect" ELSE "ok"

\* wait_for_lock_grants, then read_many in one storage transaction.
AcquireAndRead(s, i) ==
    /\ pc[s][i] = "locks"
    /\ granted[s][i] = LockKeys(s, i)
    /\ reads' = [reads EXCEPT ![s][i] =
                    [k \in LocalReadKeys(batch[i], s) |-> store[s][k]]]
    /\ LET targets == IF s \in ReadSources(i) THEN Active(i) \ {s} ELSE {} IN
          /\ todo' = [todo EXCEPT ![s][i] = targets]
          /\ Goto(s, i, IF targets = {} THEN AfterSend(s, i) ELSE "send")
    /\ UNCHANGED <<history, shardVars, received, outcome, netVars>>

\* ReadResultMailboxRegistry::route on shard t.  A mailbox is made on demand
\* when the result comes before the batch; it is closed once the worker that
\* took it has ended; and after cleanup_batch a new one is made that nobody
\* will read.
MailboxClosed(t, i) == status[t] = "running" /\ Ended(t, i)
Route(t, i, msg) ==
    IF status[t] \in {"done", "failed"}
    THEN stray' = [stray EXCEPT ![t] = @ \cup {i}] /\ UNCHANGED mail
    ELSE mail' = [mail EXCEPT ![t][i] = @ \cup {msg}] /\ UNCHANGED stray

\* One LocalReadResult RPC of send_local_reads, to the next active shard.
SendReadResult(s, i) ==
    /\ pc[s][i] = "send"
    /\ \E t \in todo[s][i] :
          /\ \A u \in todo[s][i] : t <= u
          /\ todo' = [todo EXCEPT ![s][i] = @ \ {t}]
          /\ IF MailboxClosed(t, i)
             THEN Goto(s, i, "err") /\ UNCHANGED <<mail, stray>>
             ELSE /\ Route(t, i, [from |-> s, reads |-> reads[s][i]])
                  /\ Goto(s, i, IF todo[s][i] = {t} THEN AfterSend(s, i) ELSE "send")
    /\ UNCHANGED <<history, shardVars, reads, received, outcome, rpcFailures>>

\* The RPC fails, whether or not the peer has handled it.
FailReadResult(s, i) ==
    /\ pc[s][i] = "send"
    /\ rpcFailures < MaxRpcFailures
    /\ rpcFailures' = rpcFailures + 1
    /\ Goto(s, i, "err")
    /\ \E t \in todo[s][i] :
          /\ \A u \in todo[s][i] : t <= u
          /\ \/ UNCHANGED <<mail, stray>>
             \/ ~MailboxClosed(t, i) /\ Route(t, i, [from |-> s, reads |-> reads[s][i]])
    /\ UNCHANGED <<history, shardVars, todo, reads, received, outcome>>

\* The checks of collect_full_reads on a message.
ValidReadResult(s, i, msg) ==
    /\ msg.from \in Expected(s, i) \ received[s][i]
    /\ DOMAIN msg.reads = LocalReadKeys(batch[i], msg.from)
    /\ DOMAIN msg.reads \cap DOMAIN reads[s][i] = {}

\* Mutant: a remote read is taken for a missing inode.
MergeReads_missing(known, new) ==
    [k \in DOMAIN known \cup DOMAIN new |->
        IF k \in DOMAIN new THEN Missing ELSE known[k]]
MergeReads(known, new) ==
    [k \in DOMAIN known \cup DOMAIN new |->
        IF k \in DOMAIN new THEN new[k] ELSE known[k]]

\* One turn of the loop of collect_full_reads.
CollectReadResult(s, i) ==
    /\ pc[s][i] = "collect"
    /\ received[s][i] # Expected(s, i)
    /\ \E msg \in mail[s][i] :
          /\ mail' = [mail EXCEPT ![s][i] = @ \ {msg}]
          /\ IF ValidReadResult(s, i, msg)
             THEN /\ received' = [received EXCEPT ![s][i] = @ \cup {msg.from}]
                  /\ reads' = [reads EXCEPT ![s][i] = MergeReads(@, msg.reads)]
                  /\ UNCHANGED pc
             ELSE Goto(s, i, "err") /\ UNCHANGED <<received, reads>>
    /\ UNCHANGED <<history, shardVars, todo, outcome, stray, rpcFailures>>

\* validate_local_writes
ValidLocalWrites(s, i, writes, kept) ==
    \A w \in kept : writes[w].key \in LocalWriteKeys(batch[i], s)

\* All reads are in: the worker executes, applies its part of the writes, and
\* publishes the result if it is the result shard.
ExecuteAndApply(s, i) ==
    /\ pc[s][i] = "collect"
    /\ received[s][i] = Expected(s, i)
    /\ LET output == ExecuteDeterministic(batch[i].op, reads[s][i])
           kept   == FilterLocalWrites(output.writes, s)
       IN  IF /\ DOMAIN reads[s][i] = ReadSet(batch[i])
              /\ ValidLocalWrites(s, i, output.writes, kept)
           THEN /\ store' = [store EXCEPT ![s] = ApplyWrites(@, output.writes, kept)]
                /\ results' = IF ResultShard(i) = s
                              THEN [results EXCEPT ![s][i] = output.result]
                              ELSE results
                /\ outcome' = [outcome EXCEPT ![s][i] = output.result]
                /\ Goto(s, i, "ok")
           ELSE Goto(s, i, "err") /\ UNCHANGED <<store, results, outcome>>
    /\ UNCHANGED <<history, status, queue, granted, released, todo, reads, received, netVars>>

\* The batch has failed on this shard.  The lock table and the mailbox senders
\* are gone, so a worker that still waits for a grant or for a read result
\* finds its channel closed.  Workers that wait for neither run on.
OrphanFails(s, i) ==
    /\ status[s] = "failed"
    /\ \/ pc[s][i] = "locks" /\ granted[s][i] # LockKeys(s, i)
       \/ pc[s][i] = "collect" /\ received[s][i] # Expected(s, i) /\ mail[s][i] = {}
    /\ Goto(s, i, "err")
    /\ UNCHANGED <<history, shardVars, todo, reads, received, outcome, netVars>>

-----------------------------------------------------------------------------
Coordinator(s) == \/ StartBatch(s)
                  \/ \E i \in Txs : CollectOutcome(s, i)
                  \/ FinishBatch(s)

Worker(s, i) == \/ AcquireAndRead(s, i)
                \/ SendReadResult(s, i)
                \/ CollectReadResult(s, i)
                \/ ExecuteAndApply(s, i)
                \/ OrphanFails(s, i)

Next == \E s \in Shards :
           \/ Coordinator(s)
           \/ \E i \in Txs : Worker(s, i) \/ FailReadResult(s, i)

Spec == Init /\ [][Next]_vars

\* Tasks that can run are run, and the dispatcher has sent the batch to every
\* shard: as long as some task can go on, one of them does.  That is less than
\* the runtime gives, which schedules every ready task, and it is enough since
\* a batch has finitely many steps.  RPC failures are not forced to happen.
TaskStep == \E s \in Shards : Coordinator(s) \/ \E i \in Txs : Worker(s, i)
FairSpec == Spec /\ WF_vars(TaskStep)

-----------------------------------------------------------------------------
(* Properties *)

\* A map from some keys to what was read there.
IsReadMap(r) == DOMAIN r \subseteq Keys /\ r \in [DOMAIN r -> ReadValue]
IsMessage(m) == m = [from |-> m.from, reads |-> m.reads] /\ m.from \in Shards /\ IsReadMap(m.reads)

TypeOK ==
    /\ batch \in Batches
    /\ members \in [Shards -> SUBSET Txs]
    /\ serial \in [0 .. Len(batch) -> State]
    /\ status \in [Shards -> {"waiting", "running", "done", "failed"}]
    /\ store \in [Shards -> State]
    /\ results \in [Shards -> [Txs -> {"absent", "Pending", "NotResponsible"} \cup TxResult]]
    /\ queue \in [Shards -> [Keys -> SUBSET Txs]]
    /\ granted \in [Shards -> [Txs -> SUBSET Keys]]
    /\ released \in [Shards -> SUBSET Txs]
    /\ pc \in [Shards -> [Txs -> {"none", "locks", "send", "collect", "ok", "err"}]]
    /\ todo \in [Shards -> [Txs -> SUBSET Shards]]
    /\ \A s \in Shards, i \in Txs : IsReadMap(reads[s][i])
    /\ received \in [Shards -> [Txs -> SUBSET Shards]]
    /\ \A s \in Shards, i \in Txs : \A m \in mail[s][i] : IsMessage(m)
    /\ stray \in [Shards -> SUBSET Txs]
    /\ outcome \in [Shards -> [Txs -> {"none"} \cup TxResult]]
    /\ rpcFailures \in 0 .. MaxRpcFailures

\* No worker has failed, and so no shard has given up on the batch.
NoFailure == \A s \in Shards :
                status[s] # "failed" /\ \A i \in Txs : pc[s][i] # "err"

\* Every value a worker has read, itself or from a peer, is the one that the
\* serial execution of the batch would show to its transaction, whatever the
\* order in which shards start, locks are granted and read results arrive
\* (TxWorker::run, release_and_grant_next).
ReadsAreSerial ==
    NoFailure => \A s \in Shards, i \in Txs : \A k \in DOMAIN reads[s][i] :
                    reads[s][i][k] = serial[i - 1][k]

\* A client that is told Ready(r) is told the result of the serial execution
\* (mark_ready), on the one shard that SubmitTx named.
PublishedIsSerial ==
    NoFailure => \A s \in Shards, i \in Txs :
        results[s][i] \in TxResult =>
            /\ s = ResultShard(i)
            /\ results[s][i] = ReferenceOutput(serial[i - 1], batch[i].op).result

\* When every shard has answered Ok, the merged shard states are the state of
\* the reference executor and no shard holds a key of another: what the
\* sequencer relies on when it logs the batch, and the checker when it replays
\* the log (merge_shard_states, assert_state_matches).  RPC failures included:
\* a batch that they touched is not answered Ok everywhere.
CompletedIsSerial ==
    (\A s \in Shards : status[s] = "done") =>
        \A s \in Shards, k \in Keys :
            store[s][k] = IF Owner[k] = s THEN serial[Len(batch)][k] ELSE Missing

\* The active shards of a transaction compute one and the same result from
\* the reads they exchange, although each of them reads and executes on its
\* own, and although some peer may have failed (assert_tx_results_consistent).
OutcomesAgree ==
    \A s, t \in Shards, i \in Txs :
        outcome[s][i] # "none" /\ outcome[t][i] # "none" =>
            outcome[s][i] = outcome[t][i]

\* When the coordinator takes the outcome of a worker, that transaction is at
\* the front of all its lock queues: release_and_grant_next never meets its
\* LockInvariant error, not even after a failure.
ReleaseFindsFront ==
    \A s \in Shards, i \in Txs :
        status[s] = "running" /\ Ended(s, i) /\ i \notin released[s] =>
            \A k \in LockKeys(s, i) : IsFront(i, queue[s][k])

\* A shard that has finished the batch left no read result behind, and none
\* comes later: the mailboxes that cleanup_batch drops are empty and route
\* never makes a new one for a finished batch.
NoLateReadResult ==
    \A s \in Shards : status[s] = "done" =>
        stray[s] = {} /\ \A i \in Txs : mail[s][i] = {}

\* A shard that has finished the batch has published the results that clients
\* of SubmitTx were told to fetch from it: no GetTxResult waits for a result
\* that no worker is left to produce.
DoneIsPublished ==
    \A s \in Shards : status[s] = "done" =>
        \A i \in Txs : ResultShard(i) = s => results[s][i] \in TxResult

\* An inode only changes under the lock of its key: the step is that of a
\* worker that has been granted the key and is the front of its queue.
WritesUnderLock ==
    [][\A s \in Shards, k \in Keys : store'[s][k] # store[s][k] =>
          \E i \in Txs : /\ pc[s][i] = "collect" /\ pc'[s][i] = "ok"
                         /\ k \in granted[s][i] /\ IsFront(i, queue[s][k])]_vars

\* Without RPC failures no shard waits for ever, neither for a lock nor for a
\* read result, and all of them answer Ok.
EventuallyDone == <>(\A s \in Shards : status[s] = "done")
=============================================================================
