----------------------------- MODULE Sequencer -----------------------------
(***************************************************************************)
(* The sequencer (SequencerRuntime in src/engine.rs): clients send commands *)
(* over a bounded channel to one actor, which numbers transactions and     *)
(* groups them into batches; sealed batches go over a second bounded       *)
(* channel to the dispatcher, which sends each to all shards and waits for *)
(* their answers.  A shard executes the batches it gets one at a time, in  *)
(* the order of arrival (run_batch_executor); how it does so is the        *)
(* subject of LockingBatch.                                                *)
(*                                                                         *)
(* A transaction is its tx_id.  The calls of a shard may fail up to        *)
(* MaxFailures times: the RPC, the batch, or the answer.                   *)
(***************************************************************************)
EXTENDS Integers, Sequences, SequencesExt

CONSTANTS ClientCount,            \* requests that clients make, one each
          Requests,               \* what they ask for
          ShardCount,
          max_batch_size,
          CommandCapacity,        \* SEQUENCER_COMMAND_CAPACITY
          QueueCapacity,          \* BATCH_QUEUE_CAPACITY
          MaxFailures

Clients == 1 .. ClientCount
Shards  == 0 .. ShardCount - 1

\* SubmitTx asks for one transaction, SubmitBatch for size of them.
SubmitTx          == [kind |-> "SubmitTx", size |-> 1]
SubmitBatch(size) == [kind |-> "SubmitBatch", size |-> size]

ASSUME SequencerAssumption ==
    /\ ClientCount \in Nat /\ ShardCount \in Nat \ {0}
    /\ max_batch_size \in Nat \ {0}
    /\ CommandCapacity \in Nat \ {0} /\ QueueCapacity \in Nat \ {0}
    /\ MaxFailures \in Nat
    /\ \A r \in Requests : r = SubmitTx \/ (r.size \in Nat /\ r = SubmitBatch(r.size))

VARIABLES
    client,         \* client[c]: what request c has been answered
    command_queue,  \* the command channel
    next_batch_id, next_tx_id,
    open_batch,     \* the open batch, NoBatch if there is none
    timers,         \* batch ids whose flush timer has not sent its command
    outbox,         \* batches the actor is about to send to the dispatcher
    owed,           \* the client to answer once outbox is sent, or NoClient
    dispatch_queue, \* the channel to the dispatcher
    job,            \* the batch the dispatcher waits for, or NoBatch
    transit,        \* transit[s]: batches on their way to shard s
    inbox,          \* inbox[s]: batches queued at shard s
    executed,       \* executed[s]: batches that shard s has executed
    answer,         \* answer[s]: the answer of shard s to the current job
    batch_log,      \* the batches that every shard answered Ok
    finished,       \* history: the jobs the dispatcher is done with
    failures        \* calls that have failed

actorVars    == <<next_batch_id, next_tx_id, open_batch, outbox, owed>>
dispatchVars == <<job, answer, batch_log, finished>>
shardVars    == <<transit, inbox, executed, failures>>
vars == <<client, command_queue, timers, actorVars, dispatch_queue, dispatchVars, shardVars>>

NoBatch  == [batch_id |-> 0, txs |-> << >>]
NoClient == 0

-----------------------------------------------------------------------------
Init ==
    /\ client = [c \in Clients |-> [status |-> "idle", txs |-> << >>]]
    /\ command_queue = << >>
    /\ next_batch_id = 1 /\ next_tx_id = 1
    /\ open_batch = NoBatch
    /\ timers = {}
    /\ outbox = << >> /\ owed = NoClient
    /\ dispatch_queue = << >>
    /\ job = NoBatch
    /\ transit = [s \in Shards |-> {}]
    /\ inbox = [s \in Shards |-> << >>]
    /\ executed = [s \in Shards |-> << >>]
    /\ answer = [s \in Shards |-> "none"]
    /\ batch_log = << >> /\ finished = << >>
    /\ failures = 0

-----------------------------------------------------------------------------
(* Senders of commands *)

\* Mutant: one place too many.
HasRoom_off(channel, capacity) == Len(channel) <= capacity
HasRoom(channel, capacity) == Len(channel) < capacity

\* submit_tx and submit_ops.  Clients are alike, so they come in their order.
Submit(c) ==
    /\ client[c].status = "idle"
    /\ \A d \in Clients : d < c => client[d].status # "idle"
    /\ HasRoom(command_queue, CommandCapacity)
    /\ \E r \in Requests :
          command_queue' = Append(command_queue, [kind |-> r.kind, arg |-> r.size, from |-> c])
    /\ client' = [client EXCEPT ![c].status = "waiting"]
    /\ UNCHANGED <<timers, actorVars, dispatch_queue, dispatchVars, shardVars>>

\* The timer of spawn_flush_timer runs out.
FlushTimer(b) ==
    /\ b \in timers
    /\ HasRoom(command_queue, CommandCapacity)
    /\ command_queue' = Append(command_queue, [kind |-> "FlushOpen", arg |-> b, from |-> NoClient])
    /\ timers' = timers \ {b}
    /\ UNCHANGED <<client, actorVars, dispatch_queue, dispatchVars, shardVars>>

-----------------------------------------------------------------------------
(* The actor: run_sequencer_actor takes one command at a time, and a handler *)
(* that sends to the dispatcher waits there while the channel is full.       *)

Receives(kind) ==
    /\ outbox = << >>
    /\ command_queue # << >>
    /\ Head(command_queue).kind = kind
    /\ command_queue' = Tail(command_queue)

Job(batch, c) == [batch_id |-> batch.batch_id, txs |-> batch.txs, client |-> c]

\* seal_open_batch takes the open batch, if there is one, for the dispatcher.
Sealed(open) == IF open = NoBatch THEN << >> ELSE << Job(open, NoClient) >>

IsFull(txs) == Len(txs) >= max_batch_size

\* ensure_open_batch starts a batch and its timer when none is open.
handle_submit_tx ==
    /\ Receives("SubmitTx")
    /\ LET c      == Head(command_queue).from
           fresh  == open_batch = NoBatch
           opened == [batch_id |-> IF fresh THEN next_batch_id ELSE open_batch.batch_id,
                      txs |-> Append(open_batch.txs, next_tx_id)]
       IN  /\ next_batch_id' = IF fresh THEN next_batch_id + 1 ELSE next_batch_id
           /\ timers' = IF fresh THEN timers \cup {next_batch_id} ELSE timers
           /\ IF IsFull(opened.txs)
              THEN /\ open_batch' = NoBatch
                   /\ outbox' = Sealed(opened)
                   /\ owed' = c
                   /\ client' = [client EXCEPT ![c].txs = <<next_tx_id>>]
              ELSE /\ open_batch' = opened
                   /\ client' = [client EXCEPT ![c] = [status |-> "acked", txs |-> <<next_tx_id>>]]
                   /\ UNCHANGED <<outbox, owed>>
    /\ next_tx_id' = next_tx_id + 1
    /\ UNCHANGED <<dispatch_queue, dispatchVars, shardVars>>

\* Mutant: a submitted batch overtakes the open one.
SealedFirst_not(open, batch) == <<batch>> \o Sealed(open)
SealedFirst(open, batch) == Sealed(open) \o <<batch>>

handle_submit_batch ==
    /\ Receives("SubmitBatch")
    /\ LET c    == Head(command_queue).from
           size == Head(command_queue).arg
           ids  == [n \in 1 .. size |-> next_tx_id + n - 1]
       IN  IF size > max_batch_size
           THEN /\ client' = [client EXCEPT ![c].status = "err"]
                /\ UNCHANGED actorVars
           ELSE /\ outbox' = SealedFirst(open_batch,
                                Job([batch_id |-> next_batch_id, txs |-> ids], c))
                /\ open_batch' = NoBatch
                /\ next_batch_id' = next_batch_id + 1
                /\ next_tx_id' = next_tx_id + size
                /\ client' = [client EXCEPT ![c].txs = ids]
                /\ UNCHANGED owed
    /\ UNCHANGED <<timers, dispatch_queue, dispatchVars, shardVars>>

\* Mutants: the flush of a full batch is ignored, and so is every other one; a
\* flush seals whatever is open.
FlushApplies_never(b) == FALSE
FlushApplies_any(b) == open_batch # NoBatch
FlushApplies(b) == open_batch # NoBatch /\ open_batch.batch_id = b

\* FlushOpen of a batch that has been sealed meanwhile does nothing.
handle_flush_open ==
    /\ Receives("FlushOpen")
    /\ IF FlushApplies(Head(command_queue).arg)
       THEN outbox' = Sealed(open_batch) /\ open_batch' = NoBatch
       ELSE UNCHANGED <<outbox, open_batch>>
    /\ UNCHANGED <<client, timers, next_batch_id, next_tx_id, owed,
                   dispatch_queue, dispatchVars, shardVars>>

\* Mutant: the reply of a SubmitTx that filled its batch is forgotten.
AckIsDue_never(rest) == FALSE
AckIsDue(rest) == rest = << >> /\ owed # NoClient

\* dispatch_batch; the handler of SubmitTx answers when it comes back.
dispatch_batch ==
    /\ outbox # << >>
    /\ HasRoom(dispatch_queue, QueueCapacity)
    /\ dispatch_queue' = Append(dispatch_queue, Head(outbox))
    /\ outbox' = Tail(outbox)
    /\ IF AckIsDue(Tail(outbox))
       THEN client' = [client EXCEPT ![owed].status = "acked"] /\ owed' = NoClient
       ELSE UNCHANGED <<client, owed>>
    /\ UNCHANGED <<command_queue, timers, next_batch_id, next_tx_id, open_batch,
                   dispatchVars, shardVars>>

-----------------------------------------------------------------------------
(* The dispatcher *)

\* run_batch_dispatcher takes a job and send_batch_to_all_shards spawns a task
\* with a connection of its own for every shard.
TakeJob ==
    /\ job = NoBatch
    /\ dispatch_queue # << >>
    /\ job' = Head(dispatch_queue)
    /\ dispatch_queue' = Tail(dispatch_queue)
    /\ transit' = [s \in Shards |-> transit[s] \cup {job'.batch_id}]
    /\ answer' = [s \in Shards |-> "none"]
    /\ UNCHANGED <<client, command_queue, timers, actorVars, batch_log, finished,
                   inbox, executed, failures>>

\* The answers are awaited in the order of the shards.
\* Mutant: the answer of the last shard is not awaited.
AllOk_butLast == \A s \in Shards : s < ShardCount - 1 => answer[s] = "ok"
AllOk == \A s \in Shards : answer[s] = "ok"
FirstError == \E s \in Shards : /\ answer[s] = "err"
                                /\ \A t \in Shards : t < s => answer[t] = "ok"

Reply(ok) == IF ok THEN "ok" ELSE "err"

\* The batch is logged if all shards answered Ok, and the reply is sent if the
\* batch came from SubmitBatch.
FinishJob ==
    /\ job # NoBatch
    /\ AllOk \/ FirstError
    /\ batch_log' = IF AllOk THEN Append(batch_log, [batch_id |-> job.batch_id, txs |-> job.txs])
                    ELSE batch_log
    /\ finished' = Append(finished, [batch_id |-> job.batch_id, txs |-> job.txs, ok |-> AllOk])
    /\ client' = IF job.client = NoClient THEN client
                 ELSE [client EXCEPT ![job.client].status = Reply(AllOk)]
    /\ job' = NoBatch
    /\ answer' = [s \in Shards |-> "none"]
    /\ UNCHANGED <<command_queue, timers, actorVars, dispatch_queue, shardVars>>

-----------------------------------------------------------------------------
(* Shard s, and the calls to it *)

\* Only the task that waits for this very call takes the answer, and only once.
Answers(s, b, how) ==
    answer' = IF job.batch_id = b /\ answer[s] = "none" THEN [answer EXCEPT ![s] = how]
              ELSE answer

\* ShardRuntime::execute_batch queues the batch for the executor.
Deliver(s, b) ==
    /\ b \in transit[s]
    /\ transit' = [transit EXCEPT ![s] = @ \ {b}]
    /\ inbox' = [inbox EXCEPT ![s] = Append(@, b)]
    /\ UNCHANGED <<client, command_queue, timers, actorVars, dispatch_queue, dispatchVars,
                   executed, failures>>

\* The executor has executed the first batch of its queue.
ExecuteBatch(s) ==
    /\ inbox[s] # << >>
    /\ inbox' = [inbox EXCEPT ![s] = Tail(@)]
    /\ executed' = [executed EXCEPT ![s] = Append(@, Head(inbox[s]))]
    /\ Answers(s, Head(inbox[s]), "ok")
    /\ UNCHANGED <<client, command_queue, timers, actorVars, dispatch_queue,
                   job, batch_log, finished, transit, failures>>

\* A call fails: the batch does not arrive, or the shard answers Err, or the
\* answer is lost although the batch is at the shard.
FailCall(s) ==
    /\ failures < MaxFailures
    /\ failures' = failures + 1
    /\ \/ \E b \in transit[s] : /\ transit' = [transit EXCEPT ![s] = @ \ {b}]
                                /\ Answers(s, b, "err")
                                /\ UNCHANGED inbox
       \/ /\ inbox[s] # << >>
          /\ inbox' = [inbox EXCEPT ![s] = Tail(@)]
          /\ Answers(s, Head(inbox[s]), "err")
          /\ UNCHANGED transit
       \/ /\ job # NoBatch /\ answer[s] = "none"
          /\ Contains(inbox[s], job.batch_id)
          /\ Answers(s, job.batch_id, "err")
          /\ UNCHANGED <<transit, inbox>>
    /\ UNCHANGED <<client, command_queue, timers, actorVars, dispatch_queue,
                   job, batch_log, finished, executed>>

-----------------------------------------------------------------------------
Actor      == handle_submit_tx \/ handle_submit_batch \/ handle_flush_open \/ dispatch_batch
Dispatcher == TakeJob \/ FinishJob
Timers     == \E b \in timers : FlushTimer(b)
Shard(s)   == ExecuteBatch(s) \/ \E b \in transit[s] : Deliver(s, b)

Next == \/ \E c \in Clients : Submit(c)
        \/ Actor \/ Dispatcher \/ Timers
        \/ \E s \in Shards : Shard(s) \/ FailCall(s)

Spec == Init /\ [][Next]_vars

\* The tasks of the sequencer run when they can; nothing is said of shards.
SequencerFairSpec == Spec /\ WF_vars(Actor) /\ WF_vars(Dispatcher) /\ WF_vars(Timers)

\* Shards answer too, as long as no call fails: where a shard does not get a
\* batch or gives up on it, its peers wait for its reads without a timeout
\* (collect_full_reads), and so do all batches behind it.
FairSpec == SequencerFairSpec /\ \A s \in Shards : WF_vars(failures = 0 /\ Shard(s))

-----------------------------------------------------------------------------
(* Properties *)

BatchId == 0 .. next_batch_id - 1

TypeOK ==
    /\ client \in [Clients -> [status : {"idle", "waiting", "acked", "ok", "err"},
                               txs : Seq(1 .. next_tx_id - 1)]]
    /\ Len(command_queue) <= CommandCapacity
    /\ next_batch_id \in Nat \ {0} /\ next_tx_id \in Nat \ {0}
    /\ open_batch.batch_id \in BatchId
    /\ timers \subseteq BatchId
    /\ owed \in Clients \cup {NoClient}
    /\ Len(dispatch_queue) <= QueueCapacity
    /\ transit \in [Shards -> SUBSET BatchId]
    /\ inbox \in [Shards -> Seq(BatchId)]
    /\ executed \in [Shards -> Seq(BatchId)]
    /\ answer \in [Shards -> {"none", "ok", "err"}]
    /\ failures \in 0 .. MaxFailures

\* Every batch that has been given an id, from the oldest to the youngest.
Pipeline == finished \o (IF job = NoBatch THEN << >> ELSE <<job>>)
            \o dispatch_queue \o outbox \o Sealed(open_batch)

\* No transaction is lost, doubled or overtaken on its way from the command
\* channel to the log: at any moment, what the dispatcher has finished, what it
\* works on, what is queued and what is open are, in this order, the batches
\* 1, 2, 3 ... with the transactions 1, 2, 3 ..., whichever of SubmitTx,
\* SubmitBatch, a full batch or a flush timer sealed them; and none of them holds
\* more than max_batch_size transactions.
PipelineInOrder ==
    /\ \A n \in DOMAIN Pipeline : Len(Pipeline[n].txs) <= max_batch_size
    /\ \A n \in DOMAIN Pipeline : Pipeline[n].batch_id = n
    /\ Len(Pipeline) = next_batch_id - 1
    /\ LET ids == FlattenSeq([n \in DOMAIN Pipeline |-> Pipeline[n].txs])
       IN  ids = [n \in 1 .. next_tx_id - 1 |-> n]

\* A logged batch has been executed by every shard, once, and in the order of the
\* log on each of them, failed calls or not.  (Unlogged batches in between may have
\* been executed by some shards: the log is all that happened only without them.)
LogIsExecuted ==
    \A s \in Shards :
        /\ \A n \in DOMAIN batch_log : Contains(executed[s], batch_log[n].batch_id)
        /\ \A n, m \in DOMAIN batch_log, i, j \in DOMAIN executed[s] :
              /\ executed[s][i] = batch_log[n].batch_id
              /\ executed[s][j] = batch_log[m].batch_id
              => (n < m <=> i < j)

\* A client of SubmitBatch is told Ok only when its transactions are in the
\* log as one batch (run_batch_dispatcher).
OkIsLogged ==
    \A c \in Clients : client[c].status = "ok" =>
        \E n \in DOMAIN batch_log : batch_log[n].txs = client[c].txs

\* The dispatcher waits for the answers of all shards to a batch before it
\* sends the next one: while a batch is being dispatched, no other is on its way
\* to a shard or queued there.
BatchBarrier ==
    job # NoBatch =>
        \A s \in Shards : transit[s] \cup ToSet(inbox[s]) \subseteq {job.batch_id}

\* That is so as long as no call has failed: neither a full channel nor a late
\* answer makes two batches overlap.
BarrierWithoutFailures == failures = 0 => BatchBarrier

\* The flush timer of batch b still runs, or its command waits for the actor.
FlushPending(b) ==
    \/ b \in timers
    \/ \E n \in DOMAIN command_queue :
          command_queue[n].kind = "FlushOpen" /\ command_queue[n].arg = b

Dispatched == (IF job = NoBatch THEN << >> ELSE <<job>>) \o dispatch_queue \o outbox

\* A batch of submitted transactions that was sealed below its size before its own
\* flush came was sealed by the SubmitBatch behind it, and never by the late flush
\* of an earlier batch (the comparison of batch ids in handle_flush_open).
FlushSealsItsBatch ==
    \A n \in DOMAIN Dispatched :
        LET sealed == Dispatched[n] IN
        sealed.client = NoClient /\ ~IsFull(sealed.txs) /\ FlushPending(sealed.batch_id) =>
            n < Len(Dispatched) /\ Dispatched[n + 1].client # NoClient

\* While no call has failed every request is answered, although the actor waits
\* for the dispatcher while its channel is full, and clients and timers wait for
\* the actor likewise.  After a failed call the dispatcher may wait for ever.
EveryRequestAnswered ==
    \A c \in Clients : client[c].status = "waiting" ~>
        client[c].status \in {"acked", "ok", "err"} \/ failures > 0

\* A transaction that SubmitTx acknowledged gets into the log, by a full batch, by
\* a SubmitBatch behind it or by its timer, with no later request needed; unless a
\* call fails before.
AckedIsLogged ==
    \A c \in Clients : client[c].status = "acked" ~>
        \/ \E n \in DOMAIN batch_log : ToSet(client[c].txs) \subseteq ToSet(batch_log[n].txs)
        \/ failures > 0

\* SubmitTx answers once the transaction is numbered and in a batch; it does
\* not wait for shards to execute anything.
SubmitTxDoesNotWait ==
    \A c \in Clients : client[c].status = "waiting" ~> client[c].status # "waiting"
=============================================================================
