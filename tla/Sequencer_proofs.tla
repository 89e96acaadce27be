-------------------------- MODULE Sequencer_proofs --------------------------
(***************************************************************************)
(* The sequencer, for every number of clients, requests, shards and call   *)
(* failures and for every capacity of its channels: the pipeline from the  *)
(* command channel to the log keeps batches and transactions in order, the *)
(* log is what the shards have executed, and Ok means logged.              *)
(*                                                                         *)
(* The argument: the batches that have an id lie one behind the other in   *)
(* finished, job, dispatch_queue, outbox and open_batch, and every step    *)
(* moves one along or adds one at the end, with the next transactions.     *)
(* So a shard gets each batch once, a batch that is answered Ok is         *)
(* executed behind everything logged before it was sent, and the client of *)
(* a batch has no other request under way.                                 *)
(***************************************************************************)
EXTENDS Sequencer, SequenceTheorems, WellFoundedInduction, NaturalsInduction, TLAPS

-----------------------------------------------------------------------------
(* The inductive invariant: types *)

Sender   == Clients \cup {NoClient}
BatchRec == [batch_id : Nat, txs : Seq(Nat)]
JobRec   == [batch_id : Nat \ {0}, txs : Seq(Nat), client : Sender]
DoneRec  == [batch_id : Nat, txs : Seq(Nat), ok : BOOLEAN]
Command  == [kind : {"SubmitTx", "SubmitBatch", "FlushOpen"}, arg : Nat, from : Sender]
Status   == {"idle", "waiting", "acked", "ok", "err"}

\* FlushOpen is the command without a client.
CommandsTyped ==
    /\ command_queue \in Seq(Command)
    /\ \A i \in DOMAIN command_queue :
          command_queue[i].from = NoClient <=> command_queue[i].kind = "FlushOpen"

Shapes ==
    /\ client \in [Clients -> [status : Status, txs : Seq(Nat)]]
    /\ CommandsTyped
    /\ next_batch_id \in Nat \ {0} /\ next_tx_id \in Nat \ {0}
    /\ open_batch \in BatchRec /\ (open_batch = NoBatch \/ open_batch.batch_id # 0)
    /\ outbox \in Seq(JobRec) /\ dispatch_queue \in Seq(JobRec)
    /\ job = NoBatch \/ job \in JobRec
    /\ finished \in Seq(DoneRec) /\ batch_log \in Seq(BatchRec)
    /\ timers \subseteq Nat /\ owed \in Sender

(* The inductive invariant: the pipeline *)

\* How many batches have got how far.
Taken  == Len(finished) + (IF job = NoBatch THEN 0 ELSE 1)
Queued == Taken + Len(dispatch_queue)
Closed == Queued + Len(outbox)
Live   == Closed + (IF open_batch = NoBatch THEN 0 ELSE 1)

\* The n-th batch of the pipeline, wherever it is.
At(n) == IF n <= Len(finished) THEN finished[n]
         ELSE IF n <= Taken THEN job
         ELSE IF n <= Queued THEN dispatch_queue[n - Taken]
         ELSE IF n <= Closed THEN outbox[n - Queued]
         ELSE open_batch

AllBatches == 1 .. next_batch_id - 1

\* Batch n holds the transactions start[n], start[n] + 1 ... up to start[n + 1].
Consecutive(start) ==
    /\ start[1] = 1 /\ start[next_batch_id] = next_tx_id
    /\ \A n \in AllBatches :
          /\ start[n + 1] = start[n] + Len(At(n).txs)
          /\ \A k \in 1 .. Len(At(n).txs) : At(n).txs[k] = start[n] + k - 1

PipelineInv ==
    /\ next_batch_id = Live + 1
    /\ \A n \in AllBatches : At(n).batch_id = n /\ Len(At(n).txs) <= max_batch_size
    /\ Len(open_batch.txs) < max_batch_size    \* an open batch has room

TxInv == \E start \in [1 .. next_batch_id -> Nat \ {0}] : Consecutive(start)

(* The inductive invariant: shards *)

\* Of the batches 1 .. n, each is in the set t, the queue q or the history e at
\* most once.
Once(n, t, q, e) ==
    /\ t \subseteq 1 .. n /\ q \in Seq(1 .. n) /\ e \in Seq(1 .. n)
    /\ \A i \in 1 .. Len(q) : q[i] \notin t
    /\ \A i \in 1 .. Len(e) : e[i] \notin t
    /\ \A i \in 1 .. Len(q), j \in 1 .. Len(e) : q[i] # e[j]
    /\ \A i, j \in 1 .. Len(q) : q[i] = q[j] => i = j
    /\ \A i, j \in 1 .. Len(e) : e[i] = e[j] => i = j

\* A batch is on its way, queued or executed at a shard at most once.
OnceOnly(s) == Once(Taken, transit[s], inbox[s], executed[s])

ShardTypes ==
    /\ transit \in [Shards -> SUBSET Nat]
    /\ inbox \in [Shards -> Seq(Nat)] /\ executed \in [Shards -> Seq(Nat)]
    /\ answer \in [Shards -> {"none", "ok", "err"}]
    /\ failures \in 0 .. MaxFailures

\* A batch that shard s answered Ok is executed there, behind everything logged.
LogInv(s) ==
    /\ answer[s] = "ok" => job # NoBatch /\ Contains(executed[s], job.batch_id)
    /\ \A n \in DOMAIN batch_log : /\ batch_log[n].batch_id \in 1 .. Len(finished)
                                   /\ Contains(executed[s], batch_log[n].batch_id)
    /\ \A n, m \in DOMAIN batch_log, i, j \in DOMAIN executed[s] :
          /\ executed[s][i] = batch_log[n].batch_id
          /\ executed[s][j] = batch_log[m].batch_id
          /\ n < m
          => i < j
    /\ \A n \in DOMAIN batch_log, i, j \in DOMAIN executed[s] :
          /\ job # NoBatch
          /\ executed[s][i] = batch_log[n].batch_id
          /\ executed[s][j] = job.batch_id
          => i < j

\* As long as no call has failed.
CleanInv(s) ==
    failures = 0 =>
        /\ answer[s] # "err"
        /\ job = NoBatch \/ answer[s] # "none" => transit[s] = {} /\ inbox[s] = << >>
        /\ job # NoBatch => transit[s] \subseteq {job.batch_id} /\ inbox[s] \in Seq({job.batch_id})

ShardInv == ShardTypes /\ \A s \in Shards : OnceOnly(s) /\ LogInv(s) /\ CleanInv(s)

(* The inductive invariant: clients *)

Jobs == ToSet(dispatch_queue) \cup ToSet(outbox) \cup (IF job = NoBatch THEN {} ELSE {job})

Asking(c) == \E i \in DOMAIN command_queue : command_queue[i].from = c

\* The clients whose commands are queued wait, and each has queued one command.
QueueInv ==
    /\ \A c \in Clients : Asking(c) => client[c].status = "waiting"
    /\ \A i, j \in DOMAIN command_queue :
          command_queue[i].from = command_queue[j].from =>
              i = j \/ command_queue[i].from = NoClient

\* The client of a batch on its way has asked for just these transactions.
JobsInv ==
    \A j \in Jobs : j.client # NoClient =>
        /\ client[j.client].txs = j.txs /\ client[j.client].status # "idle"
        /\ ~Asking(j.client)

OwedInv == owed # NoClient => client[owed].status # "idle" /\ ~Asking(owed)

ClientInv == QueueInv /\ JobsInv /\ OwedInv /\ OkIsLogged

\* The bounds of the channels, and of the identifiers in timers and replies.
BoundsInv ==
    /\ Len(command_queue) <= CommandCapacity /\ Len(dispatch_queue) <= QueueCapacity
    /\ timers \subseteq BatchId
    /\ \A c \in Clients : client[c].txs \in Seq(1 .. next_tx_id - 1)

-----------------------------------------------------------------------------
(* Sequences of consecutive numbers *)

\* A nonempty set of naturals has a least element.
LEMMA LeastOf ==
    ASSUME NEW T, T \subseteq Nat, T # {}
    PROVE  \E x \in T : \A y \in T : x <= y
<1> DEFINE R == {ss \in Nat \X Nat : ss[1] < ss[2]}
<1>1. IsWellFoundedOn(R, Nat)
    BY NatLessThanWellFounded DEF OpToRel
<1>2. \E x \in T : \A y \in T : ~(<<y, x>> \in R)
    BY <1>1, WFMin
<1>3. \A x, y \in Nat : ~(<<y, x>> \in R) => x <= y
    OBVIOUS
<1> HIDE DEF R
<1> QED BY <1>2, <1>3

UpTo(m) == [k \in 1 .. m |-> k]

\* Appending the numbers a + 1, a + 2 ... to 1 .. a.
LEMMA UpToConcat ==
    ASSUME NEW a \in Nat, NEW t \in Seq(Nat), \A k \in 1 .. Len(t) : t[k] = a + k
    PROVE  UpTo(a) \o t = UpTo(a + Len(t))
<1>1. UpTo(a) \in Seq(Nat) /\ Len(UpTo(a)) = a /\ UpTo(a + Len(t)) \in Seq(Nat)
      /\ Len(UpTo(a + Len(t))) = a + Len(t)
    BY DEF UpTo
<1> DEFINE u == UpTo(a)
           c == u \o t
<1> HIDE DEF u
<1>2. c \in Seq(Nat) /\ Len(c) = a + Len(t)
      /\ \A k \in 1 .. a + Len(t) : c[k] = IF k <= a THEN u[k] ELSE t[k - a]
    <2>1. u \in Seq(Nat) /\ Len(u) = a
        BY <1>1 DEF u
    <2> QED BY <2>1, ConcatProperties
<1>3. \A k \in 1 .. a + Len(t) : c[k] = k
    BY <1>2 DEF u, UpTo
<1>4. \A k \in 1 .. a + Len(t) : UpTo(a + Len(t))[k] = k
    BY DEF UpTo
<1> HIDE DEF c
<1>5. c = UpTo(a + Len(t))
    BY <1>1, <1>2, <1>3, <1>4, SeqEqual
<1> QED BY <1>5 DEF c, u

\* FlattenSeq of sequences that hold the numbers 1, 2, 3 ... in this order.
LEMMA FlattenConsecutive ==
    ASSUME NEW seqs \in Seq(Seq(Nat)), NEW start \in [1 .. Len(seqs) + 1 -> Nat \ {0}],
           start[1] = 1,
           \A i \in 1 .. Len(seqs) :
               /\ start[i + 1] = start[i] + Len(seqs[i])
               /\ \A k \in 1 .. Len(seqs[i]) : seqs[i][k] = start[i] + k - 1
    PROVE  FlattenSeq(seqs) = UpTo(start[Len(seqs) + 1] - 1)
<1>1. CASE Len(seqs) = 0
    BY <1>1 DEF FlattenSeq, UpTo
<1>2. CASE Len(seqs) # 0
    <2> DEFINE g == [i \in 1 .. Len(seqs) |-> UpTo(start[i + 1] - 1)]
               IsFlat(f) == f = [i \in 1 .. Len(seqs) |->
                                   IF i = 1 THEN seqs[i] ELSE f[i - 1] \o seqs[i]]
               flat == CHOOSE f : IsFlat(f)
    <2>0. /\ Len(seqs) \in Nat \ {0}
          /\ \A i \in 1 .. Len(seqs) : seqs[i] \in Seq(Nat) /\ Len(seqs[i]) \in Nat
          /\ \A i \in 1 .. Len(seqs) + 1 : start[i] \in Nat \ {0}
        <3>1. Len(seqs) \in Nat \ {0}
            BY <1>2
        <3>2. \A i \in 1 .. Len(seqs) : seqs[i] \in Seq(Nat)
            OBVIOUS
        <3>3. \A i \in 1 .. Len(seqs) : Len(seqs[i]) \in Nat
            BY <3>2
        <3>4. \A i \in 1 .. Len(seqs) + 1 : start[i] \in Nat \ {0}
            OBVIOUS
        <3> QED BY <3>1, <3>2, <3>3, <3>4
    <2>1. seqs[1] = UpTo(start[2] - 1)
        <3>1. 1 \in 1 .. Len(seqs) /\ seqs[1] \in Seq(Nat)
            BY <2>0
        <3>2. start[1 + 1] = 1 + Len(seqs[1]) /\ Len(seqs[1]) \in Nat
            BY <2>0, <3>1
        <3>3. start[2] - 1 = Len(seqs[1])
            BY <3>2
        <3>4. \A k \in 1 .. Len(seqs[1]) : seqs[1][k] = k
            BY <2>0, <3>1
        <3>5. seqs[1] = [k \in 1 .. Len(seqs[1]) |-> seqs[1][k]]
            BY <3>1
        <3> QED BY <3>3, <3>4, <3>5 DEF UpTo
    <2>2. \A i \in 2 .. Len(seqs) : UpTo(start[i] - 1) \o seqs[i] = UpTo(start[i + 1] - 1)
        <3> TAKE i \in 2 .. Len(seqs)
        <3>0. i \in 1 .. Len(seqs) /\ i \in 1 .. Len(seqs) + 1
            BY <2>0
        <3>1. start[i] - 1 \in Nat /\ seqs[i] \in Seq(Nat)
            BY <2>0, <3>0
        <3>2. \A k \in 1 .. Len(seqs[i]) : seqs[i][k] = (start[i] - 1) + k
            BY <2>0, <3>0
        <3>3. (start[i] - 1) + Len(seqs[i]) = start[i + 1] - 1
            <4>1. start[i + 1] = start[i] + Len(seqs[i]) /\ start[i] \in Nat /\ Len(seqs[i]) \in Nat
                BY <2>0, <3>0
            <4>2. \A x, y \in Nat : (x - 1) + y = (x + y) - 1
                OBVIOUS
            <4>3. (start[i] - 1) + Len(seqs[i]) = (start[i] + Len(seqs[i])) - 1
                BY <4>1, <4>2
            <4> QED BY <4>1, <4>3
        <3> QED BY <3>1, <3>2, <3>3, UpToConcat
    <2>3. IsFlat(g)
        <3>1. \A i \in 1 .. Len(seqs) :
                 g[i] = IF i = 1 THEN seqs[i] ELSE g[i - 1] \o seqs[i]
            <4> TAKE i \in 1 .. Len(seqs)
            <4>1. CASE i = 1
                BY <2>1, <4>1
            <4>2. CASE i # 1
                <5>1. i \in 2 .. Len(seqs) /\ i - 1 \in 1 .. Len(seqs)
                    BY <4>2, <2>0
                <5>2. g[i - 1] = UpTo(start[i] - 1) /\ g[i] = UpTo(start[i + 1] - 1)
                    BY <5>1, <2>0
                <5> HIDE DEF g
                <5> QED BY <5>1, <5>2, <4>2, <2>2
            <4> QED BY <4>1, <4>2
        <3>2. g = [i \in 1 .. Len(seqs) |-> g[i]]
            OBVIOUS
        <3> HIDE DEF g
        <3> QED BY <3>1, <3>2
    <2>4. IsFlat(flat)
        <3> HIDE DEF IsFlat, g
        <3> QED BY <2>3
    <2> HIDE DEF flat
    <2>5. \A i \in 1 .. Len(seqs) : flat[i] = UpTo(start[i + 1] - 1)
        <3> DEFINE bad == {i \in 1 .. Len(seqs) : flat[i] # UpTo(start[i + 1] - 1)}
        <3> SUFFICES ASSUME bad # {} PROVE FALSE
            OBVIOUS
        <3>1. PICK i \in bad : \A y \in bad : i <= y
            <4>1. bad \subseteq Nat
                BY <2>0
            <4> HIDE DEF bad
            <4> QED BY <4>1, LeastOf
        <3>a. i \in 1 .. Len(seqs) /\ flat[i] # UpTo(start[i + 1] - 1)
            BY <3>1
        <3>b. flat[i] = IF i = 1 THEN seqs[i] ELSE flat[i - 1] \o seqs[i]
            BY <2>4, <3>a
        <3>2. i # 1
            BY <2>1, <3>a, <3>b
        <3>3. i - 1 \in 1 .. Len(seqs) /\ i - 1 \notin bad
            <4>1. i - 1 \in 1 .. Len(seqs) /\ ~(i <= i - 1)
                BY <2>0, <3>a, <3>2
            <4> HIDE DEF bad
            <4> QED BY <4>1, <3>1
        <3>4. flat[i - 1] = UpTo(start[i] - 1)
            <4>1. flat[i - 1] = UpTo(start[(i - 1) + 1] - 1)
                BY <3>3
            <4>2. (i - 1) + 1 = i
                BY <3>a, <2>0
            <4> QED BY <4>1, <4>2
        <3>5. i \in 2 .. Len(seqs)
            BY <3>a, <3>2, <2>0
        <3> QED BY <3>a, <3>b, <3>2, <3>4, <3>5, <2>2
    <2>6. FlattenSeq(seqs) = flat[Len(seqs)]
        BY <1>2 DEF FlattenSeq, flat
    <2>7. flat[Len(seqs)] = UpTo(start[Len(seqs) + 1] - 1)
        <3>1. Len(seqs) \in 1 .. Len(seqs)
            BY <2>0
        <3> QED BY <3>1, <2>5
    <2> QED BY <2>6, <2>7
<1> QED BY <1>1, <1>2

-----------------------------------------------------------------------------
(* Types *)

\* What the constants' assumption says in the form that the proofs use.
LEMMA Constants ==
    /\ ClientCount \in Nat /\ ShardCount \in Nat \ {0} /\ max_batch_size \in Nat \ {0}
    /\ MaxFailures \in Nat /\ NoClient \notin Clients /\ NoClient = 0
    /\ NoBatch \in BatchRec /\ NoBatch.batch_id = 0 /\ NoBatch.txs = << >>
    /\ \A r \in Requests : r.kind \in {"SubmitTx", "SubmitBatch"} /\ r.size \in Nat
    BY SequencerAssumption DEF Clients, NoClient, NoBatch, BatchRec, SubmitTx, SubmitBatch

\* What is at the head of the command channel.
LEMMA HeadCommand ==
    ASSUME CommandsTyped, command_queue # << >>
    PROVE  /\ Head(command_queue) \in Command
           /\ Head(command_queue) = command_queue[1]
           /\ Tail(command_queue) \in Seq(Command)
           /\ Len(Tail(command_queue)) = Len(command_queue) - 1
           /\ Len(command_queue) \in Nat \ {0}
           /\ \A i \in 1 .. Len(command_queue) - 1 : Tail(command_queue)[i] = command_queue[i + 1]
           /\ Head(command_queue).kind # "FlushOpen" => Head(command_queue).from \in Clients
<1>1. command_queue \in Seq(Command) /\ 1 \in DOMAIN command_queue
    BY EmptySeq DEF CommandsTyped
<1>2. Head(command_queue) = command_queue[1] /\ Head(command_queue) \in Command
    BY <1>1
<1>3. /\ Tail(command_queue) \in Seq(Command)
      /\ Len(Tail(command_queue)) = Len(command_queue) - 1
      /\ \A i \in 1 .. Len(command_queue) - 1 : Tail(command_queue)[i] = command_queue[i + 1]
    BY <1>1
<1>4. Head(command_queue).kind # "FlushOpen" => Head(command_queue).from \in Clients
    BY <1>1, <1>2 DEF CommandsTyped, Command, Sender
<1>5. Len(command_queue) \in Nat \ {0}
    BY <1>1
<1> QED BY <1>2, <1>3, <1>4, <1>5

\* Taking a command leaves the others in place.
LEMMA ReceiveTyped ==
    ASSUME CommandsTyped, NEW kind, Receives(kind)
    PROVE  CommandsTyped'
<1>1. command_queue # << >> /\ command_queue' = Tail(command_queue)
    BY DEF Receives
<1>2. command_queue' \in Seq(Command) /\ Len(command_queue') = Len(command_queue) - 1
      /\ \A i \in 1 .. Len(command_queue) - 1 : command_queue'[i] = command_queue[i + 1]
    BY <1>1, HeadCommand
<1>3. \A i \in DOMAIN command_queue' : i + 1 \in DOMAIN command_queue /\ command_queue'[i] = command_queue[i + 1]
    BY <1>2 DEF CommandsTyped
<1> QED BY <1>2, <1>3 DEF CommandsTyped

\* A channel from which the head is taken, and one that gets an element.
LEMMA HeadTail ==
    ASSUME NEW S, NEW q \in Seq(S), q # << >>
    PROVE  /\ Head(q) \in S /\ Head(q) = q[1] /\ Tail(q) \in Seq(S)
           /\ Len(q) \in Nat \ {0} /\ Len(Tail(q)) = Len(q) - 1
           /\ \A i \in 1 .. Len(q) - 1 : Tail(q)[i] = q[i + 1]
<1>1. Len(q) \in Nat \ {0} /\ 1 \in 1 .. Len(q)
    BY EmptySeq
<1>2. Head(q) = q[1] /\ q[1] \in S
    BY <1>1
<1>3. Tail(q) \in Seq(S) /\ Len(Tail(q)) = Len(q) - 1
    BY HeadTailProperties
<1>4. \A i \in 1 .. Len(q) - 1 : Tail(q)[i] = q[i + 1]
    BY <1>1
<1> QED BY <1>1, <1>2, <1>3, <1>4

\* A channel that gets an element.
LEMMA AppendTo ==
    ASSUME NEW S, NEW q \in Seq(S), NEW e \in S
    PROVE  /\ Append(q, e) \in Seq(S) /\ Len(q) \in Nat /\ Len(Append(q, e)) = Len(q) + 1
           /\ \A i \in 1 .. Len(q) : Append(q, e)[i] = q[i]
           /\ Append(q, e)[Len(q) + 1] = e
    BY AppendProperties

\* What an open batch becomes when it is sealed.
LEMMA SealedShape ==
    ASSUME NEW b \in BatchRec, b = NoBatch \/ b.batch_id # 0
    PROVE  /\ Sealed(b) \in Seq(JobRec)
           /\ b = NoBatch => Len(Sealed(b)) = 0
           /\ b # NoBatch => /\ Len(Sealed(b)) = 1 /\ Sealed(b)[1] = Job(b, NoClient)
                             /\ Sealed(b)[1].batch_id = b.batch_id
                             /\ Sealed(b)[1].txs = b.txs /\ Sealed(b)[1].client = NoClient
<1>1. CASE b = NoBatch
    BY <1>1 DEF Sealed
<1>2. CASE b # NoBatch
    <2>1. Job(b, NoClient) \in JobRec
        BY <1>2 DEF Job, JobRec, BatchRec, Sender
    <2>2. Sealed(b) = << Job(b, NoClient) >>
        BY <1>2 DEF Sealed
    <2>3. Sealed(b) \in Seq(JobRec) /\ Len(Sealed(b)) = 1 /\ Sealed(b)[1] = Job(b, NoClient)
        BY <2>1, <2>2
    <2> QED BY <1>2, <2>3 DEF Job
<1> QED BY <1>1, <1>2

\* The types hold at the start.
LEMMA ShapesInitially == Init => Shapes
    BY Constants DEF Init, Shapes, CommandsTyped, Status, Sender

\* The batch that SubmitTx leaves open or fills.
Opened == [batch_id |-> IF open_batch = NoBatch THEN next_batch_id ELSE open_batch.batch_id,
           txs |-> Append(open_batch.txs, next_tx_id)]

\* It is a batch with one more transaction than the open one.
LEMMA OpenedShape ==
    ASSUME Shapes
    PROVE  /\ Opened \in BatchRec /\ Opened.batch_id # 0 /\ Opened # NoBatch
           /\ Len(Opened.txs) = Len(open_batch.txs) + 1 /\ Len(open_batch.txs) \in Nat
           /\ Opened.txs[Len(open_batch.txs) + 1] = next_tx_id
           /\ \A k \in 1 .. Len(open_batch.txs) : Opened.txs[k] = open_batch.txs[k]
<1>1. open_batch.txs \in Seq(Nat) /\ next_tx_id \in Nat
    BY DEF Shapes, BatchRec
<1>2. Opened.txs = Append(open_batch.txs, next_tx_id)
    BY DEF Opened
<1>3. /\ Opened.txs \in Seq(Nat) /\ Len(Opened.txs) = Len(open_batch.txs) + 1
      /\ Len(open_batch.txs) \in Nat
      /\ Opened.txs[Len(open_batch.txs) + 1] = next_tx_id
      /\ \A k \in 1 .. Len(open_batch.txs) : Opened.txs[k] = open_batch.txs[k]
    BY <1>1, <1>2, AppendTo
<1>4. Opened.batch_id \in Nat \ {0}
    BY DEF Opened, Shapes, BatchRec
<1>5. Opened \in BatchRec
    BY <1>3, <1>4 DEF BatchRec, Opened
<1> QED BY <1>3, <1>4, <1>5, Constants

\* handle_submit_tx, by whether the batch is full.
LEMMA SubmitTxEffect ==
    ASSUME Shapes, handle_submit_tx
    PROVE  /\ Head(command_queue).from \in Clients /\ outbox = << >>
           /\ next_batch_id' = IF open_batch = NoBatch THEN next_batch_id + 1 ELSE next_batch_id
           /\ timers' = IF open_batch = NoBatch THEN timers \cup {next_batch_id} ELSE timers
           /\ next_tx_id' = next_tx_id + 1
           /\ IsFull(Opened.txs) =>
                 /\ open_batch' = NoBatch /\ owed' = Head(command_queue).from
                 /\ outbox' = << Job(Opened, NoClient) >>
                 /\ client' = [client EXCEPT ![Head(command_queue).from].txs = <<next_tx_id>>]
           /\ ~IsFull(Opened.txs) =>
                 /\ open_batch' = Opened /\ owed' = owed /\ outbox' = outbox
                 /\ client' = [client EXCEPT ![Head(command_queue).from] =
                                   [status |-> "acked", txs |-> <<next_tx_id>>]]
<1>1. Head(command_queue).from \in Clients /\ outbox = << >>
    BY HeadCommand DEF handle_submit_tx, Receives, Shapes
<1>2. Sealed(Opened) = << Job(Opened, NoClient) >>
    BY OpenedShape DEF Sealed
<1> QED BY <1>1, <1>2 DEF handle_submit_tx, Opened

\* The batch that SubmitBatch asks for.
NewIds == [n \in 1 .. Head(command_queue).arg |-> next_tx_id + n - 1]
NewJob == Job([batch_id |-> next_batch_id, txs |-> NewIds], Head(command_queue).from)

\* It is a job with the transactions that follow the last one numbered.
LEMMA NewJobShape ==
    ASSUME Shapes, Receives("SubmitBatch")
    PROVE  /\ Head(command_queue).from \in Clients /\ Head(command_queue).arg \in Nat
           /\ NewIds \in Seq(Nat) /\ Len(NewIds) = Head(command_queue).arg
           /\ \A k \in 1 .. Len(NewIds) : NewIds[k] = next_tx_id + k - 1
           /\ NewJob \in JobRec /\ NewJob.batch_id = next_batch_id /\ NewJob.txs = NewIds
           /\ NewJob.client = Head(command_queue).from
<1>1. Head(command_queue).from \in Clients /\ Head(command_queue).arg \in Nat
    BY HeadCommand DEF Receives, Shapes, Command
<1>2. next_tx_id \in Nat \ {0} /\ next_batch_id \in Nat \ {0}
    BY DEF Shapes
<1>3. \A k \in 1 .. Head(command_queue).arg : next_tx_id + k - 1 \in Nat
    BY <1>1, <1>2
<1>4. NewIds \in Seq(Nat) /\ Len(NewIds) = Head(command_queue).arg
    BY <1>1, <1>3 DEF NewIds
<1>5. \A k \in 1 .. Len(NewIds) : NewIds[k] = next_tx_id + k - 1
    BY <1>4 DEF NewIds
<1>6. NewJob.batch_id = next_batch_id /\ NewJob.txs = NewIds
      /\ NewJob.client = Head(command_queue).from
    BY DEF NewJob, Job
<1>7. NewJob \in JobRec
    BY <1>1, <1>2, <1>4 DEF NewJob, Job, JobRec, Sender
<1> QED BY <1>1, <1>4, <1>5, <1>6, <1>7

\* The batches that SubmitBatch sends.
LEMMA SubmitBatchOutbox ==
    ASSUME Shapes, Receives("SubmitBatch")
    PROVE  LET o == SealedFirst(open_batch, NewJob)
           IN  /\ o \in Seq(JobRec)
               /\ open_batch = NoBatch => Len(o) = 1 /\ o[1] = NewJob
               /\ open_batch # NoBatch => /\ Len(o) = 2 /\ o[2] = NewJob
                                          /\ o[1] \in JobRec /\ o[1].client = NoClient
                                          /\ o[1].batch_id = open_batch.batch_id
                                          /\ o[1].txs = open_batch.txs
<1> DEFINE q == Sealed(open_batch)
           r == << NewJob >>
<1>1. open_batch \in BatchRec /\ (open_batch = NoBatch \/ open_batch.batch_id # 0)
    BY DEF Shapes
<1>2. q \in Seq(JobRec)
    BY <1>1, SealedShape
<1>3. r \in Seq(JobRec) /\ Len(r) = 1 /\ r[1] = NewJob
    BY NewJobShape
<1>4. open_batch = NoBatch => Len(q) = 0
    BY <1>1, SealedShape
<1>5. open_batch # NoBatch => /\ Len(q) = 1 /\ q[1].batch_id = open_batch.batch_id
                              /\ q[1].txs = open_batch.txs /\ q[1].client = NoClient
    BY <1>1, SealedShape
<1>6. SealedFirst(open_batch, NewJob) = q \o r
    BY DEF SealedFirst
<1> HIDE DEF q, r
<1>7. /\ q \o r \in Seq(JobRec) /\ Len(q \o r) = Len(q) + Len(r)
      /\ \A i \in 1 .. Len(q) + Len(r) : (q \o r)[i] = IF i <= Len(q) THEN q[i] ELSE r[i - Len(q)]
    BY <1>2, <1>3, ConcatProperties
<1> DEFINE o == q \o r
<1> HIDE DEF o
<1>8. /\ o \in Seq(JobRec) /\ Len(o) = Len(q) + Len(r)
      /\ \A i \in 1 .. Len(q) + Len(r) : o[i] = IF i <= Len(q) THEN q[i] ELSE r[i - Len(q)]
    BY <1>7 DEF o
<1>9. open_batch = NoBatch => Len(o) = 1 /\ o[1] = NewJob
    BY <1>8, <1>3, <1>4
<1>10. open_batch # NoBatch => Len(o) = 2 /\ o[1] = q[1] /\ o[2] = NewJob
    <2> SUFFICES ASSUME open_batch # NoBatch
                 PROVE  Len(o) = 2 /\ o[1] = q[1] /\ o[2] = NewJob
        OBVIOUS
    <2>a. Len(q) = 1 /\ Len(r) = 1
        BY <1>3, <1>5
    <2>b. Len(o) = Len(q) + Len(r)
        BY <1>8
    <2>1. Len(q) = 1 /\ Len(o) = 2
        BY <2>a, <2>b
    <2>2. \A i \in 1 .. 2 : o[i] = IF i <= 1 THEN q[i] ELSE r[i - 1]
        BY <2>1, <1>3, <1>8
    <2>3. o[1] = q[1] /\ o[2] = r[2 - 1]
        BY <2>2
    <2> QED BY <2>1, <2>3, <1>3
<1>11. open_batch # NoBatch => o[1] \in JobRec
    BY <1>10, <1>8
<1> QED BY <1>5, <1>6, <1>8, <1>9, <1>10, <1>11 DEF o

\* handle_submit_batch, by whether the batch is too large.
LEMMA SubmitBatchEffect ==
    ASSUME Shapes, handle_submit_batch
    PROVE  /\ outbox = << >>
           /\ Head(command_queue).arg > max_batch_size =>
                 /\ client' = [client EXCEPT ![Head(command_queue).from].status = "err"]
                 /\ UNCHANGED actorVars
           /\ ~(Head(command_queue).arg > max_batch_size) =>
                 /\ outbox' = SealedFirst(open_batch, NewJob) /\ open_batch' = NoBatch
                 /\ next_batch_id' = next_batch_id + 1
                 /\ next_tx_id' = next_tx_id + Head(command_queue).arg
                 /\ client' = [client EXCEPT ![Head(command_queue).from].txs = NewIds]
                 /\ owed' = owed
    BY DEF handle_submit_batch, Receives, NewIds, NewJob

\* Every step keeps the types.
LEMMA ShapesStep ==
    ASSUME Shapes, [Next]_vars
    PROVE  Shapes'
<1> DEFINE C == [Clients -> [status : Status, txs : Seq(Nat)]]
<1>0. /\ client \in C /\ CommandsTyped /\ next_batch_id \in Nat \ {0} /\ next_tx_id \in Nat \ {0}
      /\ open_batch \in BatchRec /\ (open_batch = NoBatch \/ open_batch.batch_id # 0)
      /\ outbox \in Seq(JobRec) /\ dispatch_queue \in Seq(JobRec)
      /\ (job = NoBatch \/ job \in JobRec)
      /\ finished \in Seq(DoneRec) /\ batch_log \in Seq(BatchRec) /\ owed \in Sender
      /\ timers \subseteq Nat
    BY DEF Shapes
<1>1. ASSUME NEW c \in Clients, Submit(c) PROVE Shapes'
    <2>1. PICK r \in Requests :
             command_queue' = Append(command_queue, [kind |-> r.kind, arg |-> r.size, from |-> c])
        BY <1>1 DEF Submit
    <2> DEFINE e == [kind |-> r.kind, arg |-> r.size, from |-> c]
    <2>2. e \in Command /\ e.from # NoClient /\ e.kind # "FlushOpen"
        BY Constants DEF Command, Sender
    <2> HIDE DEF e
    <2>3. command_queue' = Append(command_queue, e)
        BY <2>1 DEF e
    <2>4. CommandsTyped'
        BY <2>2, <2>3, <1>0, AppendTo DEF CommandsTyped
    <2>5. client' \in C
        BY <1>0, <1>1 DEF Submit, Status
    <2> QED BY <1>0, <1>1, <2>4, <2>5 DEF Submit, Shapes, actorVars, dispatchVars
<1>2. ASSUME NEW b \in timers, FlushTimer(b) PROVE Shapes'
    <2> DEFINE e == [kind |-> "FlushOpen", arg |-> b, from |-> NoClient]
    <2>2. e \in Command /\ e.from = NoClient /\ e.kind = "FlushOpen"
        BY <1>0, <1>2 DEF Command, Sender
    <2>3. command_queue' = Append(command_queue, e)
        BY <1>2 DEF FlushTimer
    <2> HIDE DEF e
    <2>4. CommandsTyped'
        BY <2>2, <2>3, <1>0, AppendTo DEF CommandsTyped
    <2> QED BY <1>0, <1>2, <2>4 DEF FlushTimer, Shapes, actorVars, dispatchVars
<1>3. ASSUME handle_submit_tx PROVE Shapes'
    <2> DEFINE c == Head(command_queue).from
    <2>1. CommandsTyped'
        BY <1>0, <1>3, ReceiveTyped DEF handle_submit_tx
    <2>2. c \in Clients /\ <<next_tx_id>> \in Seq(Nat)
        BY <1>0, <1>3, SubmitTxEffect
    <2>3. client' \in C
        <3>1. CASE IsFull(Opened.txs)
            <4>1. client' = [client EXCEPT ![c].txs = <<next_tx_id>>]
                BY <1>3, <3>1, SubmitTxEffect
            <4> QED BY <1>0, <2>2, <4>1
        <3>2. CASE ~IsFull(Opened.txs)
            <4>1. client' = [client EXCEPT ![c] = [status |-> "acked", txs |-> <<next_tx_id>>]]
                BY <1>3, <3>2, SubmitTxEffect
            <4> QED BY <1>0, <2>2, <4>1 DEF Status
        <3> QED BY <3>1, <3>2
    <2>4. open_batch' \in BatchRec /\ (open_batch' = NoBatch \/ open_batch'.batch_id # 0)
        BY <1>3, SubmitTxEffect, OpenedShape, Constants
    <2>5. outbox' \in Seq(JobRec) /\ owed' \in Sender
        <3>1. Job(Opened, NoClient) \in JobRec
            BY OpenedShape DEF Job, JobRec, BatchRec, Sender
        <3>2. << Job(Opened, NoClient) >> \in Seq(JobRec)
            BY <3>1
        <3>3. CASE IsFull(Opened.txs)
            BY <1>3, <2>2, <3>2, <3>3, SubmitTxEffect DEF Sender
        <3>4. CASE ~IsFull(Opened.txs)
            BY <1>0, <1>3, <3>4, SubmitTxEffect
        <3> QED BY <3>3, <3>4
    <2>6. next_batch_id' \in Nat \ {0} /\ next_tx_id' \in Nat \ {0} /\ timers' \subseteq Nat
        BY <1>0, <1>3, SubmitTxEffect
    <2>7. UNCHANGED <<dispatch_queue, job, finished, batch_log>>
        BY <1>3 DEF handle_submit_tx, dispatchVars
    <2> QED BY <1>0, <2>1, <2>3, <2>4, <2>5, <2>6, <2>7 DEF Shapes
<1>4. ASSUME handle_submit_batch PROVE Shapes'
    <2>0. Receives("SubmitBatch")
        BY <1>4 DEF handle_submit_batch
    <2>1. CommandsTyped'
        BY <1>0, <2>0, ReceiveTyped
    <2>2. Head(command_queue).from \in Clients /\ Head(command_queue).arg \in Nat
          /\ NewIds \in Seq(Nat)
        BY <2>0, NewJobShape
    <2>3. client' \in C
        <3>1. CASE Head(command_queue).arg > max_batch_size
            <4>1. client' = [client EXCEPT ![Head(command_queue).from].status = "err"]
                BY <1>4, <3>1, SubmitBatchEffect
            <4> QED BY <1>0, <2>2, <4>1 DEF Status
        <3>2. CASE ~(Head(command_queue).arg > max_batch_size)
            <4>1. client' = [client EXCEPT ![Head(command_queue).from].txs = NewIds]
                BY <1>4, <3>2, SubmitBatchEffect
            <4> QED BY <1>0, <2>2, <4>1
        <3> QED BY <3>1, <3>2
    <2>4. open_batch' \in BatchRec /\ (open_batch' = NoBatch \/ open_batch'.batch_id # 0)
        BY <1>0, <1>4, SubmitBatchEffect, Constants DEF actorVars
    <2>5. outbox' \in Seq(JobRec) /\ owed' \in Sender
        BY <1>0, <1>4, <2>0, SubmitBatchEffect, SubmitBatchOutbox DEF actorVars
    <2>6. next_batch_id' \in Nat \ {0} /\ next_tx_id' \in Nat \ {0}
        BY <1>0, <1>4, <2>2, SubmitBatchEffect DEF actorVars
    <2>7. UNCHANGED <<timers, dispatch_queue, job, finished, batch_log>>
        BY <1>4 DEF handle_submit_batch, dispatchVars
    <2> QED BY <1>0, <2>1, <2>3, <2>4, <2>5, <2>6, <2>7 DEF Shapes
<1>5. ASSUME handle_flush_open PROVE Shapes'
    <2>1. CommandsTyped'
        BY <1>0, <1>5, ReceiveTyped DEF handle_flush_open
    <2>2. outbox' \in Seq(JobRec)
          /\ open_batch' \in BatchRec /\ (open_batch' = NoBatch \/ open_batch'.batch_id # 0)
        BY <1>0, <1>5, SealedShape, Constants DEF handle_flush_open
    <2> QED BY <1>0, <1>5, <2>1, <2>2 DEF handle_flush_open, Shapes, dispatchVars
<1>6. ASSUME dispatch_batch PROVE Shapes'
    <2>1. /\ outbox # << >> /\ dispatch_queue' = Append(dispatch_queue, Head(outbox))
          /\ outbox' = Tail(outbox)
        BY <1>6 DEF dispatch_batch
    <2>2. Head(outbox) \in JobRec /\ outbox' \in Seq(JobRec)
        BY <1>0, <2>1, HeadTail
    <2>3. dispatch_queue' \in Seq(JobRec)
        BY <1>0, <2>1, <2>2, AppendTo
    <2>4. client' \in C /\ owed' \in Sender
        <3>1. CASE AckIsDue(Tail(outbox))
            <4>1. owed \in Clients
                BY <1>0, <3>1 DEF AckIsDue, Sender
            <4>2. client' = [client EXCEPT ![owed].status = "acked"] /\ owed' = NoClient
                BY <1>6, <3>1 DEF dispatch_batch
            <4> QED BY <1>0, <4>1, <4>2 DEF Status, Sender
        <3>2. CASE ~AckIsDue(Tail(outbox))
            BY <1>0, <1>6, <3>2 DEF dispatch_batch
        <3> QED BY <3>1, <3>2
    <2> QED BY <1>0, <1>6, <2>2, <2>3, <2>4
            DEF dispatch_batch, Shapes, dispatchVars, CommandsTyped
<1>7. ASSUME TakeJob PROVE Shapes'
    <2>1. dispatch_queue # << >> /\ job' = Head(dispatch_queue)
          /\ dispatch_queue' = Tail(dispatch_queue)
        BY <1>7 DEF TakeJob
    <2>2. job' \in JobRec /\ dispatch_queue' \in Seq(JobRec)
        BY <1>0, <2>1, HeadTail
    <2> QED BY <1>0, <1>7, <2>2 DEF TakeJob, Shapes, actorVars, CommandsTyped
<1>8. ASSUME FinishJob PROVE Shapes'
    <2>1. job \in JobRec
        BY <1>0, <1>8 DEF FinishJob
    <2> DEFINE b == [batch_id |-> job.batch_id, txs |-> job.txs]
               d == [batch_id |-> job.batch_id, txs |-> job.txs, ok |-> AllOk]
    <2>2. b \in BatchRec /\ d \in DoneRec
        BY <2>1 DEF JobRec, BatchRec, DoneRec, AllOk
    <2>3. batch_log' = (IF AllOk THEN Append(batch_log, b) ELSE batch_log)
          /\ finished' = Append(finished, d)
        BY <1>8 DEF FinishJob
    <2> HIDE DEF b, d
    <2>4. batch_log' \in Seq(BatchRec) /\ finished' \in Seq(DoneRec)
        BY <1>0, <2>2, <2>3, AppendTo
    <2>5. client' \in C
        <3>1. CASE job.client = NoClient
            BY <1>0, <1>8, <3>1 DEF FinishJob
        <3>2. CASE job.client # NoClient
            <4>1. job.client \in Clients /\ Reply(AllOk) \in Status
                BY <2>1, <3>2 DEF JobRec, Sender, Reply, Status
            <4>2. client' = [client EXCEPT ![job.client].status = Reply(AllOk)]
                BY <1>8, <3>2 DEF FinishJob
            <4> QED BY <1>0, <4>1, <4>2
        <3> QED BY <3>1, <3>2
    <2> QED BY <1>0, <1>8, <2>4, <2>5 DEF FinishJob, Shapes, actorVars, CommandsTyped
<1>9. ASSUME NEW s \in Shards, Shard(s) \/ FailCall(s) PROVE Shapes'
    <2>1. UNCHANGED <<client, command_queue, timers, actorVars, dispatch_queue, job, finished, batch_log>>
        BY <1>9 DEF Shard, Deliver, ExecuteBatch, FailCall, dispatchVars
    <2> QED BY <1>0, <2>1 DEF Shapes, actorVars, CommandsTyped
<1>10. ASSUME UNCHANGED vars PROVE Shapes'
    BY <1>0, <1>10 DEF vars, Shapes, actorVars, dispatchVars, CommandsTyped
<1> QED BY <1>1, <1>2, <1>3, <1>4, <1>5, <1>6, <1>7, <1>8, <1>9, <1>10
        DEF Next, Actor, Dispatcher, Timers

-----------------------------------------------------------------------------
(* The pipeline *)

\* The counts are numbers, and the pipeline has an order.
LEMMA CountsAreNat ==
    ASSUME Shapes
    PROVE  /\ Len(finished) \in Nat /\ Len(dispatch_queue) \in Nat /\ Len(outbox) \in Nat
           /\ Taken \in Nat /\ Queued \in Nat /\ Closed \in Nat
           /\ Len(finished) <= Taken /\ Taken <= Queued /\ Queued <= Closed
<1>1. Len(finished) \in Nat /\ Len(dispatch_queue) \in Nat /\ Len(outbox) \in Nat
    BY DEF Shapes
<1>2. Taken \in Nat /\ Len(finished) <= Taken
    BY <1>1 DEF Taken
<1> QED BY <1>1, <1>2 DEF Queued, Closed

\* So is the number of batches that have an id.
LEMMA LiveIsNat == Shapes => Live \in Nat
    BY CountsAreNat DEF Live

\* A step moves batches along the pipeline and changes none of them.
SameClosed ==
    /\ Closed' = Closed
    /\ \A n \in 1 .. Closed : At(n)'.batch_id = At(n).batch_id /\ At(n)'.txs = At(n).txs

\* dispatch_batch moves the first batch of outbox to the end of dispatch_queue.
LEMMA DispatchMoves ==
    ASSUME Shapes, dispatch_batch
    PROVE  SameClosed
<1>1. /\ outbox # << >> /\ dispatch_queue' = Append(dispatch_queue, Head(outbox))
      /\ outbox' = Tail(outbox) /\ finished' = finished /\ job' = job
    BY DEF dispatch_batch, dispatchVars
<1>2. outbox \in Seq(JobRec) /\ dispatch_queue \in Seq(JobRec)
    BY DEF Shapes
<1>3. /\ Head(outbox) \in JobRec /\ Head(outbox) = outbox[1]
      /\ Len(outbox) \in Nat \ {0} /\ Len(outbox') = Len(outbox) - 1
      /\ \A i \in 1 .. Len(outbox) - 1 : outbox'[i] = outbox[i + 1]
    BY <1>1, <1>2, HeadTail
<1>4. /\ Len(dispatch_queue') = Len(dispatch_queue) + 1
      /\ \A i \in 1 .. Len(dispatch_queue) : dispatch_queue'[i] = dispatch_queue[i]
      /\ dispatch_queue'[Len(dispatch_queue) + 1] = outbox[1]
    BY <1>1, <1>2, <1>3, AppendTo
<1>5. Taken' = Taken /\ Queued' = Queued + 1 /\ Closed' = Closed
    <2>1. Taken' = Taken /\ Taken \in Nat
        BY <1>1, CountsAreNat DEF Taken
    <2>2. Queued' = Queued + 1 /\ Queued \in Nat
        BY <2>1, <1>4, CountsAreNat DEF Queued
    <2>3. Closed' = Queued' + Len(outbox') /\ Closed = Queued + Len(outbox)
        BY DEF Closed
    <2> QED BY <2>1, <2>2, <2>3, <1>3
<1>6. ASSUME NEW n \in 1 .. Closed PROVE At(n)' = At(n)
    <2>1. CASE n <= Taken
        BY <1>1, <1>5, <2>1 DEF At
    <2>2. CASE n > Taken /\ n <= Queued
        <3>1. n - Taken \in 1 .. Len(dispatch_queue)
            BY <2>2, CountsAreNat DEF Queued
        <3>2. At(n) = dispatch_queue[n - Taken]
            BY <2>2, CountsAreNat DEF At
        <3>3. At(n)' = dispatch_queue'[n - Taken]
            <4>1. ~(n <= Len(finished)') /\ ~(n <= Taken') /\ n <= Queued' /\ Taken' = Taken
                BY <2>2, <1>1, <1>5, CountsAreNat
            <4> QED BY <4>1 DEF At
        <3> QED BY <3>1, <3>2, <3>3, <1>4
    <2>3. CASE n = Queued + 1
        <3>1. At(n) = outbox[1]
            BY <2>3, CountsAreNat DEF At
        <3>2. At(n)' = dispatch_queue'[n - Taken]
            <4>1. ~(n <= Len(finished)') /\ ~(n <= Taken') /\ n <= Queued' /\ Taken' = Taken
                BY <2>3, <1>1, <1>5, CountsAreNat
            <4> QED BY <4>1 DEF At
        <3>3. n - Taken = Len(dispatch_queue) + 1
            BY <2>3, CountsAreNat DEF Queued
        <3> QED BY <3>1, <3>2, <3>3, <1>4
    <2>4. CASE n > Queued + 1
        <3>1. At(n) = outbox[n - Queued]
            BY <2>4, CountsAreNat DEF At
        <3>2. At(n)' = outbox'[n - (Queued + 1)]
            <4>1. ~(n <= Len(finished)') /\ ~(n <= Taken') /\ ~(n <= Queued') /\ n <= Closed' /\ Queued' = Queued + 1
                BY <2>4, <1>1, <1>5, CountsAreNat
            <4> QED BY <4>1 DEF At
        <3>3. n - (Queued + 1) \in 1 .. Len(outbox) - 1
              /\ (n - (Queued + 1)) + 1 = n - Queued
            BY <2>4, CountsAreNat DEF Closed
        <3> QED BY <3>1, <3>2, <3>3, <1>3
    <2> QED BY <2>1, <2>2, <2>3, <2>4, CountsAreNat
<1> QED BY <1>5, <1>6 DEF SameClosed

\* TakeJob moves the first batch of dispatch_queue to job.
LEMMA TakeMoves ==
    ASSUME Shapes, TakeJob
    PROVE  SameClosed
<1>1. /\ dispatch_queue # << >> /\ job = NoBatch /\ job' = Head(dispatch_queue)
      /\ dispatch_queue' = Tail(dispatch_queue) /\ finished' = finished /\ outbox' = outbox
    BY DEF TakeJob, actorVars
<1>2. dispatch_queue \in Seq(JobRec)
    BY DEF Shapes
<1>3. /\ job' \in JobRec /\ job' = dispatch_queue[1]
      /\ Len(dispatch_queue) \in Nat \ {0} /\ Len(dispatch_queue') = Len(dispatch_queue) - 1
      /\ \A i \in 1 .. Len(dispatch_queue) - 1 : dispatch_queue'[i] = dispatch_queue[i + 1]
    BY <1>1, <1>2, HeadTail
<1>4. job' # NoBatch
    BY <1>3, Constants DEF JobRec
<1>5. /\ Taken = Len(finished) /\ Taken' = Taken + 1 /\ Queued' = Queued /\ Closed' = Closed
    BY <1>1, <1>3, <1>4, CountsAreNat DEF Taken, Queued, Closed
<1>6. ASSUME NEW n \in 1 .. Closed PROVE At(n)' = At(n)
    <2>1. CASE n <= Taken
        BY <1>1, <1>5, <2>1 DEF At
    <2>2. CASE n = Taken + 1
        <3>1. At(n) = dispatch_queue[1]
            BY <2>2, <1>3, CountsAreNat DEF At, Queued
        <3>2. At(n)' = job'
            BY <2>2, <1>1, <1>5, CountsAreNat DEF At
        <3> QED BY <3>1, <3>2, <1>3
    <2>3. CASE n > Taken + 1 /\ n <= Queued
        <3>1. At(n) = dispatch_queue[n - Taken]
            BY <2>3, CountsAreNat DEF At
        <3>2. At(n)' = dispatch_queue'[n - (Taken + 1)]
            <4>1. ~(n <= Len(finished)') /\ ~(n <= Taken') /\ n <= Queued' /\ Taken' = Taken + 1
                BY <2>3, <1>1, <1>5, CountsAreNat
            <4> QED BY <4>1 DEF At
        <3>3. n - (Taken + 1) \in 1 .. Len(dispatch_queue) - 1
              /\ (n - (Taken + 1)) + 1 = n - Taken
            BY <2>3, CountsAreNat DEF Queued
        <3> QED BY <3>1, <3>2, <3>3, <1>3
    <2>4. CASE n > Queued
        <3>1. At(n) = outbox[n - Queued]
            BY <2>4, CountsAreNat DEF At
        <3>2. At(n)' = outbox'[n - Queued]
            BY <2>4, <1>1, <1>3, <1>5, CountsAreNat DEF At, Queued
        <3> QED BY <3>1, <3>2, <1>1
    <2> QED BY <2>1, <2>2, <2>3, <2>4, CountsAreNat
<1> QED BY <1>5, <1>6 DEF SameClosed

\* FinishJob moves the job to the end of finished.
LEMMA FinishMoves ==
    ASSUME Shapes, FinishJob
    PROVE  SameClosed
<1> DEFINE d == [batch_id |-> job.batch_id, txs |-> job.txs, ok |-> AllOk]
<1>1. /\ job # NoBatch /\ job' = NoBatch /\ finished' = Append(finished, d)
      /\ dispatch_queue' = dispatch_queue /\ outbox' = outbox
    BY DEF FinishJob, actorVars
<1>2. finished \in Seq(DoneRec) /\ d \in DoneRec /\ d.batch_id = job.batch_id /\ d.txs = job.txs
    BY <1>1 DEF Shapes, DoneRec, JobRec, AllOk
<1> HIDE DEF d
<1>3. /\ Len(finished') = Len(finished) + 1 /\ finished'[Len(finished) + 1] = d
      /\ \A i \in 1 .. Len(finished) : finished'[i] = finished[i]
    BY <1>1, <1>2, AppendTo
<1>4. /\ Taken = Len(finished) + 1 /\ Taken' = Taken /\ Queued' = Queued /\ Closed' = Closed
    BY <1>1, <1>3, CountsAreNat DEF Taken, Queued, Closed
<1>5. ASSUME NEW n \in 1 .. Closed
      PROVE  At(n)'.batch_id = At(n).batch_id /\ At(n)'.txs = At(n).txs
    <2>1. CASE n <= Len(finished)
        <3>1. At(n) = finished[n] /\ At(n)' = finished'[n]
            BY <2>1, <1>1, <1>3, CountsAreNat DEF At
        <3> QED BY <3>1, <2>1, <1>3
    <2>2. CASE n = Taken
        <3>1. At(n) = job /\ At(n)' = finished'[n]
            BY <2>2, <1>1, <1>3, <1>4, CountsAreNat DEF At
        <3> QED BY <3>1, <2>2, <1>2, <1>3, <1>4
    <2>3. CASE n > Taken
        BY <2>3, <1>1, <1>3, <1>4, CountsAreNat DEF At
    <2> QED BY <2>1, <2>2, <2>3, <1>4, CountsAreNat
<1> QED BY <1>4, <1>5 DEF SameClosed

\* The same, with the open batch.
SameBatches ==
    /\ Live' = Live
    /\ \A n \in 1 .. Live : At(n)'.batch_id = At(n).batch_id /\ At(n)'.txs = At(n).txs

\* Steps that leave the open batch alone and move the others.
LEMMA OpenStays ==
    ASSUME Shapes, SameClosed, Shapes', open_batch' = open_batch
    PROVE  SameBatches
<1>1. Closed' = Closed /\ Live' = Live
    BY DEF SameClosed, Live
<1>2. ASSUME NEW n \in 1 .. Live PROVE At(n)'.batch_id = At(n).batch_id /\ At(n)'.txs = At(n).txs
    <2>1. CASE n <= Closed
        <3>1. n \in 1 .. Closed
            BY <2>1, CountsAreNat DEF Live
        <3> QED BY <3>1 DEF SameClosed
    <2>2. CASE ~(n <= Closed)
        <3>1. n \in Nat /\ ~(n <= Len(finished)) /\ ~(n <= Taken) /\ ~(n <= Queued)
            BY <2>2, CountsAreNat DEF Live
        <3>2. At(n) = open_batch
            BY <2>2, <3>1 DEF At
        <3>3. Len(finished)' <= Taken' /\ Taken' <= Queued' /\ Queued' <= Closed' /\ Closed' \in Nat
              /\ Len(finished)' \in Nat /\ Taken' \in Nat /\ Queued' \in Nat
            <4>1. (Shapes => /\ Len(finished) <= Taken /\ Taken <= Queued /\ Queued <= Closed /\ Closed \in Nat
                             /\ Len(finished) \in Nat /\ Taken \in Nat /\ Queued \in Nat)'
                BY CountsAreNat, PTL
            <4> QED BY <4>1
        <3>4. ~(n <= Len(finished)') /\ ~(n <= Taken') /\ ~(n <= Queued') /\ ~(n <= Closed')
            BY <2>2, <3>1, <3>3, <1>1
        <3>5. At(n)' = open_batch'
            BY <3>4 DEF At
        <3> QED BY <3>2, <3>5
    <2> QED BY <2>1, <2>2
<1> QED BY <1>1, <1>2 DEF SameBatches

\* Where the batches of the pipeline are.
Whereabouts ==
    /\ Taken \in Nat /\ Queued = Taken + Len(dispatch_queue) /\ Closed = Queued + Len(outbox)
    /\ Len(dispatch_queue) \in Nat /\ Len(outbox) \in Nat
    /\ \A n \in Nat :
          /\ n <= Queued => n <= Closed
          /\ n > Queued /\ n <= Closed => At(n) = outbox[n - Queued]
          /\ n > Closed => At(n) = open_batch

\* The batches are where At finds them,
LEMMA WhereaboutsHold == Shapes => Whereabouts
<1> SUFFICES ASSUME Shapes PROVE Whereabouts
    OBVIOUS
<1>1. /\ Len(dispatch_queue) \in Nat /\ Len(outbox) \in Nat /\ Len(finished) \in Nat
      /\ Taken \in Nat /\ Queued \in Nat /\ Closed \in Nat
      /\ Len(finished) <= Taken /\ Taken <= Queued /\ Queued <= Closed
    BY CountsAreNat
<1>2. Queued = Taken + Len(dispatch_queue) /\ Closed = Queued + Len(outbox)
    BY DEF Queued, Closed
<1>3. ASSUME NEW n \in Nat, n > Queued PROVE ~(n <= Len(finished)) /\ ~(n <= Taken) /\ ~(n <= Queued)
    BY <1>1, <1>3
<1>4. ASSUME NEW n \in Nat, n > Queued, n <= Closed PROVE At(n) = outbox[n - Queued]
    BY <1>3, <1>4 DEF At
<1>5. ASSUME NEW n \in Nat, n > Closed PROVE At(n) = open_batch
    <2>1. n > Queued /\ ~(n <= Closed)
        BY <1>1, <1>5
    <2> QED BY <2>1, <1>3 DEF At
<1>6. \A n \in Nat : n <= Queued => n <= Closed
    BY <1>1
<1> QED BY <1>1, <1>2, <1>4, <1>5, <1>6 DEF Whereabouts

\* after a step too.
LEMMA WhereaboutsNext == Shapes' => Whereabouts'
    BY WhereaboutsHold, PTL

\* The actor's handlers leave alone what the actor has sent.
LEMMA SentStays ==
    ASSUME Shapes, Shapes', UNCHANGED <<finished, job, dispatch_queue>>, outbox = << >>
    PROVE  /\ Queued' = Queued /\ Closed = Queued /\ Queued \in Nat
           /\ \A n \in 1 .. Queued : At(n)' = At(n)
<1>1. Taken' = Taken /\ Queued' = Queued
    BY DEF Taken, Queued
<1>2. Closed = Queued /\ Queued \in Nat
    BY CountsAreNat DEF Closed
<1>3. ASSUME NEW n \in 1 .. Queued PROVE At(n)' = At(n)
    <2>1. n <= Queued /\ n <= Queued'
        BY <1>1, <1>2
    <2> QED BY <2>1, <1>1 DEF At
<1> QED BY <1>1, <1>2, <1>3

\* handle_flush_open moves the open batch to outbox, or does nothing.
LEMMA FlushMoves ==
    ASSUME Shapes, Shapes', handle_flush_open
    PROVE  SameBatches
<1>1. UNCHANGED <<finished, job, dispatch_queue>> /\ outbox = << >>
    BY DEF handle_flush_open, dispatchVars, Receives
<1>2. /\ Queued' = Queued /\ Closed = Queued /\ Queued \in Nat
      /\ \A n \in 1 .. Queued : At(n)' = At(n)
    BY <1>1, SentStays
<1>3. Whereabouts /\ Whereabouts'
    BY WhereaboutsHold, WhereaboutsNext
<1>4. CASE FlushApplies(Head(command_queue).arg)
    <2>1. outbox' = Sealed(open_batch) /\ open_batch' = NoBatch /\ open_batch # NoBatch
        BY <1>4 DEF handle_flush_open, FlushApplies
    <2>2. /\ Len(outbox') = 1 /\ outbox'[1].batch_id = open_batch.batch_id
          /\ outbox'[1].txs = open_batch.txs
        BY <2>1, SealedShape DEF Shapes
    <2>3. Closed' = Queued + 1 /\ Live' = Queued + 1 /\ Live = Queued + 1
        BY <1>2, <1>3, <2>1, <2>2 DEF Live, Whereabouts
    <2>4. ASSUME NEW n \in 1 .. Live
          PROVE  At(n)'.batch_id = At(n).batch_id /\ At(n)'.txs = At(n).txs
        <3>1. CASE n <= Queued
            BY <3>1, <1>2, <2>3
        <3>2. CASE n = Queued + 1
            <4>1. n \in Nat /\ n > Closed /\ n > Queued' /\ n <= Closed' /\ n - Queued' = 1
                BY <1>2, <2>3, <3>2
            <4>2. At(n) = open_batch
                BY <1>3, <4>1 DEF Whereabouts
            <4>3. At(n)' = outbox'[n - Queued']
                BY <1>3, <4>1 DEF Whereabouts
            <4> QED BY <2>2, <4>1, <4>2, <4>3
        <3> QED BY <3>1, <3>2, <1>2, <2>3
    <2> QED BY <2>3, <2>4 DEF SameBatches
<1>5. CASE ~FlushApplies(Head(command_queue).arg)
    <2>1. outbox' = outbox /\ open_batch' = open_batch
        BY <1>5 DEF handle_flush_open
    <2>2. SameClosed
        BY <1>1, <1>2, <2>1 DEF SameClosed, Closed
    <2> QED BY <2>1, <2>2, OpenStays
<1> QED BY <1>4, <1>5

\* SubmitTx changes the youngest batch, or adds one.
LEMMA SubmitTxAppends ==
    ASSUME Shapes, Shapes', handle_submit_tx
    PROVE  /\ Live' = Queued + 1 /\ Queued \in Nat
           /\ Live = Queued + (IF open_batch = NoBatch THEN 0 ELSE 1)
           /\ \A n \in 1 .. Queued : At(n)' = At(n)
           /\ \A n \in Nat : n = Queued + 1 =>
                 At(n) = open_batch /\ At(n)'.batch_id = Opened.batch_id /\ At(n)'.txs = Opened.txs
<1>1. UNCHANGED <<finished, job, dispatch_queue>> /\ outbox = << >>
    BY DEF handle_submit_tx, dispatchVars, Receives
<1>2. /\ Queued' = Queued /\ Closed = Queued /\ Queued \in Nat
      /\ \A n \in 1 .. Queued : At(n)' = At(n)
    BY <1>1, SentStays
<1>3. Whereabouts /\ Whereabouts'
    BY WhereaboutsHold, WhereaboutsNext
<1>4. \A n \in Nat : n = Queued + 1 => At(n) = open_batch
    BY <1>2, <1>3 DEF Whereabouts
<1>5. Live = Queued + (IF open_batch = NoBatch THEN 0 ELSE 1)
    BY <1>2 DEF Live
<1>6. CASE IsFull(Opened.txs)
    <2>1. outbox' = << Job(Opened, NoClient) >> /\ open_batch' = NoBatch
        BY <1>6, SubmitTxEffect
    <2>2. Len(outbox') = 1 /\ outbox'[1] = Job(Opened, NoClient)
        BY <2>1
    <2>3. Closed' = Queued + 1 /\ Live' = Queued + 1
        BY <1>2, <1>3, <2>1, <2>2 DEF Live, Whereabouts
    <2>4. ASSUME NEW n \in Nat, n = Queued + 1
          PROVE  At(n)'.batch_id = Opened.batch_id /\ At(n)'.txs = Opened.txs
        <3>1. n > Queued' /\ n <= Closed' /\ n - Queued' = 1
            BY <1>2, <2>3, <2>4
        <3>2. At(n)' = outbox'[n - Queued']
            BY <1>3, <3>1 DEF Whereabouts
        <3> QED BY <2>2, <3>1, <3>2 DEF Job
    <2> QED BY <1>2, <1>4, <1>5, <2>3, <2>4
<1>7. CASE ~IsFull(Opened.txs)
    <2>1. outbox' = outbox /\ open_batch' = Opened /\ Opened # NoBatch
        BY <1>7, SubmitTxEffect, OpenedShape
    <2>2. Closed' = Queued /\ Live' = Queued + 1
        BY <1>1, <1>2, <1>3, <2>1 DEF Live, Whereabouts
    <2>3. ASSUME NEW n \in Nat, n = Queued + 1 PROVE At(n)' = Opened
        <3>1. n > Closed'
            BY <1>2, <2>2, <2>3
        <3> QED BY <1>3, <2>1, <3>1 DEF Whereabouts
    <2> QED BY <1>2, <1>4, <1>5, <2>2, <2>3
<1> QED BY <1>6, <1>7

\* SubmitBatch leaves the batches alone and adds one, unless it is too large.
LEMMA SubmitBatchAppends ==
    ASSUME Shapes, Shapes', handle_submit_batch, ~(Head(command_queue).arg > max_batch_size)
    PROVE  /\ Live' = Live + 1 /\ Live \in Nat
           /\ \A n \in 1 .. Live : At(n)'.batch_id = At(n).batch_id /\ At(n)'.txs = At(n).txs
           /\ \A n \in Nat : n = Live + 1 => At(n)' = NewJob
<1>1. UNCHANGED <<finished, job, dispatch_queue>> /\ outbox = << >> /\ Receives("SubmitBatch")
    BY DEF handle_submit_batch, dispatchVars, Receives
<1>2. /\ Queued' = Queued /\ Closed = Queued /\ Queued \in Nat
      /\ \A n \in 1 .. Queued : At(n)' = At(n)
    BY <1>1, SentStays
<1>3. Whereabouts /\ Whereabouts'
    BY WhereaboutsHold, WhereaboutsNext
<1>4. outbox' = SealedFirst(open_batch, NewJob) /\ open_batch' = NoBatch
    BY SubmitBatchEffect
<1>5. CASE open_batch = NoBatch
    <2>1. Len(outbox') = 1 /\ outbox'[1] = NewJob
        BY <1>1, <1>4, <1>5, SubmitBatchOutbox
    <2>2. Live = Queued /\ Closed' = Queued + 1 /\ Live' = Queued + 1
        <3>1. Live = Queued
            BY <1>2, <1>5 DEF Live
        <3>2. Closed' = Queued + 1
            BY <1>2, <1>3, <2>1 DEF Whereabouts
        <3> QED BY <1>2, <1>4, <3>1, <3>2 DEF Live
    <2>3. ASSUME NEW n \in Nat, n = Queued + 1 PROVE At(n)' = NewJob
        <3>1. n > Queued' /\ n <= Closed' /\ n - Queued' = 1
            BY <1>2, <2>2, <2>3
        <3>2. At(n)' = outbox'[n - Queued']
            BY <1>3, <3>1 DEF Whereabouts
        <3> QED BY <2>1, <3>1, <3>2
    <2> QED BY <1>2, <2>2, <2>3
<1>6. CASE open_batch # NoBatch
    <2>1. /\ Len(outbox') = 2 /\ outbox'[2] = NewJob
          /\ outbox'[1].batch_id = open_batch.batch_id /\ outbox'[1].txs = open_batch.txs
        BY <1>1, <1>4, <1>6, SubmitBatchOutbox
    <2>2. Live = Queued + 1 /\ Closed' = Queued + 2 /\ Live' = Queued + 2
        BY <1>2, <1>3, <1>4, <1>6, <2>1 DEF Live, Whereabouts
    <2>3. ASSUME NEW n \in Nat, n \in {Queued + 1, Queued + 2} PROVE At(n)' = outbox'[n - Queued]
        <3>1. n > Queued' /\ n <= Closed' /\ Queued' = Queued
            BY <1>2, <2>2, <2>3
        <3> QED BY <1>3, <3>1 DEF Whereabouts
    <2>4. ASSUME NEW n \in Nat, n = Live + 1 PROVE At(n)' = NewJob
        <3>1. n = Queued + 2 /\ n - Queued = 2
            BY <1>2, <2>2, <2>4
        <3> QED BY <2>1, <2>3, <3>1
    <2>5. ASSUME NEW n \in 1 .. Live
          PROVE  At(n)'.batch_id = At(n).batch_id /\ At(n)'.txs = At(n).txs
        <3>1. CASE n <= Queued
            BY <3>1, <1>2, <2>2
        <3>2. CASE n = Queued + 1
            <4>1. n \in Nat /\ n > Closed /\ n - Queued = 1
                BY <1>2, <3>2
            <4>2. At(n) = open_batch
                BY <1>3, <4>1 DEF Whereabouts
            <4>3. At(n)' = outbox'[1]
                BY <2>3, <3>2, <4>1
            <4> QED BY <2>1, <4>2, <4>3
        <3> QED BY <3>1, <3>2, <1>2, <2>2
    <2> QED BY <1>2, <2>2, <2>4, <2>5
<1> QED BY <1>5, <1>6

\* Only two handlers number batches and transactions.
LEMMA StepKinds ==
    ASSUME Shapes, Shapes', [Next]_vars
    PROVE  \/ /\ SameBatches /\ UNCHANGED <<next_batch_id, next_tx_id>>
              /\ open_batch' = open_batch \/ open_batch' = NoBatch
           \/ handle_submit_tx
           \/ handle_submit_batch /\ ~(Head(command_queue).arg > max_batch_size)
<1> DEFINE Goal == /\ SameBatches /\ UNCHANGED <<next_batch_id, next_tx_id>>
                   /\ open_batch' = open_batch \/ open_batch' = NoBatch
<1>1. ASSUME UNCHANGED <<finished, job, dispatch_queue, actorVars>> PROVE Goal
    <2>1. UNCHANGED <<next_batch_id, next_tx_id, open_batch, outbox>>
        BY <1>1 DEF actorVars
    <2>2. SameClosed
        BY <1>1, <2>1 DEF SameClosed, Closed, Queued, Taken, At
    <2> QED BY <2>1, <2>2, OpenStays
<1>2. ASSUME NEW c \in Clients, Submit(c) PROVE Goal
    BY <1>1, <1>2 DEF Submit, dispatchVars
<1>3. ASSUME NEW b \in timers, FlushTimer(b) PROVE Goal
    BY <1>1, <1>3 DEF FlushTimer, dispatchVars
<1>4. ASSUME NEW s \in Shards, Shard(s) \/ FailCall(s) PROVE Goal
    BY <1>1, <1>4 DEF Shard, Deliver, ExecuteBatch, FailCall, dispatchVars
<1>5. ASSUME UNCHANGED vars PROVE Goal
    BY <1>1, <1>5 DEF vars, dispatchVars
<1>6. ASSUME handle_flush_open PROVE Goal
    <2>1. UNCHANGED <<next_batch_id, next_tx_id>> /\ (open_batch' = open_batch \/ open_batch' = NoBatch)
        BY <1>6 DEF handle_flush_open
    <2> QED BY <1>6, <2>1, FlushMoves
<1>7. ASSUME handle_submit_batch, Head(command_queue).arg > max_batch_size PROVE Goal
    <2>1. UNCHANGED actorVars
        BY <1>7, SubmitBatchEffect
    <2> QED BY <1>1, <1>7, <2>1 DEF handle_submit_batch, dispatchVars
<1>8. ASSUME dispatch_batch PROVE Goal
    <2>1. SameClosed
        BY <1>8, DispatchMoves
    <2>2. UNCHANGED <<next_batch_id, next_tx_id, open_batch>>
        BY <1>8 DEF dispatch_batch
    <2> QED BY <2>1, <2>2, OpenStays
<1>9. ASSUME TakeJob PROVE Goal
    <2>1. SameClosed
        BY <1>9, TakeMoves
    <2>2. UNCHANGED <<next_batch_id, next_tx_id, open_batch>>
        BY <1>9 DEF TakeJob, actorVars
    <2> QED BY <2>1, <2>2, OpenStays
<1>10. ASSUME FinishJob PROVE Goal
    <2>1. SameClosed
        BY <1>10, FinishMoves
    <2>2. UNCHANGED <<next_batch_id, next_tx_id, open_batch>>
        BY <1>10 DEF FinishJob, actorVars
    <2> QED BY <2>1, <2>2, OpenStays
<1> HIDE DEF Goal
<1>11. Goal \/ handle_submit_tx \/ (handle_submit_batch /\ ~(Head(command_queue).arg > max_batch_size))
    BY <1>2, <1>3, <1>4, <1>5, <1>6, <1>7, <1>8, <1>9, <1>10 DEF Next, Actor, Dispatcher, Timers
<1> QED BY <1>11 DEF Goal

\* The pipeline is empty at the start.
LEMMA PipelineInitially == Init => PipelineInv
<1> SUFFICES ASSUME Init PROVE PipelineInv
    OBVIOUS
<1>1. Live = 0 /\ next_batch_id = 1 /\ open_batch.txs = << >>
    BY Constants DEF Init, Live, Closed, Queued, Taken
<1> QED BY <1>1, Constants DEF PipelineInv, AllBatches

\* Every step keeps the batches numbered in their order, and none too large.
LEMMA PipelineStep ==
    ASSUME Shapes, Shapes', PipelineInv, [Next]_vars
    PROVE  PipelineInv'
<1>0. /\ next_batch_id = Live + 1 /\ next_batch_id \in Nat \ {0} /\ Live \in Nat
      /\ \A n \in 1 .. Live : At(n).batch_id = n /\ Len(At(n).txs) <= max_batch_size
      /\ Len(open_batch.txs) < max_batch_size /\ Len(open_batch.txs) \in Nat
      /\ max_batch_size \in Nat \ {0}
    <2>1. next_batch_id \in Nat \ {0} /\ next_batch_id = Live + 1
        BY DEF Shapes, PipelineInv
    <2>2. Live \in Nat
        BY CountsAreNat DEF Live
    <2>3. 1 .. Live = AllBatches
        BY <2>1, <2>2 DEF AllBatches
    <2>4. Len(open_batch.txs) \in Nat
        BY OpenedShape
    <2> QED BY <2>1, <2>2, <2>3, <2>4, Constants DEF PipelineInv
<1>a. ASSUME next_batch_id' = Live' + 1, Live' \in Nat,
             \A n \in 1 .. Live' : At(n)'.batch_id = n /\ Len(At(n)'.txs) <= max_batch_size,
             Len(open_batch'.txs) < max_batch_size
      PROVE  PipelineInv'
    <2>1. 1 .. Live' = AllBatches'
        BY <1>a DEF AllBatches
    <2> QED BY <1>a, <2>1 DEF PipelineInv
<1>1. CASE /\ SameBatches /\ UNCHANGED <<next_batch_id, next_tx_id>>
           /\ open_batch' = open_batch \/ open_batch' = NoBatch
    <2>1. Len(open_batch'.txs) < max_batch_size
        BY <1>0, <1>1, Constants
    <2> QED BY <1>0, <1>1, <1>a, <2>1 DEF SameBatches
<1>2. CASE handle_submit_tx
    <2>1. /\ Live' = Queued + 1 /\ Queued \in Nat
          /\ Live = Queued + (IF open_batch = NoBatch THEN 0 ELSE 1)
          /\ \A n \in 1 .. Queued : At(n)' = At(n)
          /\ \A n \in Nat : n = Queued + 1 =>
                At(n) = open_batch /\ At(n)'.batch_id = Opened.batch_id /\ At(n)'.txs = Opened.txs
        BY <1>2, SubmitTxAppends
    <2>2. Opened.batch_id = Queued + 1 /\ next_batch_id' = Queued + 2
        <3>1. CASE open_batch = NoBatch
            <4>1. next_batch_id = Queued + 1 /\ next_batch_id' = next_batch_id + 1
                BY <3>1, <2>1, <1>0, <1>2, SubmitTxEffect
            <4> QED BY <3>1, <4>1, <2>1 DEF Opened
        <3>2. CASE open_batch # NoBatch
            <4>1. next_batch_id = Queued + 2 /\ next_batch_id' = next_batch_id
                BY <3>2, <2>1, <1>0, <1>2, SubmitTxEffect
            <4>2. Queued + 1 \in 1 .. Live /\ At(Queued + 1) = open_batch
                BY <3>2, <2>1
            <4>3. open_batch.batch_id = Queued + 1
                BY <4>2, <1>0
            <4> QED BY <3>2, <4>1, <4>3, <2>1 DEF Opened
        <3> QED BY <3>1, <3>2
    <2>3. Len(Opened.txs) <= max_batch_size /\ Len(Opened.txs) \in Nat
        BY <1>0, OpenedShape
    <2>4. ASSUME NEW n \in 1 .. Live'
          PROVE  At(n)'.batch_id = n /\ Len(At(n)'.txs) <= max_batch_size
        <3>1. CASE n <= Queued
            <4>1. n \in 1 .. Queued /\ n \in 1 .. Live
                BY <3>1, <2>1
            <4> QED BY <4>1, <2>1, <1>0
        <3>2. CASE n = Queued + 1
            BY <3>2, <2>1, <2>2, <2>3
        <3> QED BY <3>1, <3>2, <2>1
    <2>5. Len(open_batch'.txs) < max_batch_size
        <3>1. CASE IsFull(Opened.txs)
            BY <1>0, <1>2, <3>1, SubmitTxEffect, Constants
        <3>2. CASE ~IsFull(Opened.txs)
            <4>1. open_batch' = Opened
                BY <1>2, <3>2, SubmitTxEffect
            <4> QED BY <3>2, <4>1, <2>3, <1>0 DEF IsFull
        <3> QED BY <3>1, <3>2
    <2>6. next_batch_id' = Live' + 1 /\ Live' \in Nat
        BY <2>1, <2>2
    <2> QED BY <1>a, <2>4, <2>5, <2>6
<1>3. CASE handle_submit_batch /\ ~(Head(command_queue).arg > max_batch_size)
    <2>1. /\ Live' = Live + 1
          /\ \A n \in 1 .. Live : At(n)'.batch_id = At(n).batch_id /\ At(n)'.txs = At(n).txs
          /\ \A n \in Nat : n = Live + 1 => At(n)' = NewJob
        BY <1>3, SubmitBatchAppends
    <2>2. open_batch' = NoBatch /\ next_batch_id' = next_batch_id + 1
        BY <1>3, SubmitBatchEffect
    <2>3. /\ NewJob.batch_id = next_batch_id /\ NewJob.txs = NewIds
          /\ Len(NewIds) = Head(command_queue).arg /\ Head(command_queue).arg \in Nat
        BY <1>3, NewJobShape DEF handle_submit_batch
    <2>4. Len(NewJob.txs) <= max_batch_size
        BY <1>0, <1>3, <2>3
    <2>5. ASSUME NEW n \in 1 .. Live'
          PROVE  At(n)'.batch_id = n /\ Len(At(n)'.txs) <= max_batch_size
        <3>1. CASE n <= Live
            <4>1. n \in 1 .. Live
                BY <3>1, <1>0, <2>1
            <4> QED BY <4>1, <2>1, <1>0
        <3>2. CASE n = Live + 1
            BY <3>2, <1>0, <2>1, <2>3, <2>4
        <3> QED BY <3>1, <3>2, <1>0, <2>1
    <2>6. Len(open_batch'.txs) < max_batch_size
        BY <1>0, <2>2, Constants
    <2>7. next_batch_id' = Live' + 1 /\ Live' \in Nat
        BY <1>0, <2>1, <2>2
    <2> QED BY <1>a, <2>5, <2>6, <2>7
<1> QED BY <1>1, <1>2, <1>3, StepKinds

\* No transaction is numbered at the start.
LEMMA TxInitially == Init => TxInv
<1> SUFFICES ASSUME Init PROVE TxInv
    OBVIOUS
<1> DEFINE start == [n \in 1 .. 1 |-> 1]
<1>1. next_batch_id = 1 /\ next_tx_id = 1 /\ AllBatches = {}
    BY DEF Init, AllBatches
<1>2. start \in [1 .. next_batch_id -> Nat \ {0}]
    BY <1>1
<1>3. Consecutive(start)
    BY <1>1 DEF Consecutive
<1> QED BY <1>2, <1>3 DEF TxInv

\* Every step keeps the transactions of the pipeline consecutive: the witness
\* start is extended by the two handlers that number transactions.
LEMMA TxStep ==
    ASSUME Shapes, Shapes', PipelineInv, PipelineInv', TxInv, [Next]_vars
    PROVE  TxInv'
<1>1. PICK start \in [1 .. next_batch_id -> Nat \ {0}] : Consecutive(start)
    BY DEF TxInv
<1>2. /\ next_batch_id \in Nat \ {0} /\ next_tx_id \in Nat \ {0} /\ next_batch_id = Live + 1
      /\ Live \in Nat /\ Live' \in Nat /\ next_batch_id' = Live' + 1
      /\ AllBatches = 1 .. Live /\ AllBatches' = 1 .. Live'
    <2>1. next_batch_id \in Nat \ {0} /\ next_tx_id \in Nat \ {0} /\ next_batch_id' \in Nat \ {0}
        BY DEF Shapes
    <2>2. next_batch_id = Live + 1 /\ next_batch_id' = Live' + 1
        BY DEF PipelineInv
    <2>3. Live \in Nat
        BY CountsAreNat DEF Live
    <2>4. Live' \in Nat
        <3>1. (Shapes => Live \in Nat)'
            BY LiveIsNat, PTL
        <3> QED BY <3>1
    <2> QED BY <2>1, <2>2, <2>3, <2>4 DEF AllBatches
<1>3. /\ start[1] = 1 /\ start[next_batch_id] = next_tx_id
      /\ \A n \in 1 .. Live :
            /\ start[n + 1] = start[n] + Len(At(n).txs)
            /\ \A k \in 1 .. Len(At(n).txs) : At(n).txs[k] = start[n] + k - 1
    BY <1>1, <1>2 DEF Consecutive
<1>4. ASSUME NEW f \in [1 .. Live' + 1 -> Nat \ {0}],
             f[1] = 1, f[Live' + 1] = next_tx_id',
             \A n \in 1 .. Live' :
                /\ f[n + 1] = f[n] + Len(At(n)'.txs)
                /\ \A k \in 1 .. Len(At(n)'.txs) : At(n)'.txs[k] = f[n] + k - 1
      PROVE  TxInv'
    <2>1. f \in [1 .. next_batch_id' -> Nat \ {0}]
        BY <1>2
    <2>2. Consecutive(f)'
        BY <1>2, <1>4 DEF Consecutive
    <2> QED BY <2>1, <2>2 DEF TxInv
<1>5. CASE SameBatches /\ UNCHANGED <<next_batch_id, next_tx_id>>
    <2>1. /\ start \in [1 .. Live' + 1 -> Nat \ {0}] /\ start[1] = 1 /\ start[Live' + 1] = next_tx_id'
        BY <1>2, <1>3, <1>5
    <2>2. \A n \in 1 .. Live' :
             /\ start[n + 1] = start[n] + Len(At(n)'.txs)
             /\ \A k \in 1 .. Len(At(n)'.txs) : At(n)'.txs[k] = start[n] + k - 1
        BY <1>3, <1>5 DEF SameBatches
    <2> QED BY <1>4, <2>1, <2>2
<1>6. CASE handle_submit_tx
    <2> DEFINE m == Queued + 1
               f == [n \in 1 .. Live' + 1 |-> IF n <= m THEN start[n] ELSE next_tx_id + 1]
    <2>1. /\ Live' = Queued + 1 /\ Queued \in Nat
          /\ Live = Queued + (IF open_batch = NoBatch THEN 0 ELSE 1)
          /\ \A n \in 1 .. Queued : At(n)' = At(n)
          /\ At(m) = open_batch
          /\ \A n \in Nat : n = m => At(n)'.txs = Opened.txs
        BY <1>6, SubmitTxAppends
    <2>2. m \in Nat \ {0} /\ Live' + 1 = m + 1 /\ m \in 1 .. next_batch_id
        BY <1>2, <2>1
    <2>3. next_tx_id' = next_tx_id + 1
        BY <1>6, SubmitTxEffect
    <2>4. start[m] \in Nat \ {0}
        BY <2>2
    <2>5. /\ start[m] + Len(open_batch.txs) = next_tx_id
          /\ \A k \in 1 .. Len(open_batch.txs) : open_batch.txs[k] = start[m] + k - 1
        <3>1. CASE open_batch = NoBatch
            <4>1. next_batch_id = m /\ Len(open_batch.txs) = 0
                BY <1>2, <2>1, <3>1, Constants
            <4> QED BY <1>3, <2>4, <4>1
        <3>2. CASE open_batch # NoBatch
            <4>1. next_batch_id = m + 1 /\ m \in 1 .. Live
                BY <1>2, <2>1, <3>2
            <4> QED BY <1>3, <2>1, <4>1
        <3> QED BY <3>1, <3>2
    <2>6. /\ Len(Opened.txs) = Len(open_batch.txs) + 1 /\ Len(open_batch.txs) \in Nat
          /\ Opened.txs[Len(open_batch.txs) + 1] = next_tx_id
          /\ \A k \in 1 .. Len(open_batch.txs) : Opened.txs[k] = open_batch.txs[k]
        BY OpenedShape
    <2>7. f \in [1 .. Live' + 1 -> Nat \ {0}] /\ f[1] = 1
        <3>1. \A n \in 1 .. Live' + 1 : n <= m => n \in 1 .. next_batch_id
            BY <1>2, <2>1, <2>2
        <3>a. next_tx_id + 1 \in Nat \ {0} /\ \A n \in 1 .. next_batch_id : start[n] \in Nat \ {0}
            BY <1>2
        <3>2. \A n \in 1 .. Live' + 1 : (IF n <= m THEN start[n] ELSE next_tx_id + 1) \in Nat \ {0}
            BY <3>a, <3>1
        <3>3. 1 \in 1 .. Live' + 1 /\ 1 <= m
            BY <2>2
        <3> QED BY <1>3, <3>2, <3>3
    <2>8. f[Live' + 1] = next_tx_id'
        BY <2>2, <2>3
    <2>9. \A n \in 1 .. m : f[n] = start[n]
        BY <2>2
    <2>10. f[m + 1] = next_tx_id + 1
        BY <2>2
    <2> HIDE DEF f
    <2>11. ASSUME NEW n \in 1 .. Live'
           PROVE  /\ f[n + 1] = f[n] + Len(At(n)'.txs)
                  /\ \A k \in 1 .. Len(At(n)'.txs) : At(n)'.txs[k] = f[n] + k - 1
        <3>1. CASE n <= Queued
            <4>1. n \in 1 .. Queued /\ n \in 1 .. Live /\ n \in 1 .. m /\ n + 1 \in 1 .. m
                BY <3>1, <2>1
            <4>2. f[n] = start[n] /\ f[n + 1] = start[n + 1] /\ At(n)' = At(n)
                BY <4>1, <2>1, <2>9
            <4> QED BY <4>1, <4>2, <1>3
        <3>2. CASE n = m
            <4>1. f[n] = start[m] /\ f[n + 1] = next_tx_id + 1 /\ At(n)'.txs = Opened.txs
                BY <3>2, <2>1, <2>2, <2>9, <2>10
            <4>2. next_tx_id + 1 = start[m] + Len(Opened.txs)
                <5>1. \A x, y, z \in Nat : x + y = z => z + 1 = x + (y + 1)
                    OBVIOUS
                <5>2. /\ start[m] \in Nat /\ Len(open_batch.txs) \in Nat /\ next_tx_id \in Nat
                      /\ start[m] + Len(open_batch.txs) = next_tx_id
                    BY <1>2, <2>4, <2>5, <2>6
                <5>3. next_tx_id + 1 = start[m] + (Len(open_batch.txs) + 1)
                    BY <5>1, <5>2
                <5>4. Len(Opened.txs) = Len(open_batch.txs) + 1
                    BY <2>6
                <5> QED BY <5>3, <5>4
            <4>3. ASSUME NEW k \in 1 .. Len(Opened.txs) PROVE Opened.txs[k] = start[m] + k - 1
                <5>1. CASE k = Len(open_batch.txs) + 1
                    <6>1. start[m] + k - 1 = next_tx_id
                        BY <5>1, <2>4, <2>5, <2>6
                    <6> QED BY <5>1, <6>1, <2>6
                <5>2. CASE k # Len(open_batch.txs) + 1
                    <6>1. k \in 1 .. Len(open_batch.txs)
                        BY <5>2, <2>6
                    <6> QED BY <6>1, <2>5, <2>6
                <5> QED BY <5>1, <5>2
            <4> QED BY <4>1, <4>2, <4>3
        <3> QED BY <3>1, <3>2, <2>1
    <2> QED BY <1>4, <2>7, <2>8, <2>11
<1>7. CASE handle_submit_batch /\ ~(Head(command_queue).arg > max_batch_size)
    <2> DEFINE m == Live + 1
               f == [n \in 1 .. Live' + 1 |-> IF n <= m THEN start[n] ELSE next_tx_id + Len(NewIds)]
    <2>1. /\ Live' = Live + 1
          /\ \A n \in 1 .. Live : At(n)'.txs = At(n).txs
          /\ \A n \in Nat : n = m => At(n)' = NewJob
        BY <1>7, SubmitBatchAppends
    <2>2. /\ NewJob.txs = NewIds /\ Len(NewIds) = Head(command_queue).arg /\ Len(NewIds) \in Nat
          /\ \A k \in 1 .. Len(NewIds) : NewIds[k] = next_tx_id + k - 1
        BY <1>7, NewJobShape DEF handle_submit_batch
    <2>3. next_tx_id' = next_tx_id + Len(NewIds)
        BY <1>7, <2>2, SubmitBatchEffect
    <2>4. m \in Nat \ {0} /\ Live' + 1 = m + 1 /\ next_batch_id = m /\ start[m] = next_tx_id
        BY <1>2, <1>3, <2>1
    <2>7. f \in [1 .. Live' + 1 -> Nat \ {0}] /\ f[1] = 1
        <3>1. \A n \in 1 .. Live' + 1 : n <= m => n \in 1 .. next_batch_id
            BY <1>2, <2>4
        <3>2. \A n \in 1 .. Live' + 1 : (IF n <= m THEN start[n] ELSE next_tx_id + Len(NewIds)) \in Nat \ {0}
            BY <1>2, <2>2, <3>1
        <3>3. 1 \in 1 .. Live' + 1 /\ 1 <= m
            BY <2>4
        <3> QED BY <1>3, <3>2, <3>3
    <2>8. f[Live' + 1] = next_tx_id'
        BY <2>3, <2>4
    <2>9. \A n \in 1 .. m : f[n] = start[n]
        BY <2>4
    <2>10. f[m + 1] = next_tx_id + Len(NewIds)
        BY <2>4
    <2> HIDE DEF f
    <2>11. ASSUME NEW n \in 1 .. Live'
           PROVE  /\ f[n + 1] = f[n] + Len(At(n)'.txs)
                  /\ \A k \in 1 .. Len(At(n)'.txs) : At(n)'.txs[k] = f[n] + k - 1
        <3>1. CASE n <= Live
            <4>1. n \in 1 .. Live /\ n \in 1 .. m /\ n + 1 \in 1 .. m
                BY <3>1, <1>2
            <4>2. f[n] = start[n] /\ f[n + 1] = start[n + 1] /\ At(n)'.txs = At(n).txs
                BY <4>1, <2>1, <2>9
            <4> QED BY <4>1, <4>2, <1>3
        <3>2. CASE n = m
            <4>1. f[n] = next_tx_id /\ f[n + 1] = next_tx_id + Len(NewIds) /\ At(n)'.txs = NewIds
                BY <3>2, <2>1, <2>2, <2>4, <2>9, <2>10
            <4> QED BY <4>1, <2>2
        <3> QED BY <3>1, <3>2, <1>2, <2>1
    <2> QED BY <1>4, <2>7, <2>8, <2>11
<1> QED BY <1>5, <1>6, <1>7, StepKinds

\* The sequence Pipeline has the batches where At finds them.
LEMMA PipelineIsAt ==
    ASSUME Shapes
    PROVE  /\ Len(Pipeline) = Live /\ DOMAIN Pipeline = 1 .. Live
           /\ \A n \in 1 .. Live : /\ Pipeline[n].batch_id = At(n).batch_id
                                   /\ Pipeline[n].txs = At(n).txs /\ At(n).txs \in Seq(Nat)
<1> DEFINE R  == DoneRec \cup JobRec
           j  == IF job = NoBatch THEN << >> ELSE <<job>>
           o  == Sealed(open_batch)
           p1 == finished \o j
           p2 == p1 \o dispatch_queue
           p3 == p2 \o outbox
           p4 == p3 \o o
<1>0. /\ (job = NoBatch \/ job \in JobRec) /\ finished \in Seq(DoneRec)
      /\ dispatch_queue \in Seq(JobRec) /\ outbox \in Seq(JobRec)
      /\ open_batch \in BatchRec /\ (open_batch = NoBatch \/ open_batch.batch_id # 0)
    BY DEF Shapes
<1>1. /\ finished \in Seq(R) /\ dispatch_queue \in Seq(R) /\ outbox \in Seq(R) /\ j \in Seq(R)
      /\ o \in Seq(R)
    <2>1. DoneRec \subseteq R /\ JobRec \subseteq R
        OBVIOUS
    <2>2. j \in Seq(JobRec)
        BY <1>0
    <2>3. o \in Seq(JobRec)
        BY <1>0, SealedShape
    <2> HIDE DEF R, o, j
    <2> QED BY <1>0, <2>1, <2>2, <2>3, SeqMonotonic
<1>2. /\ Len(j) = (IF job = NoBatch THEN 0 ELSE 1) /\ (job # NoBatch => j[1] = job)
    OBVIOUS
<1>3. /\ open_batch = NoBatch => Len(o) = 0
      /\ open_batch # NoBatch => Len(o) = 1 /\ o[1].batch_id = open_batch.batch_id
                                 /\ o[1].txs = open_batch.txs
    BY <1>0, SealedShape
<1>4. Pipeline = p4
    BY DEF Pipeline
<1> HIDE DEF R, o, j, p1, p2, p3, p4
<1>5. /\ p1 \in Seq(R) /\ Len(p1) = Taken
      /\ \A n \in 1 .. Taken : p1[n] = IF n <= Len(finished) THEN finished[n] ELSE job
    <2>1. /\ p1 \in Seq(R) /\ Len(p1) = Len(finished) + Len(j)
          /\ \A n \in 1 .. Len(finished) + Len(j) :
                p1[n] = IF n <= Len(finished) THEN finished[n] ELSE j[n - Len(finished)]
        BY <1>1, ConcatProperties DEF p1
    <2>2. Len(finished) + Len(j) = Taken
        BY <1>2 DEF Taken
    <2>3. ASSUME NEW n \in 1 .. Taken, ~(n <= Len(finished)) PROVE j[n - Len(finished)] = job
        <3>1. job # NoBatch /\ n - Len(finished) = 1
            BY <2>3, <1>1, CountsAreNat DEF Taken
        <3> QED BY <3>1, <1>2
    <2> QED BY <2>1, <2>2, <2>3
<1>6. /\ p2 \in Seq(R) /\ Len(p2) = Queued
      /\ \A n \in 1 .. Queued : p2[n] = IF n <= Taken THEN p1[n] ELSE dispatch_queue[n - Taken]
    BY <1>1, <1>5, ConcatProperties DEF p2, Queued
<1>7. /\ p3 \in Seq(R) /\ Len(p3) = Closed
      /\ \A n \in 1 .. Closed : p3[n] = IF n <= Queued THEN p2[n] ELSE outbox[n - Queued]
    BY <1>1, <1>6, ConcatProperties DEF p3, Closed
<1>8. /\ p4 \in Seq(R) /\ Len(p4) = Live
      /\ \A n \in 1 .. Live : p4[n] = IF n <= Closed THEN p3[n] ELSE o[n - Closed]
    <2>1. Live = Closed + Len(o)
        BY <1>3 DEF Live
    <2>2. /\ p4 \in Seq(R) /\ Len(p4) = Len(p3) + Len(o)
          /\ \A n \in 1 .. Len(p3) + Len(o) : p4[n] = IF n <= Len(p3) THEN p3[n] ELSE o[n - Len(p3)]
        BY <1>1, <1>7, ConcatProperties DEF p4
    <2>3. Len(p3) = Closed
        BY <1>7
    <2> QED BY <2>1, <2>2, <2>3
<1>9. ASSUME NEW n \in 1 .. Live
      PROVE  p4[n].batch_id = At(n).batch_id /\ p4[n].txs = At(n).txs /\ At(n).txs \in Seq(Nat)
    <2>0. n \in Nat /\ n >= 1 /\ Closed \in Nat /\ Queued \in Nat /\ Taken \in Nat /\ Live \in Nat
          /\ n <= Live
          /\ Len(finished) \in Nat /\ Len(finished) <= Taken /\ Taken <= Queued /\ Queued <= Closed
        BY CountsAreNat, LiveIsNat
    <2>1. CASE n <= Closed
        <3>1. n \in 1 .. Closed /\ p4[n] = p3[n]
            BY <2>0, <2>1, <1>8
        <3>2. p4[n] = At(n)
            <4>1. CASE n > Queued
                <5>1. p3[n] = outbox[n - Queued]
                    BY <1>7, <2>0, <3>1, <4>1
                <5>2. At(n) = outbox[n - Queued]
                    BY <2>0, <2>1, <4>1 DEF At
                <5> QED BY <3>1, <5>1, <5>2
            <4>2. CASE n <= Queued /\ n > Taken
                <5>1. n \in 1 .. Queued /\ p3[n] = p2[n]
                    BY <1>7, <2>0, <3>1, <4>2
                <5>2. p2[n] = dispatch_queue[n - Taken]
                    BY <1>6, <2>0, <4>2, <5>1
                <5>3. At(n) = dispatch_queue[n - Taken]
                    BY <2>0, <2>1, <4>2 DEF At
                <5> QED BY <3>1, <5>1, <5>2, <5>3
            <4>3. CASE n <= Taken
                <5>1. n \in 1 .. Queued /\ n \in 1 .. Taken /\ n <= Queued
                    BY <2>0, <4>3
                <5>2. p3[n] = p2[n] /\ p2[n] = p1[n]
                    BY <1>6, <1>7, <3>1, <4>3, <5>1
                <5>3. p1[n] = IF n <= Len(finished) THEN finished[n] ELSE job
                    BY <1>5, <5>1
                <5>4. At(n) = IF n <= Len(finished) THEN finished[n] ELSE job
                    BY <4>3 DEF At
                <5> QED BY <3>1, <5>2, <5>3, <5>4
            <4> QED BY <2>0, <4>1, <4>2, <4>3
        <3>3. p4[n] \in R
            BY <1>8
        <3>4. p4[n].txs \in Seq(Nat)
            BY <3>3 DEF R, DoneRec, JobRec
        <3> QED BY <3>2, <3>4
    <2>2. CASE n > Closed
        <3>1. open_batch # NoBatch /\ n = Closed + 1 /\ n - Closed = 1
            BY <2>0, <2>2 DEF Live
        <3>2. p4[n] = o[1]
            BY <1>8, <2>0, <2>2, <3>1
        <3>3. At(n) = open_batch
            BY <2>0, <2>2, <3>1, WhereaboutsHold DEF Whereabouts
        <3>4. open_batch.txs \in Seq(Nat)
            BY <1>0 DEF BatchRec
        <3> QED BY <3>1, <3>2, <3>3, <3>4, <1>3
    <2> QED BY <2>0, <2>1, <2>2
<1> QED BY <1>4, <1>8, <1>9

\* The invariants say what PipelineInOrder says.
LEMMA PipelineFollows ==
    ASSUME Shapes, PipelineInv, TxInv
    PROVE  PipelineInOrder
<1>1. PICK start \in [1 .. next_batch_id -> Nat \ {0}] : Consecutive(start)
    BY DEF TxInv
<1>2. next_batch_id = Live + 1 /\ Live \in Nat /\ AllBatches = 1 .. Live /\ next_tx_id \in Nat
    BY LiveIsNat DEF PipelineInv, AllBatches, Shapes
<1>3. /\ Len(Pipeline) = Live /\ DOMAIN Pipeline = 1 .. Live
      /\ \A n \in 1 .. Live : /\ Pipeline[n].batch_id = At(n).batch_id
                              /\ Pipeline[n].txs = At(n).txs /\ At(n).txs \in Seq(Nat)
    BY PipelineIsAt
<1>4. \A n \in DOMAIN Pipeline : Len(Pipeline[n].txs) <= max_batch_size /\ Pipeline[n].batch_id = n
    BY <1>2, <1>3 DEF PipelineInv
<1> DEFINE seqs == [n \in DOMAIN Pipeline |-> Pipeline[n].txs]
<1>5. seqs \in Seq(Seq(Nat)) /\ Len(seqs) = Live /\ \A n \in 1 .. Live : seqs[n] = At(n).txs
    <2>1. seqs = [n \in 1 .. Live |-> At(n).txs]
        BY <1>3
    <2>2. seqs \in [1 .. Live -> Seq(Nat)]
        BY <2>1, <1>3
    <2>3. seqs \in Seq(Seq(Nat)) /\ Len(seqs) = Live
        <3> HIDE DEF seqs
        <3> QED BY <2>2, <1>2
    <2> QED BY <2>1, <2>3
<1> HIDE DEF seqs
<1>6. /\ start \in [1 .. Len(seqs) + 1 -> Nat \ {0}] /\ start[1] = 1
      /\ start[Len(seqs) + 1] = next_tx_id
      /\ \A n \in 1 .. Len(seqs) : /\ start[n + 1] = start[n] + Len(seqs[n])
                                   /\ \A k \in 1 .. Len(seqs[n]) : seqs[n][k] = start[n] + k - 1
    BY <1>1, <1>2, <1>5 DEF Consecutive
<1>7. FlattenSeq(seqs) = UpTo(next_tx_id - 1)
    BY <1>5, <1>6, FlattenConsecutive
<1>8. FlattenSeq(seqs) = [n \in 1 .. next_tx_id - 1 |-> n]
    BY <1>7 DEF UpTo
<1>9. Len(Pipeline) = next_batch_id - 1
    BY <1>2, <1>3
<1> QED BY <1>4, <1>8, <1>9 DEF PipelineInOrder, seqs

\* No transaction is lost, doubled or overtaken on its way from the command
\* channel to the log, and no batch is too large, for any number of clients, any
\* sizes of batches and channels, and whichever of SubmitTx, SubmitBatch, a full
\* batch or a flush timer seals a batch (SequencerRuntime).
THEOREM PipelineInOrderAlways == Spec => []PipelineInOrder
<1> DEFINE I == Shapes /\ PipelineInv /\ TxInv
<1>1. Init => I
    BY ShapesInitially, PipelineInitially, TxInitially
<1>2. I /\ [Next]_vars => I'
    BY ShapesStep, PipelineStep, TxStep
<1>3. I => PipelineInOrder
    BY PipelineFollows
<1> QED BY <1>1, <1>2, <1>3, PTL DEF Spec

-----------------------------------------------------------------------------
(* Shards *)

\* What Deliver, ExecuteBatch, a lost call, a lost batch and TakeJob do to the
\* three places.
LEMMA OnceDeliver ==
    ASSUME NEW n \in Nat, NEW t, NEW q, NEW e, Once(n, t, q, e), NEW b \in t
    PROVE  Once(n, t \ {b}, Append(q, b), e)
<1>1. q \in Seq(1 .. n) /\ b \in 1 .. n /\ Len(q) \in Nat
    BY DEF Once
<1> DEFINE p == Append(q, b)
<1>2. /\ p \in Seq(1 .. n) /\ Len(p) = Len(q) + 1 /\ p[Len(q) + 1] = b
      /\ \A i \in 1 .. Len(q) : p[i] = q[i]
    BY <1>1, AppendTo
<1>3. \A i \in 1 .. Len(p) : i = Len(q) + 1 \/ i \in 1 .. Len(q)
    BY <1>1, <1>2
<1> HIDE DEF p
<1>4. \A i \in 1 .. Len(p) : p[i] \notin t \ {b}
    BY <1>2, <1>3 DEF Once
<1>5. \A i \in 1 .. Len(p), j \in 1 .. Len(e) : p[i] # e[j]
    BY <1>2, <1>3 DEF Once
<1>6. \A i, j \in 1 .. Len(p) : p[i] = p[j] => i = j
    BY <1>2, <1>3 DEF Once
<1>7. Once(n, t \ {b}, p, e)
    BY <1>2, <1>4, <1>5, <1>6 DEF Once
<1> QED BY <1>7 DEF p

\* The head of the queue leaves it, and is nowhere else.
LEMMA OnceLeave ==
    ASSUME NEW n \in Nat, NEW t, NEW q, NEW e, Once(n, t, q, e), q # << >>
    PROVE  /\ Once(n, t, Tail(q), e)
           /\ Head(q) \in 1 .. n /\ Head(q) \notin t
           /\ \A i \in 1 .. Len(Tail(q)) : Tail(q)[i] # Head(q)
           /\ \A i \in 1 .. Len(e) : e[i] # Head(q)
<1>1. /\ q \in Seq(1 .. n) /\ Len(q) \in Nat \ {0} /\ Head(q) = q[1] /\ Head(q) \in 1 .. n
      /\ Tail(q) \in Seq(1 .. n) /\ Len(Tail(q)) = Len(q) - 1
      /\ \A i \in 1 .. Len(q) - 1 : Tail(q)[i] = q[i + 1]
    BY HeadTail DEF Once
<1> DEFINE p == Tail(q)
<1> HIDE DEF p
<1>2. /\ 1 \in 1 .. Len(q)
      /\ \A i \in 1 .. Len(p) : /\ i + 1 \in 1 .. Len(q) /\ p[i] = q[i + 1] /\ i + 1 # 1
    BY <1>1 DEF p
<1>3. \A i, j \in 1 .. Len(p) : i + 1 = j + 1 => i = j
    BY <1>1 DEF p
<1>4. p \in Seq(1 .. n)
    BY <1>1 DEF p
<1>5. \A i \in 1 .. Len(p) : p[i] \notin t /\ p[i] # q[1]
    BY <1>2 DEF Once
<1>6. \A i \in 1 .. Len(p), j \in 1 .. Len(e) : p[i] # e[j]
    BY <1>2 DEF Once
<1>7. \A i, j \in 1 .. Len(p) : p[i] = p[j] => i = j
    BY <1>2, <1>3 DEF Once
<1>8. Once(n, t, p, e)
    BY <1>4, <1>5, <1>6, <1>7 DEF Once
<1>9. q[1] \notin t /\ \A i \in 1 .. Len(e) : e[i] # q[1]
    BY <1>2 DEF Once
<1> QED BY <1>1, <1>5, <1>8, <1>9 DEF p

\* The head of the queue is executed.
LEMMA OnceExecute ==
    ASSUME NEW n \in Nat, NEW t, NEW q, NEW e, Once(n, t, q, e), q # << >>
    PROVE  Once(n, t, Tail(q), Append(e, Head(q)))
<1> DEFINE p == Tail(q)
           b == Head(q)
           h == Append(e, b)
<1>1. /\ Once(n, t, p, e) /\ b \in 1 .. n /\ b \notin t
      /\ \A i \in 1 .. Len(p) : p[i] # b
      /\ \A i \in 1 .. Len(e) : e[i] # b
    BY OnceLeave
<1> HIDE DEF p, b
<1>2. e \in Seq(1 .. n) /\ Len(e) \in Nat
    BY DEF Once
<1>3. /\ h \in Seq(1 .. n) /\ Len(h) = Len(e) + 1 /\ h[Len(e) + 1] = b
      /\ \A i \in 1 .. Len(e) : h[i] = e[i]
    BY <1>1, <1>2, AppendTo
<1> HIDE DEF h
<1>4. \A i \in 1 .. Len(h) : i = Len(e) + 1 \/ i \in 1 .. Len(e)
    BY <1>2, <1>3
<1>5. \A i \in 1 .. Len(h) : h[i] \notin t
    BY <1>1, <1>3, <1>4 DEF Once
<1>6. \A i \in 1 .. Len(p), j \in 1 .. Len(h) : p[i] # h[j]
    BY <1>1, <1>3, <1>4 DEF Once
<1>7. \A i, j \in 1 .. Len(h) : h[i] = h[j] => i = j
    BY <1>1, <1>3, <1>4 DEF Once
<1>8. Once(n, t, p, h)
    BY <1>1, <1>3, <1>5, <1>6, <1>7 DEF Once
<1> QED BY <1>8 DEF p, b, h

\* A call is lost.
LEMMA OnceLose ==
    ASSUME NEW n \in Nat, NEW t, NEW q, NEW e, Once(n, t, q, e), NEW b
    PROVE  Once(n, t \ {b}, q, e)
    BY DEF Once

\* Batch n + 1 is sent.
LEMMA OnceTake ==
    ASSUME NEW n \in Nat, NEW t, NEW q, NEW e, Once(n, t, q, e)
    PROVE  Once(n + 1, t \cup {n + 1}, q, e)
<1>1. 1 .. n \subseteq 1 .. n + 1 /\ n + 1 \in 1 .. n + 1 /\ n + 1 \notin 1 .. n
    OBVIOUS
<1>2. q \in Seq(1 .. n) /\ e \in Seq(1 .. n) /\ t \subseteq 1 .. n
    BY DEF Once
<1>3. q \in Seq(1 .. n + 1) /\ e \in Seq(1 .. n + 1)
    BY <1>1, <1>2, SeqMonotonic
<1>4. (\A i \in 1 .. Len(q) : q[i] # n + 1) /\ (\A i \in 1 .. Len(e) : e[i] # n + 1)
    BY <1>1, <1>2
<1>5. t \cup {n + 1} \subseteq 1 .. n + 1
    BY <1>1, <1>2
<1> QED BY <1>3, <1>4, <1>5 DEF Once

\* The job is the youngest batch taken, and the next one to be taken follows it.
LEMMA JobId ==
    ASSUME Shapes, PipelineInv
    PROVE  /\ job # NoBatch => /\ job.batch_id = Taken /\ Taken = Len(finished) + 1
           /\ job = NoBatch => Taken = Len(finished) /\ job.batch_id = 0
           /\ dispatch_queue # << >> => Head(dispatch_queue).batch_id = Taken + 1
<1>1. /\ next_batch_id = Live + 1 /\ Live \in Nat /\ AllBatches = 1 .. Live
      /\ \A n \in 1 .. Live : At(n).batch_id = n
    BY LiveIsNat DEF PipelineInv, AllBatches
<1>2. /\ Taken \in Nat /\ Queued \in Nat /\ Closed \in Nat /\ Len(finished) \in Nat
      /\ Taken <= Queued /\ Queued <= Closed /\ Closed <= Live
    BY CountsAreNat DEF Live
<1>3. ASSUME job # NoBatch PROVE job.batch_id = Taken /\ Taken = Len(finished) + 1
    <2>1. Taken = Len(finished) + 1 /\ Taken \in 1 .. Live
        BY <1>2, <1>3, <1>1 DEF Taken
    <2>2. At(Taken) = job
        BY <2>1, <1>2 DEF At
    <2> QED BY <1>1, <2>1, <2>2
<1>4. ASSUME job = NoBatch PROVE Taken = Len(finished) /\ job.batch_id = 0
    BY <1>2, <1>4, Constants DEF Taken
<1>5. ASSUME dispatch_queue # << >> PROVE Head(dispatch_queue).batch_id = Taken + 1
    <2>1. Len(dispatch_queue) \in Nat \ {0} /\ Head(dispatch_queue) = dispatch_queue[1]
        BY <1>5, HeadTail DEF Shapes
    <2>2. Queued = Taken + Len(dispatch_queue)
        BY DEF Queued
    <2>3. Taken + 1 <= Queued /\ Taken + 1 \in 1 .. Live /\ (Taken + 1) - Taken = 1
          /\ ~(Taken + 1 <= Len(finished)) /\ ~(Taken + 1 <= Taken)
        BY <1>1, <1>2, <2>1, <2>2, CountsAreNat
    <2>4. At(Taken + 1) = dispatch_queue[1]
        BY <2>3 DEF At
    <2> QED BY <1>1, <2>1, <2>3, <2>4
<1> QED BY <1>3, <1>4, <1>5

\* How the steps of the dispatcher change the job and its number.
LEMMA TakeJobEffect ==
    ASSUME Shapes, PipelineInv, TakeJob
    PROVE  /\ job = NoBatch /\ job' # NoBatch /\ job'.batch_id = Taken + 1
           /\ Taken \in Nat /\ Taken = Len(finished) /\ Taken' = Taken + 1
<1>1. /\ dispatch_queue # << >> /\ job = NoBatch /\ job' = Head(dispatch_queue)
      /\ finished' = finished
    BY DEF TakeJob
<1>2. job' \in JobRec
    BY <1>1, HeadTail DEF Shapes
<1>3. job' # NoBatch
    BY <1>2, Constants DEF JobRec
<1>4. job'.batch_id = Taken + 1 /\ Taken = Len(finished)
    BY <1>1, JobId
<1>5. Taken \in Nat /\ Taken' = Taken + 1
    BY <1>1, <1>3, <1>4, CountsAreNat DEF Taken
<1> QED BY <1>1, <1>3, <1>4, <1>5

\* FinishJob ends the job and keeps the count of batches taken.
LEMMA FinishJobEffect ==
    ASSUME Shapes, PipelineInv, FinishJob
    PROVE  /\ job # NoBatch /\ job' = NoBatch /\ job.batch_id = Taken
           /\ Taken \in Nat /\ Taken = Len(finished) + 1 /\ Taken' = Taken
           /\ Len(finished') = Taken /\ Len(finished) \in Nat
<1>1. /\ job # NoBatch /\ job' = NoBatch
      /\ finished' = Append(finished, [batch_id |-> job.batch_id, txs |-> job.txs, ok |-> AllOk])
    BY DEF FinishJob
<1>2. job.batch_id = Taken /\ Taken = Len(finished) + 1
    BY <1>1, JobId
<1>3. Len(finished') = Len(finished) + 1
    BY <1>1, AppendProperties DEF Shapes
<1>4. Taken' = Len(finished')
    <2>1. Len(finished') \in Nat
        BY <1>3, CountsAreNat
    <2> QED BY <1>1, <2>1 DEF Taken
<1> QED BY <1>1, <1>2, <1>3, <1>4, CountsAreNat

\* At the start nothing is at a shard.
LEMMA ShardInitially == Init => ShardInv
<1> SUFFICES ASSUME Init PROVE ShardInv
    OBVIOUS
<1>1. ShardTypes
    BY Constants DEF Init, ShardTypes
<1>2. ASSUME NEW s \in Shards PROVE OnceOnly(s) /\ LogInv(s) /\ CleanInv(s)
    <2>1. /\ transit[s] = {} /\ inbox[s] = << >> /\ executed[s] = << >> /\ answer[s] = "none"
          /\ batch_log = << >> /\ job = NoBatch
        BY DEF Init
    <2>2. OnceOnly(s)
        BY <2>1 DEF OnceOnly, Once
    <2>3. LogInv(s)
        BY <2>1 DEF LogInv
    <2>4. CleanInv(s)
        BY <2>1 DEF CleanInv
    <2> QED BY <2>2, <2>3, <2>4
<1> QED BY <1>1, <1>2 DEF ShardInv

\* Where nothing happens at a shard, its part of the invariant stays.
LEMMA ShardFrame ==
    ASSUME NEW s \in Shards, OnceOnly(s), LogInv(s), CleanInv(s),
           UNCHANGED <<transit[s], inbox[s], executed[s], answer[s], job, batch_log, finished>>,
           failures' = failures \/ failures' # 0
    PROVE  OnceOnly(s)' /\ LogInv(s)' /\ CleanInv(s)'
<1>1. Taken' = Taken
    BY DEF Taken
<1>2. OnceOnly(s)'
    BY <1>1 DEF OnceOnly
<1>3. LogInv(s)'
    BY DEF LogInv
<1>4. CleanInv(s)'
    BY DEF CleanInv
<1> QED BY <1>2, <1>3, <1>4

\* A batch arrives at shard r.
LEMMA DeliverKeeps ==
    ASSUME Shapes, PipelineInv, ShardInv, NEW r \in Shards, NEW b \in transit[r], Deliver(r, b)
    PROVE  ShardInv'
<1>0. ShardTypes /\ OnceOnly(r) /\ LogInv(r) /\ CleanInv(r) /\ b \in Nat
    BY DEF ShardInv, ShardTypes
<1>1. /\ transit' = [transit EXCEPT ![r] = @ \ {b}] /\ inbox' = [inbox EXCEPT ![r] = Append(@, b)]
      /\ UNCHANGED <<executed, answer, job, batch_log, finished, failures>>
    BY DEF Deliver, dispatchVars
<1>2. ShardTypes'
    BY <1>0, <1>1, AppendTo DEF ShardTypes
<1>3. transit'[r] = transit[r] \ {b} /\ inbox'[r] = Append(inbox[r], b)
    BY <1>0, <1>1 DEF ShardTypes
<1>4. OnceOnly(r)'
    <2>1. Once(Taken, transit[r] \ {b}, Append(inbox[r], b), executed[r])
        BY <1>0, OnceDeliver, CountsAreNat DEF OnceOnly
    <2>2. Taken' = Taken
        BY <1>1 DEF Taken
    <2> QED BY <1>1, <1>3, <2>1, <2>2 DEF OnceOnly
<1>5. LogInv(r)'
    BY <1>0, <1>1 DEF LogInv
<1>6. CleanInv(r)'
    <2> SUFFICES ASSUME failures = 0
                 PROVE  /\ answer[r] # "err"
                        /\ job # NoBatch /\ answer[r] = "none"
                        /\ transit'[r] \subseteq {job.batch_id} /\ inbox'[r] \in Seq({job.batch_id})
        BY <1>1 DEF CleanInv
    <2>1. /\ answer[r] # "err" /\ job # NoBatch /\ answer[r] = "none"
          /\ transit[r] \subseteq {job.batch_id} /\ inbox[r] \in Seq({job.batch_id})
        BY <1>0 DEF CleanInv, ShardTypes
    <2> QED BY <1>3, <2>1, AppendTo
<1>7. ASSUME NEW s \in Shards, s # r PROVE OnceOnly(s)' /\ LogInv(s)' /\ CleanInv(s)'
    <2>1. UNCHANGED <<transit[s], inbox[s], executed[s], answer[s], job, batch_log, finished>>
        BY <1>0, <1>1, <1>7 DEF ShardTypes
    <2> QED BY <1>1, <2>1, ShardFrame DEF ShardInv
<1> QED BY <1>2, <1>4, <1>5, <1>6, <1>7 DEF ShardInv

\* Shard r executes the head of its queue: it is not a logged batch, since those
\* are executed already and a batch is executed once.
LEMMA ExecuteKeeps ==
    ASSUME Shapes, PipelineInv, ShardInv, NEW r \in Shards, ExecuteBatch(r)
    PROVE  ShardInv'
<1> DEFINE b == Head(inbox[r])
           e == executed[r]
           h == Append(e, b)
<1>0. ShardTypes /\ OnceOnly(r) /\ LogInv(r) /\ CleanInv(r) /\ Taken \in Nat
    BY CountsAreNat DEF ShardInv
<1>1. /\ inbox[r] # << >> /\ inbox' = [inbox EXCEPT ![r] = Tail(@)]
      /\ executed' = [executed EXCEPT ![r] = Append(@, b)]
      /\ Answers(r, b, "ok") /\ UNCHANGED <<transit, job, batch_log, finished, failures>>
    BY DEF ExecuteBatch
<1>2. inbox[r] \in Seq(Nat) /\ e \in Seq(Nat) /\ b \in Nat /\ Tail(inbox[r]) \in Seq(Nat)
      /\ Len(e) \in Nat
    BY <1>0, <1>1, HeadTail DEF ShardTypes
<1>3. /\ h \in Seq(Nat) /\ Len(h) = Len(e) + 1 /\ h[Len(e) + 1] = b
      /\ \A i \in 1 .. Len(e) : h[i] = e[i]
    BY <1>2, AppendTo
<1>4. inbox'[r] = Tail(inbox[r]) /\ executed'[r] = h /\ transit'[r] = transit[r]
    BY <1>0, <1>1 DEF ShardTypes
<1>5. answer' = IF job.batch_id = b /\ answer[r] = "none" THEN [answer EXCEPT ![r] = "ok"] ELSE answer
    BY <1>1 DEF Answers
<1>6. ShardTypes'
    BY <1>0, <1>1, <1>2, <1>3, <1>5 DEF ShardTypes
<1>7. /\ Once(Taken, transit[r], Tail(inbox[r]), h) /\ b \in 1 .. Taken /\ b \notin transit[r]
      /\ \A i \in 1 .. Len(Tail(inbox[r])) : Tail(inbox[r])[i] # b
      /\ \A i \in 1 .. Len(e) : e[i] # b
    BY <1>0, <1>1, OnceExecute, OnceLeave DEF OnceOnly
<1> HIDE DEF b, e, h
<1>8. OnceOnly(r)'
    <2>1. Taken' = Taken
        BY <1>1 DEF Taken
    <2> QED BY <1>4, <1>7, <2>1 DEF OnceOnly
<1>9. job.batch_id = b => job # NoBatch
    BY <1>7, Constants
<1>10. LogInv(r)'
    <2>1. \A x : Contains(e, x) => Contains(h, x)
        BY <1>2, <1>3 DEF Contains
    <2>2. Contains(h, b)
        <3>1. Len(e) + 1 \in 1 .. Len(h)
            BY <1>2, <1>3
        <3> QED BY <1>3, <3>1 DEF Contains
    <2>3. DOMAIN e = 1 .. Len(e) /\ DOMAIN h = 1 .. Len(h)
        BY <1>2, <1>3
    <2>4. answer'[r] = "ok" => job # NoBatch /\ Contains(h, job.batch_id)
        <3>1. CASE job.batch_id = b /\ answer[r] = "none"
            BY <1>9, <2>2, <3>1
        <3>2. CASE ~(job.batch_id = b /\ answer[r] = "none")
            BY <1>0, <1>5, <2>1, <3>2 DEF LogInv, e
        <3> QED BY <3>1, <3>2
    <2>5. \A n \in DOMAIN batch_log : /\ batch_log[n].batch_id \in 1 .. Len(finished)
                                      /\ Contains(h, batch_log[n].batch_id)
        BY <1>0, <2>1 DEF LogInv, e
    <2>6. ASSUME NEW n \in DOMAIN batch_log, NEW i \in DOMAIN h, h[i] = batch_log[n].batch_id
          PROVE  i \in DOMAIN e /\ e[i] = batch_log[n].batch_id
        <3>1. PICK k \in 1 .. Len(e) : e[k] = batch_log[n].batch_id
            BY <1>0 DEF LogInv, e, Contains
        <3>2. h[i] # b
            BY <1>7, <2>6, <3>1
        <3>3. i # Len(e) + 1
            BY <1>3, <3>2
        <3>4. i \in 1 .. Len(e)
            <4>1. i \in 1 .. Len(e) + 1
                BY <1>3, <2>3
            <4>2. \A x, l \in Nat : x \in 1 .. l + 1 /\ x # l + 1 => x \in 1 .. l
                OBVIOUS
            <4>3. i \in Nat
                BY <4>1
            <4> QED BY <1>2, <3>3, <4>1, <4>2, <4>3
        <3> QED BY <1>3, <2>3, <2>6, <3>4
    <2>7. \A n, m \in DOMAIN batch_log, i, j \in DOMAIN h :
             h[i] = batch_log[n].batch_id /\ h[j] = batch_log[m].batch_id /\ n < m => i < j
        BY <1>0, <2>6 DEF LogInv, e
    <2>8. ASSUME NEW n \in DOMAIN batch_log, NEW i \in DOMAIN h, NEW j \in DOMAIN h,
                 job # NoBatch, h[i] = batch_log[n].batch_id, h[j] = job.batch_id
          PROVE  i < j
        <3>1. i \in DOMAIN e /\ e[i] = batch_log[n].batch_id
            BY <2>6, <2>8
        <3>2. CASE j = Len(e) + 1
            BY <1>2, <2>3, <3>1, <3>2
        <3>3. CASE j # Len(e) + 1
            <4>1. j \in 1 .. Len(e)
                BY <1>2, <1>3, <2>3, <3>3
            <4>2. j \in DOMAIN e /\ e[j] = job.batch_id
                BY <1>3, <2>3, <2>8, <4>1
            <4> QED BY <1>0, <2>8, <3>1, <4>2 DEF LogInv, e
        <3> QED BY <3>2, <3>3
    <2>9. /\ job' = job /\ batch_log' = batch_log /\ finished' = finished /\ executed'[r] = h
        BY <1>1, <1>4
    <2>10. \A n \in DOMAIN batch_log, i, j \in DOMAIN h :
              job # NoBatch /\ h[i] = batch_log[n].batch_id /\ h[j] = job.batch_id => i < j
        BY <2>8
    <2> QED BY <2>4, <2>5, <2>7, <2>9, <2>10 DEF LogInv
<1>11. CleanInv(r)'
    <2> SUFFICES ASSUME failures = 0
                 PROVE  /\ answer'[r] = "ok" /\ job # NoBatch
                        /\ transit[r] = {} /\ inbox'[r] = << >>
        <3>1. \A x : << >> \in Seq({x})
            OBVIOUS
        <3> QED BY <1>1, <3>1 DEF CleanInv
    <2>1. /\ job # NoBatch /\ answer[r] = "none"
          /\ transit[r] \subseteq {job.batch_id} /\ inbox[r] \in Seq({job.batch_id})
        BY <1>0, <1>1 DEF CleanInv, ShardTypes
    <2>2. b \in {job.batch_id} /\ Tail(inbox[r]) \in Seq({job.batch_id})
        BY <1>1, <2>1, HeadTail DEF b
    <2>3. answer'[r] = "ok" /\ transit[r] = {}
        BY <1>0, <1>5, <1>7, <2>1, <2>2 DEF ShardTypes
    <2>4. Tail(inbox[r]) = << >>
        <3> SUFFICES ASSUME Tail(inbox[r]) # << >> PROVE FALSE
            OBVIOUS
        <3>1. Len(Tail(inbox[r])) \in Nat \ {0}
            BY <2>2, EmptySeq
        <3>2. 1 \in 1 .. Len(Tail(inbox[r]))
            BY <3>1
        <3>3. Tail(inbox[r])[1] = job.batch_id
            BY <2>2, <3>2, ElementOfSeq
        <3> QED BY <1>7, <2>2, <3>2, <3>3
    <2> QED BY <1>4, <2>1, <2>3, <2>4
<1>12. ASSUME NEW s \in Shards, s # r PROVE OnceOnly(s)' /\ LogInv(s)' /\ CleanInv(s)'
    <2>1. UNCHANGED <<transit[s], inbox[s], executed[s], answer[s], job, batch_log, finished>>
        BY <1>0, <1>1, <1>5, <1>12 DEF ShardTypes
    <2> QED BY <1>1, <2>1, ShardFrame DEF ShardInv
<1> QED BY <1>6, <1>8, <1>10, <1>11, <1>12 DEF ShardInv

\* A call to shard r fails; without failures there is nothing to show of it.
LEMMA FailKeeps ==
    ASSUME Shapes, PipelineInv, ShardInv, NEW r \in Shards, FailCall(r)
    PROVE  ShardInv'
<1>0. ShardTypes /\ OnceOnly(r) /\ LogInv(r) /\ Taken \in Nat /\ MaxFailures \in Nat
    BY CountsAreNat, Constants DEF ShardInv
<1>1. /\ failures' = failures + 1 /\ failures < MaxFailures
      /\ UNCHANGED <<job, batch_log, finished, executed>>
    BY DEF FailCall
<1>2. failures' \in 0 .. MaxFailures /\ failures' # 0
    BY <1>0, <1>1 DEF ShardTypes
<1>3. /\ answer' = answer \/ answer' = [answer EXCEPT ![r] = "err"]
      /\ \/ inbox' = inbox /\ transit' = transit
         \/ inbox' = inbox /\ \E b \in transit[r] : transit' = [transit EXCEPT ![r] = @ \ {b}]
         \/ inbox[r] # << >> /\ inbox' = [inbox EXCEPT ![r] = Tail(@)] /\ transit' = transit
    BY DEF FailCall, Answers
<1>4. /\ ShardTypes' /\ Once(Taken, transit'[r], inbox'[r], executed[r])
      /\ \A s \in Shards : s # r => inbox'[s] = inbox[s] /\ transit'[s] = transit[s]
    <2>a. answer' \in [Shards -> {"none", "ok", "err"}]
        BY <1>0, <1>3 DEF ShardTypes
    <2>b. ASSUME transit' \in [Shards -> SUBSET Nat], inbox' \in [Shards -> Seq(Nat)]
          PROVE  ShardTypes'
        BY <1>0, <1>1, <1>2, <2>a, <2>b DEF ShardTypes
    <2>1. CASE inbox' = inbox /\ transit' = transit
        BY <1>0, <2>1, <2>b DEF OnceOnly, ShardTypes
    <2>2. ASSUME inbox' = inbox, NEW b \in transit[r], transit' = [transit EXCEPT ![r] = @ \ {b}]
          PROVE  /\ ShardTypes' /\ Once(Taken, transit'[r], inbox'[r], executed[r])
                 /\ \A s \in Shards : s # r => inbox'[s] = inbox[s] /\ transit'[s] = transit[s]
        <3>1. transit' \in [Shards -> SUBSET Nat] /\ transit'[r] = transit[r] \ {b}
              /\ \A s \in Shards : s # r => transit'[s] = transit[s]
            BY <1>0, <2>2 DEF ShardTypes
        <3>2. Once(Taken, transit[r] \ {b}, inbox[r], executed[r])
            BY <1>0, OnceLose DEF OnceOnly
        <3> QED BY <1>0, <2>2, <2>b, <3>1, <3>2 DEF ShardTypes
    <2>3. CASE inbox[r] # << >> /\ inbox' = [inbox EXCEPT ![r] = Tail(@)] /\ transit' = transit
        <3>1. inbox[r] \in Seq(Nat) /\ Tail(inbox[r]) \in Seq(Nat)
            BY <1>0, <2>3, HeadTail DEF ShardTypes
        <3>2. inbox' \in [Shards -> Seq(Nat)] /\ inbox'[r] = Tail(inbox[r])
              /\ \A s \in Shards : s # r => inbox'[s] = inbox[s]
            BY <1>0, <2>3, <3>1 DEF ShardTypes
        <3>3. Once(Taken, transit[r], Tail(inbox[r]), executed[r])
            BY <1>0, <2>3, OnceLeave DEF OnceOnly
        <3>4. ShardTypes'
            BY <1>0, <2>3, <2>b, <3>2 DEF ShardTypes
        <3> QED BY <2>3, <3>2, <3>3, <3>4
    <2>4. CASE inbox' = inbox /\ \E b \in transit[r] : transit' = [transit EXCEPT ![r] = @ \ {b}]
        BY <2>2, <2>4
    <2> QED BY <1>3, <2>1, <2>3, <2>4
<1>5. /\ \A s \in Shards : answer'[s] = "ok" => answer[s] = "ok"
      /\ \A s \in Shards : s # r => answer'[s] = answer[s]
    BY <1>0, <1>3 DEF ShardTypes
<1>6. Taken' = Taken
    BY <1>1 DEF Taken
<1>7. OnceOnly(r)'
    BY <1>1, <1>4, <1>6 DEF OnceOnly
<1>8. LogInv(r)'
    BY <1>0, <1>1, <1>5 DEF LogInv
<1>9. CleanInv(r)'
    BY <1>2 DEF CleanInv
<1>10. ASSUME NEW s \in Shards, s # r PROVE OnceOnly(s)' /\ LogInv(s)' /\ CleanInv(s)'
    <2>1. UNCHANGED <<transit[s], inbox[s], executed[s], answer[s], job, batch_log, finished>>
        BY <1>1, <1>4, <1>5, <1>10
    <2> QED BY <1>2, <2>1, ShardFrame DEF ShardInv
<1> QED BY <1>4, <1>7, <1>8, <1>9, <1>10 DEF ShardInv

\* The next batch is sent to all shards, where it is new.
LEMMA TakeKeeps ==
    ASSUME Shapes, PipelineInv, ShardInv, TakeJob
    PROVE  ShardInv'
<1>0. ShardTypes /\ \A s \in Shards : OnceOnly(s) /\ LogInv(s) /\ CleanInv(s)
    BY DEF ShardInv
<1>1. /\ job = NoBatch /\ job' # NoBatch /\ job'.batch_id = Taken + 1
      /\ Taken \in Nat /\ Taken = Len(finished) /\ Taken' = Taken + 1
    BY TakeJobEffect
<1>2. /\ transit' = [s \in Shards |-> transit[s] \cup {Taken + 1}]
      /\ answer' = [s \in Shards |-> "none"]
      /\ UNCHANGED <<batch_log, finished, inbox, executed, failures>>
    BY <1>1 DEF TakeJob
<1>3. ShardTypes'
    BY <1>0, <1>1, <1>2 DEF ShardTypes
<1>4. ASSUME NEW s \in Shards PROVE OnceOnly(s)' /\ LogInv(s)' /\ CleanInv(s)'
    <2>1. /\ transit'[s] = transit[s] \cup {Taken + 1} /\ answer'[s] = "none"
          /\ inbox'[s] = inbox[s] /\ executed'[s] = executed[s]
        BY <1>2
    <2>2. OnceOnly(s)'
        BY <1>0, <1>1, <2>1, OnceTake DEF OnceOnly
    <2>3. LogInv(s)'
        <3>1. \A j \in DOMAIN executed[s] : executed[s][j] # Taken + 1
            <4>1. executed[s] \in Seq(1 .. Taken) /\ Taken + 1 \notin 1 .. Taken
                BY <1>0, <1>1 DEF OnceOnly, Once
            <4>2. \A j \in DOMAIN executed[s] : executed[s][j] \in 1 .. Taken
                BY <4>1, LenProperties, ElementOfSeq
            <4> QED BY <4>1, <4>2
        <3> QED BY <1>0, <1>1, <1>2, <2>1, <3>1 DEF LogInv
    <2>4. CleanInv(s)'
        <3> SUFFICES ASSUME failures = 0
                     PROVE  transit'[s] \subseteq {Taken + 1} /\ inbox'[s] \in Seq({Taken + 1})
            BY <1>1, <1>2, <2>1 DEF CleanInv
        <3>1. transit[s] = {} /\ inbox[s] = << >>
            BY <1>0, <1>1 DEF CleanInv
        <3> QED BY <2>1, <3>1
    <2> QED BY <2>2, <2>3, <2>4
<1> QED BY <1>3, <1>4 DEF ShardInv

\* The job is logged if all shards have answered Ok; each has executed it then,
\* behind everything logged before.
LEMMA FinishKeeps ==
    ASSUME Shapes, PipelineInv, ShardInv, FinishJob
    PROVE  ShardInv'
<1>0. ShardTypes /\ \A s \in Shards : OnceOnly(s) /\ LogInv(s) /\ CleanInv(s)
    BY DEF ShardInv
<1>1. /\ job # NoBatch /\ job' = NoBatch /\ job.batch_id = Taken
      /\ Taken \in Nat /\ Taken = Len(finished) + 1 /\ Taken' = Taken
      /\ Len(finished') = Taken /\ Len(finished) \in Nat
    BY FinishJobEffect
<1> DEFINE b == [batch_id |-> job.batch_id, txs |-> job.txs]
<1>2. /\ answer' = [s \in Shards |-> "none"]
      /\ batch_log' = (IF AllOk THEN Append(batch_log, b) ELSE batch_log)
      /\ AllOk \/ FirstError
      /\ UNCHANGED <<transit, inbox, executed, failures>>
    BY DEF FinishJob, shardVars
<1>3. b \in BatchRec /\ b.batch_id = Taken /\ batch_log \in Seq(BatchRec)
    BY <1>1 DEF Shapes, JobRec, BatchRec
<1> HIDE DEF b
<1>4. ShardTypes'
    BY <1>0, <1>2 DEF ShardTypes
<1>5. ASSUME NEW s \in Shards PROVE OnceOnly(s)' /\ LogInv(s)' /\ CleanInv(s)'
    <2>1. /\ transit'[s] = transit[s] /\ answer'[s] = "none"
          /\ inbox'[s] = inbox[s] /\ executed'[s] = executed[s]
        BY <1>2
    <2>2. OnceOnly(s)'
        BY <1>0, <1>1, <2>1 DEF OnceOnly
    <2>3. LogInv(s)'
        <3>0. \A n \in DOMAIN batch_log : /\ batch_log[n].batch_id \in 1 .. Len(finished')
                                           /\ Contains(executed[s], batch_log[n].batch_id)
            BY <1>0, <1>1 DEF LogInv
        <3>1. CASE ~AllOk
            BY <1>0, <1>1, <1>2, <2>1, <3>0, <3>1 DEF LogInv
        <3>2. CASE AllOk
            <4>1. Contains(executed[s], Taken)
                BY <1>0, <1>1, <3>2 DEF LogInv, AllOk
            <4> DEFINE l == Append(batch_log, b)
                       k == Len(batch_log)
            <4>2. /\ l \in Seq(BatchRec) /\ Len(l) = k + 1 /\ k \in Nat /\ l[k + 1] = b
                  /\ \A n \in 1 .. k : l[n] = batch_log[n]
                BY <1>3, AppendTo
            <4>3. batch_log' = l
                BY <1>2, <3>2
            <4>4. DOMAIN l = 1 .. k + 1 /\ DOMAIN batch_log = 1 .. k
                BY <1>3, <4>2
            <4> HIDE DEF l, k
            <4>5. \A n \in DOMAIN l : n = k + 1 \/ (n \in DOMAIN batch_log /\ l[n] = batch_log[n])
                BY <4>2, <4>4
            <4>6. Taken \in 1 .. Len(finished')
                BY <1>1
            <4>7. \A n \in DOMAIN l : /\ l[n].batch_id \in 1 .. Len(finished')
                                       /\ Contains(executed[s], l[n].batch_id)
                BY <1>3, <3>0, <4>1, <4>2, <4>5, <4>6
            <4>8. ASSUME NEW n \in DOMAIN l, NEW m \in DOMAIN l,
                         NEW i \in DOMAIN executed[s], NEW j \in DOMAIN executed[s],
                         executed[s][i] = l[n].batch_id, executed[s][j] = l[m].batch_id, n < m
                  PROVE  i < j
                <5>1. n \in DOMAIN batch_log /\ l[n] = batch_log[n]
                    BY <4>2, <4>4, <4>5, <4>8
                <5>2. CASE m = k + 1
                    BY <1>0, <1>1, <1>3, <4>2, <4>8, <5>1, <5>2 DEF LogInv
                <5>3. CASE m \in DOMAIN batch_log /\ l[m] = batch_log[m]
                    BY <1>0, <4>8, <5>1, <5>3 DEF LogInv
                <5> QED BY <4>5, <5>2, <5>3
            <4> QED BY <1>1, <2>1, <4>3, <4>7, <4>8 DEF LogInv
        <3> QED BY <3>1, <3>2
    <2>4. CleanInv(s)'
        <3> SUFFICES ASSUME failures = 0 PROVE transit[s] = {} /\ inbox[s] = << >>
            BY <1>1, <1>2, <2>1 DEF CleanInv
        <3>1. ~FirstError
            BY <1>0 DEF CleanInv, FirstError
        <3>2. answer[s] = "ok"
            BY <1>2, <3>1 DEF AllOk
        <3> QED BY <1>0, <3>2 DEF CleanInv
    <2> QED BY <2>2, <2>3, <2>4
<1> QED BY <1>4, <1>5 DEF ShardInv

\* Every step keeps the invariant of the shards.
LEMMA ShardStep ==
    ASSUME Shapes, PipelineInv, ShardInv, [Next]_vars
    PROVE  ShardInv'
<1>1. ASSUME UNCHANGED <<dispatchVars, shardVars>> PROVE ShardInv'
    <2>1. UNCHANGED <<transit, inbox, executed, answer, job, batch_log, finished, failures>>
        BY <1>1 DEF dispatchVars, shardVars
    <2>2. ShardTypes'
        BY <2>1 DEF ShardInv, ShardTypes
    <2>3. ASSUME NEW s \in Shards PROVE OnceOnly(s)' /\ LogInv(s)' /\ CleanInv(s)'
        BY <2>1, ShardFrame DEF ShardInv
    <2> QED BY <2>2, <2>3 DEF ShardInv
<1>2. ASSUME NEW c \in Clients, Submit(c) PROVE ShardInv'
    BY <1>1, <1>2 DEF Submit
<1>3. ASSUME NEW b \in timers, FlushTimer(b) PROVE ShardInv'
    BY <1>1, <1>3 DEF FlushTimer
<1>4. ASSUME Actor PROVE ShardInv'
    BY <1>1, <1>4
       DEF Actor, handle_submit_tx, handle_submit_batch, handle_flush_open, dispatch_batch
<1>5. ASSUME NEW s \in Shards, Shard(s) \/ FailCall(s) PROVE ShardInv'
    BY <1>5, DeliverKeeps, ExecuteKeeps, FailKeeps DEF Shard
<1>6. ASSUME UNCHANGED vars PROVE ShardInv'
    BY <1>1, <1>6 DEF vars
<1> QED BY <1>2, <1>3, <1>4, <1>5, <1>6, TakeKeeps, FinishKeeps DEF Next, Dispatcher, Timers

\* The invariants imply the barrier.
LEMMA BarrierFollows ==
    ASSUME ShardInv
    PROVE  BarrierWithoutFailures
<1> SUFFICES ASSUME failures = 0, job # NoBatch, NEW s \in Shards
             PROVE  transit[s] \cup ToSet(inbox[s]) \subseteq {job.batch_id}
    BY DEF BarrierWithoutFailures, BatchBarrier
<1>1. transit[s] \subseteq {job.batch_id} /\ inbox[s] \in Seq({job.batch_id})
    BY DEF ShardInv, CleanInv
<1>2. ToSet(inbox[s]) \subseteq {job.batch_id}
    BY <1>1, LenProperties, ElementOfSeq DEF ToSet
<1> QED BY <1>1, <1>2

\* The invariants imply that the log is executed in its order.
LEMMA LogFollows ==
    ASSUME Shapes, ShardInv
    PROVE  LogIsExecuted
<1> SUFFICES ASSUME NEW s \in Shards
             PROVE  /\ \A n \in DOMAIN batch_log : Contains(executed[s], batch_log[n].batch_id)
                    /\ \A n, m \in DOMAIN batch_log, i, j \in DOMAIN executed[s] :
                          /\ executed[s][i] = batch_log[n].batch_id
                          /\ executed[s][j] = batch_log[m].batch_id
                          => (n < m <=> i < j)
    BY DEF LogIsExecuted
<1> DEFINE e == executed[s]
<1>1. OnceOnly(s) /\ LogInv(s)
    BY DEF ShardInv
<1>2. DOMAIN e = 1 .. Len(e) /\ Len(e) \in Nat /\ DOMAIN batch_log = 1 .. Len(batch_log)
      /\ Len(batch_log) \in Nat
    <2>1. e \in Seq(1 .. Taken) /\ batch_log \in Seq(BatchRec)
        BY <1>1 DEF OnceOnly, Once, Shapes
    <2> HIDE DEF e
    <2> QED BY <2>1, LenProperties
<1>3. \A i, j \in DOMAIN e : e[i] = e[j] => i = j
    BY <1>1, <1>2 DEF OnceOnly, Once
<1>4. \A n, m \in DOMAIN batch_log, i, j \in DOMAIN e :
         e[i] = batch_log[n].batch_id /\ e[j] = batch_log[m].batch_id /\ n < m => i < j
    BY <1>1 DEF LogInv
<1>5. ASSUME NEW n \in DOMAIN batch_log, NEW m \in DOMAIN batch_log,
             NEW i \in DOMAIN e, NEW j \in DOMAIN e,
             e[i] = batch_log[n].batch_id, e[j] = batch_log[m].batch_id
      PROVE  n < m <=> i < j
    <2> HIDE DEF e
    <2>0. n \in Nat /\ m \in Nat /\ i \in Nat /\ j \in Nat
        BY <1>2
    <2>1. CASE n < m
        BY <1>4, <1>5, <2>1
    <2>2. CASE n = m
        BY <1>3, <1>5, <2>0, <2>2
    <2>3. CASE m < n
        <3>1. j < i
            BY <1>4, <1>5, <2>3
        <3> QED BY <2>0, <2>3, <3>1
    <2> QED BY <2>0, <2>1, <2>2, <2>3
<1>6. \A n \in DOMAIN batch_log : Contains(e, batch_log[n].batch_id)
    BY <1>1 DEF LogInv
<1> QED BY <1>5, <1>6

\* Shapes, PipelineInv and ShardInv together are inductive.
LEMMA ShardInvAlways == Spec => [](Shapes /\ PipelineInv /\ ShardInv)
<1> DEFINE I == Shapes /\ PipelineInv /\ ShardInv
<1>1. Init => I
    BY ShapesInitially, PipelineInitially, ShardInitially
<1>2. I /\ [Next]_vars => I'
    BY ShapesStep, PipelineStep, ShardStep
<1> QED BY <1>1, <1>2, PTL DEF Spec

\* Whatever calls fail, a logged batch has been executed by every shard, once,
\* and all shards execute the logged batches in the order of the log
\* (run_batch_dispatcher, send_batch_to_all_shards, run_batch_executor).
THEOREM LogIsExecutedAlways == Spec => []LogIsExecuted
<1>1. Shapes /\ PipelineInv /\ ShardInv => LogIsExecuted
    BY LogFollows
<1> QED BY <1>1, ShardInvAlways, PTL

\* While no call has failed, no two batches overlap at a shard, for any number of
\* shards and any capacities (send_batch_to_all_shards).
THEOREM BarrierWithoutFailuresAlways == Spec => []BarrierWithoutFailures
<1>1. Shapes /\ PipelineInv /\ ShardInv => BarrierWithoutFailures
    BY BarrierFollows
<1> QED BY <1>1, ShardInvAlways, PTL

-----------------------------------------------------------------------------
(* Clients *)

\* The batches on their way are jobs, of a client or of nobody.
LEMMA JobsTyped ==
    ASSUME Shapes
    PROVE  /\ Jobs \subseteq JobRec
           /\ \A j \in Jobs : j.client \in Clients \/ j.client = NoClient
<1>1. dispatch_queue \in Seq(JobRec) /\ outbox \in Seq(JobRec) /\ (job = NoBatch \/ job \in JobRec)
    BY DEF Shapes
<1>2. ToSet(dispatch_queue) \subseteq JobRec /\ ToSet(outbox) \subseteq JobRec
    BY <1>1, LenProperties, ElementOfSeq DEF ToSet
<1>3. Jobs \subseteq JobRec
    BY <1>1, <1>2 DEF Jobs
<1> QED BY <1>3 DEF JobRec, Sender

\* The elements of a channel before and after.
LEMMA ToSetTail ==
    ASSUME NEW S, NEW q \in Seq(S), q # << >>
    PROVE  ToSet(Tail(q)) \subseteq ToSet(q) /\ Head(q) \in ToSet(q)
<1>1. /\ Len(q) \in Nat \ {0} /\ Len(Tail(q)) = Len(q) - 1 /\ Tail(q) \in Seq(S)
      /\ Head(q) = q[1] /\ \A i \in 1 .. Len(q) - 1 : Tail(q)[i] = q[i + 1]
    BY HeadTail
<1>2. DOMAIN q = 1 .. Len(q) /\ DOMAIN Tail(q) = 1 .. Len(q) - 1
    BY <1>1, LenProperties
<1>3. 1 \in DOMAIN q /\ \A i \in DOMAIN Tail(q) : i + 1 \in DOMAIN q
    BY <1>1, <1>2
<1> QED BY <1>1, <1>2, <1>3 DEF ToSet

\* The elements of a channel that gets one.
LEMMA ToSetAppend ==
    ASSUME NEW S, NEW q \in Seq(S), NEW e \in S
    PROVE  ToSet(Append(q, e)) \subseteq ToSet(q) \cup {e}
<1> DEFINE p == Append(q, e)
<1>1. /\ p \in Seq(S) /\ Len(q) \in Nat /\ Len(p) = Len(q) + 1
      /\ p[Len(q) + 1] = e /\ \A i \in 1 .. Len(q) : p[i] = q[i]
    BY AppendTo
<1> HIDE DEF p
<1>2. DOMAIN q = 1 .. Len(q) /\ DOMAIN p = 1 .. Len(q) + 1
    BY <1>1, LenProperties
<1>3. \A i \in DOMAIN p : i = Len(q) + 1 \/ i \in DOMAIN q
    BY <1>1, <1>2
<1>4. ToSet(p) \subseteq ToSet(q) \cup {e}
    BY <1>1, <1>2, <1>3 DEF ToSet
<1> QED BY <1>4 DEF p

\* Taking a command.
LEMMA ReceiveAsking ==
    ASSUME Shapes, QueueInv, NEW kind, Receives(kind)
    PROVE  /\ \A c \in Clients : Asking(c)' => Asking(c)
           /\ \A i, j \in DOMAIN command_queue' :
                 command_queue'[i].from = command_queue'[j].from =>
                     i = j \/ command_queue'[i].from = NoClient
           /\ Head(command_queue).from \in Clients =>
                 Asking(Head(command_queue).from) /\ \A c \in Clients : Asking(c)' => c # Head(command_queue).from
<1> DEFINE q == command_queue
           p == command_queue'
<1>1. /\ q \in Seq(Command) /\ Len(q) \in Nat \ {0} /\ Head(q) = q[1] /\ Len(p) = Len(q) - 1
      /\ p \in Seq(Command) /\ \A i \in 1 .. Len(q) - 1 : p[i] = q[i + 1]
    BY HeadTail DEF Receives, Shapes, CommandsTyped
<1>2. DOMAIN q = 1 .. Len(q) /\ DOMAIN p = 1 .. Len(q) - 1
    BY <1>1, LenProperties
<1>3. 1 \in DOMAIN q /\ \A i \in DOMAIN p : i + 1 \in DOMAIN q /\ i + 1 # 1 /\ p[i] = q[i + 1]
    BY <1>1, <1>2
<1>4. \A i, j \in DOMAIN p : i + 1 = j + 1 => i = j
    BY <1>1, <1>2
<1>5. \A i, j \in DOMAIN q : q[i].from = q[j].from => i = j \/ q[i].from = NoClient
    BY DEF QueueInv
<1>6. \A c \in Clients : Asking(c) <=> \E i \in DOMAIN q : q[i].from = c
    BY DEF Asking
<1>7. \A c \in Clients : Asking(c)' <=> \E i \in DOMAIN p : p[i].from = c
    BY DEF Asking
<1> HIDE DEF p, q
<1>8. \A c \in Clients : Asking(c)' => Asking(c)
    BY <1>3, <1>6, <1>7
<1>9. \A i, j \in DOMAIN p : p[i].from = p[j].from => i = j \/ p[i].from = NoClient
    BY <1>3, <1>4, <1>5
<1>10. ASSUME q[1].from \in Clients
       PROVE  Asking(q[1].from) /\ \A c \in Clients : Asking(c)' => c # q[1].from
    <2>1. Asking(q[1].from)
        BY <1>3, <1>6, <1>10
    <2>2. ASSUME NEW c \in Clients, Asking(c)', c = q[1].from PROVE FALSE
        <3>1. PICK i \in DOMAIN p : p[i].from = q[1].from
            BY <1>7, <2>2
        <3>2. i + 1 \in DOMAIN q /\ i + 1 # 1 /\ q[i + 1].from = q[1].from
            BY <1>3, <3>1
        <3>3. q[i + 1].from # NoClient
            BY <1>10, <3>2, Constants
        <3> QED BY <1>3, <1>5, <3>2, <3>3
    <2> QED BY <2>1, <2>2
<1> QED BY <1>1, <1>8, <1>9, <1>10 DEF p, q

\* Queueing a command of a sender that has none queued, or of a timer.
LEMMA AppendAsking ==
    ASSUME Shapes, QueueInv, NEW e \in Command, command_queue' = Append(command_queue, e),
           e.from = NoClient \/ ~Asking(e.from)
    PROVE  /\ \A c \in Clients : Asking(c)' => Asking(c) \/ c = e.from
           /\ \A i, j \in DOMAIN command_queue' :
                 command_queue'[i].from = command_queue'[j].from =>
                     i = j \/ command_queue'[i].from = NoClient
<1> DEFINE q == command_queue
           p == command_queue'
<1>1. /\ q \in Seq(Command) /\ Len(q) \in Nat /\ Len(p) = Len(q) + 1 /\ p \in Seq(Command)
      /\ p[Len(q) + 1] = e /\ \A i \in 1 .. Len(q) : p[i] = q[i]
    BY AppendTo DEF Shapes, CommandsTyped
<1>2. DOMAIN q = 1 .. Len(q) /\ DOMAIN p = 1 .. Len(q) + 1
    BY <1>1, LenProperties
<1>3. \A i \in DOMAIN p : i = Len(q) + 1 \/ (i \in DOMAIN q /\ p[i] = q[i])
    BY <1>1, <1>2
<1>5. \A i, j \in DOMAIN q : q[i].from = q[j].from => i = j \/ q[i].from = NoClient
    BY DEF QueueInv
<1>6. \A c : Asking(c) <=> \E i \in DOMAIN q : q[i].from = c
    BY DEF Asking
<1>7. \A c \in Clients : Asking(c)' <=> \E i \in DOMAIN p : p[i].from = c
    BY DEF Asking
<1>a. e.from = NoClient \/ \A i \in DOMAIN q : q[i].from # e.from
    BY <1>6
<1> HIDE DEF p, q
<1>8. \A c \in Clients : Asking(c)' => Asking(c) \/ c = e.from
    BY <1>1, <1>3, <1>6, <1>7
<1>9. \A i, j \in DOMAIN p : p[i].from = p[j].from => i = j \/ p[i].from = NoClient
    BY <1>1, <1>3, <1>5, <1>a
<1> QED BY <1>8, <1>9 DEF p

\* At the start no client has asked for anything.
LEMMA ClientsInitially == Init => ClientInv
<1> SUFFICES ASSUME Init PROVE ClientInv
    OBVIOUS
<1>1. /\ command_queue = << >> /\ owed = NoClient /\ dispatch_queue = << >> /\ outbox = << >>
      /\ job = NoBatch /\ \A c \in Clients : client[c].status = "idle"
    BY DEF Init
<1>2. Jobs = {}
    BY <1>1 DEF Jobs, ToSet
<1>3. QueueInv
    BY <1>1 DEF QueueInv, Asking
<1> QED BY <1>1, <1>2, <1>3 DEF ClientInv, JobsInv, OwedInv, OkIsLogged

\* The steps of clients and timers, which only queue a command.
LEMMA SubmitKeepsClients ==
    ASSUME Shapes, Shapes', ClientInv, NEW c \in Clients, Submit(c)
    PROVE  ClientInv'
<1>0. client \in [Clients -> [status : Status, txs : Seq(Nat)]] /\ owed \in Sender
    BY DEF Shapes
<1>1. /\ client[c].status = "idle" /\ client' = [client EXCEPT ![c].status = "waiting"]
      /\ UNCHANGED <<owed, dispatch_queue, outbox, job, batch_log>>
    BY DEF Submit, actorVars, dispatchVars
<1>2. /\ client'[c].status = "waiting"
      /\ \A d \in Clients : client'[d].txs = client[d].txs
      /\ \A d \in Clients : d # c => client'[d].status = client[d].status
    BY <1>0, <1>1
<1>3. PICK r \in Requests :
         command_queue' = Append(command_queue, [kind |-> r.kind, arg |-> r.size, from |-> c])
    BY DEF Submit
<1> DEFINE e == [kind |-> r.kind, arg |-> r.size, from |-> c]
<1>4. e \in Command /\ e.from = c
    BY Constants DEF Command, Sender
<1>5. ~Asking(c)
    BY <1>1 DEF ClientInv, QueueInv
<1> HIDE DEF e
<1>6. command_queue' = Append(command_queue, e)
    BY <1>3 DEF e
<1>7. /\ \A d \in Clients : Asking(d)' => Asking(d) \/ d = c
      /\ \A i, j \in DOMAIN command_queue' :
            command_queue'[i].from = command_queue'[j].from =>
                i = j \/ command_queue'[i].from = NoClient
    BY <1>4, <1>5, <1>6, AppendAsking DEF ClientInv
<1>8. QueueInv'
    BY <1>2, <1>7 DEF QueueInv, ClientInv
<1>9. JobsInv'
    <2>1. Jobs' = Jobs
        BY <1>1 DEF Jobs
    <2> QED BY <1>1, <1>2, <1>7, <2>1, JobsTyped DEF JobsInv, ClientInv
<1>10. OwedInv'
    BY <1>0, <1>1, <1>2, <1>7 DEF OwedInv, ClientInv, Sender
<1>11. OkIsLogged'
    BY <1>1, <1>2 DEF OkIsLogged, ClientInv
<1> QED BY <1>8, <1>9, <1>10, <1>11 DEF ClientInv

\* A timer has no client.
LEMMA TimerKeepsClients ==
    ASSUME Shapes, Shapes', ClientInv, NEW b \in timers, FlushTimer(b)
    PROVE  ClientInv'
<1>0. owed \in Sender /\ b \in Nat
    BY DEF Shapes
<1>1. UNCHANGED <<client, owed, dispatch_queue, outbox, job, batch_log>>
    BY DEF FlushTimer, actorVars, dispatchVars
<1> DEFINE e == [kind |-> "FlushOpen", arg |-> b, from |-> NoClient]
<1>2. e \in Command /\ e.from = NoClient
    BY <1>0 DEF Command, Sender
<1>3. command_queue' = Append(command_queue, e)
    BY DEF FlushTimer
<1> HIDE DEF e
<1>4. /\ \A d \in Clients : Asking(d)' => Asking(d)
      /\ \A i, j \in DOMAIN command_queue' :
            command_queue'[i].from = command_queue'[j].from =>
                i = j \/ command_queue'[i].from = NoClient
    BY <1>2, <1>3, AppendAsking, Constants DEF ClientInv
<1>5. QueueInv'
    BY <1>1, <1>4 DEF QueueInv, ClientInv
<1>6. JobsInv'
    <2>1. Jobs' = Jobs
        BY <1>1 DEF Jobs
    <2> QED BY <1>1, <1>4, <2>1, JobsTyped DEF JobsInv, ClientInv
<1>7. OwedInv'
    BY <1>0, <1>1, <1>4 DEF OwedInv, ClientInv, Sender
<1>8. OkIsLogged'
    BY <1>1 DEF OkIsLogged, ClientInv
<1> QED BY <1>5, <1>6, <1>7, <1>8 DEF ClientInv

\* A handler answers the client of its command, or notes its transactions, and
\* sends batches that are for this client or for nobody.
LEMMA HandlerKeepsClients ==
    ASSUME Shapes, Shapes', ClientInv, NEW kind, Receives(kind), NEW c \in Clients,
           c = Head(command_queue).from,
           client'[c].status \in {"waiting", "acked", "err"},
           \A d \in Clients : d # c => client'[d] = client[d],
           \A j \in Jobs' : \/ j \in Jobs \/ j.client = NoClient
                            \/ j.client = c /\ j.txs = client'[c].txs,
           owed' = owed \/ owed' = c, batch_log' = batch_log
    PROVE  ClientInv'
<1>1. /\ \A d \in Clients : Asking(d)' => Asking(d) /\ d # c
      /\ \A i, j \in DOMAIN command_queue' :
            command_queue'[i].from = command_queue'[j].from =>
                i = j \/ command_queue'[i].from = NoClient
      /\ Asking(c)
    BY ReceiveAsking DEF ClientInv
<1>2. QueueInv'
    BY <1>1 DEF QueueInv, ClientInv
<1>3. JobsInv'
    <2> SUFFICES ASSUME NEW j \in Jobs', j.client # NoClient
                 PROVE  /\ client'[j.client].txs = j.txs /\ client'[j.client].status # "idle"
                        /\ ~Asking(j.client)'
        BY DEF JobsInv
    <2>1. CASE j \in Jobs
        <3>1. /\ j.client \in Clients /\ client[j.client].txs = j.txs
              /\ client[j.client].status # "idle" /\ ~Asking(j.client)
            BY <2>1, JobsTyped DEF ClientInv, JobsInv
        <3>2. j.client # c
            BY <1>1, <3>1
        <3>3. ~Asking(j.client)'
            BY <1>1, <3>1
        <3> QED BY <3>1, <3>2, <3>3
    <2>2. CASE j.client = c /\ j.txs = client'[c].txs
        <3>1. ~Asking(c)'
            BY <1>1
        <3> QED BY <2>2, <3>1
    <2> QED BY <2>1, <2>2
<1>4. OwedInv'
    <2> SUFFICES ASSUME owed' # NoClient PROVE client'[owed'].status # "idle" /\ ~Asking(owed)'
        BY DEF OwedInv
    <2>1. CASE owed' = c
        BY <1>1, <2>1 DEF Asking
    <2>2. CASE owed' = owed /\ owed # c
        <3>1. owed \in Clients
            BY <2>2 DEF Shapes, Sender
        <3>2. client[owed].status # "idle" /\ ~Asking(owed)
            BY <2>2 DEF ClientInv, OwedInv
        <3>3. \A d \in Clients : d = owed => ~Asking(d)'
            BY <1>1, <3>2
        <3>4. ~Asking(owed)'
            BY <2>2, <3>1, <3>3 DEF Asking
        <3> QED BY <2>2, <3>1, <3>2, <3>4
    <2> QED BY <2>1, <2>2
<1>5. OkIsLogged'
    BY DEF OkIsLogged, ClientInv
<1> QED BY <1>2, <1>3, <1>4, <1>5 DEF ClientInv

\* handle_submit_tx numbers the transaction and answers, or owes the answer.
LEMMA SubmitTxKeepsClients ==
    ASSUME Shapes, Shapes', ClientInv, handle_submit_tx
    PROVE  ClientInv'
<1> DEFINE c == Head(command_queue).from
<1>0. client \in [Clients -> [status : Status, txs : Seq(Nat)]]
    BY DEF Shapes
<1>1. /\ Receives("SubmitTx") /\ c \in Clients /\ outbox = << >>
      /\ UNCHANGED <<dispatch_queue, job, batch_log>>
    BY SubmitTxEffect DEF handle_submit_tx, dispatchVars
<1>2. Asking(c) /\ client[c].status = "waiting"
    BY <1>1, ReceiveAsking DEF ClientInv, QueueInv
<1>3. CASE IsFull(Opened.txs)
    <2>1. /\ outbox' = << Job(Opened, NoClient) >> /\ owed' = c
          /\ client' = [client EXCEPT ![c].txs = <<next_tx_id>>]
        BY <1>3, SubmitTxEffect
    <2> HIDE DEF c
    <2>2. client'[c].status = "waiting" /\ \A d \in Clients : d # c => client'[d] = client[d]
        BY <1>0, <1>1, <1>2, <2>1
    <2>3. ASSUME NEW j \in Jobs' PROVE j \in Jobs \/ j.client = NoClient
        <3>1. \A x \in ToSet(outbox') : x.client = NoClient
            BY <2>1 DEF ToSet, Job
        <3> QED BY <1>1, <2>3, <3>1 DEF Jobs
    <2> QED BY <1>1, <2>1, <2>2, <2>3, HandlerKeepsClients DEF c
<1>4. CASE ~IsFull(Opened.txs)
    <2>1. /\ outbox' = outbox /\ owed' = owed
          /\ client' = [client EXCEPT ![c] = [status |-> "acked", txs |-> <<next_tx_id>>]]
        BY <1>4, SubmitTxEffect
    <2> HIDE DEF c
    <2>2. client'[c].status = "acked" /\ \A d \in Clients : d # c => client'[d] = client[d]
        BY <1>0, <1>1, <2>1
    <2>3. Jobs' = Jobs
        BY <1>1, <2>1 DEF Jobs
    <2> QED BY <1>1, <2>1, <2>2, <2>3, HandlerKeepsClients DEF c
<1> QED BY <1>3, <1>4

\* handle_submit_batch refuses the batch, or sends it with its client.
LEMMA SubmitBatchKeepsClients ==
    ASSUME Shapes, Shapes', ClientInv, handle_submit_batch
    PROVE  ClientInv'
<1> DEFINE c == Head(command_queue).from
<1>0. client \in [Clients -> [status : Status, txs : Seq(Nat)]]
    BY DEF Shapes
<1>1. Receives("SubmitBatch") /\ outbox = << >> /\ UNCHANGED <<dispatch_queue, job, batch_log>>
    BY SubmitBatchEffect DEF handle_submit_batch, dispatchVars
<1>2. c \in Clients /\ NewJob.client = c /\ NewJob.txs = NewIds
    BY <1>1, NewJobShape
<1>3. Asking(c) /\ client[c].status = "waiting"
    BY <1>1, <1>2, ReceiveAsking DEF ClientInv, QueueInv
<1>4. CASE Head(command_queue).arg > max_batch_size
    <2>1. client' = [client EXCEPT ![c].status = "err"] /\ outbox' = outbox /\ owed' = owed
        BY <1>4, SubmitBatchEffect DEF actorVars
    <2> HIDE DEF c
    <2>2. client'[c].status = "err" /\ \A d \in Clients : d # c => client'[d] = client[d]
        BY <1>0, <1>2, <2>1
    <2>3. Jobs' = Jobs
        BY <1>1, <2>1 DEF Jobs
    <2> QED BY <1>1, <1>2, <2>1, <2>2, <2>3, HandlerKeepsClients DEF c
<1>5. CASE ~(Head(command_queue).arg > max_batch_size)
    <2>1. /\ client' = [client EXCEPT ![c].txs = NewIds]
          /\ outbox' = SealedFirst(open_batch, NewJob) /\ owed' = owed
        BY <1>5, SubmitBatchEffect
    <2>2. ASSUME NEW x \in ToSet(outbox') PROVE x = NewJob \/ x.client = NoClient
        <3>1. /\ outbox' \in Seq(JobRec)
              /\ open_batch = NoBatch => Len(outbox') = 1 /\ outbox'[1] = NewJob
              /\ open_batch # NoBatch => /\ Len(outbox') = 2 /\ outbox'[2] = NewJob
                                         /\ outbox'[1].client = NoClient
            BY <1>1, <2>1, SubmitBatchOutbox
        <3>2. DOMAIN outbox' = 1 .. Len(outbox')
            BY <3>1, LenProperties
        <3>3. PICK i \in 1 .. Len(outbox') : x = outbox'[i]
            BY <2>2, <3>2 DEF ToSet
        <3>4. i = 1 \/ (open_batch # NoBatch /\ i = 2)
            BY <3>1, <3>3
        <3> QED BY <3>1, <3>3, <3>4
    <2> HIDE DEF c
    <2>3. /\ client'[c].status = "waiting" /\ client'[c].txs = NewIds
          /\ \A d \in Clients : d # c => client'[d] = client[d]
        BY <1>0, <1>2, <1>3, <2>1
    <2>4. ASSUME NEW j \in Jobs'
          PROVE  j \in Jobs \/ j.client = NoClient \/ (j.client = c /\ j.txs = client'[c].txs)
        <3>1. j \in Jobs \/ j \in ToSet(outbox')
            BY <1>1 DEF Jobs
        <3> QED BY <1>2, <2>2, <2>3, <3>1
    <2> QED BY <1>1, <1>2, <2>1, <2>3, <2>4, HandlerKeepsClients DEF c
<1> QED BY <1>4, <1>5

\* The other steps queue no command and move batches along; they may answer a
\* client that has no command queued.
LEMMA OthersKeepClients ==
    ASSUME Shapes, Shapes', ClientInv,
           \A c \in Clients : Asking(c)' => Asking(c) /\ client'[c].status = client[c].status,
           \A i, j \in DOMAIN command_queue' :
               command_queue'[i].from = command_queue'[j].from =>
                   i = j \/ command_queue'[i].from = NoClient,
           \A c \in Clients : /\ client'[c].txs = client[c].txs
                              /\ client'[c].status = client[c].status
                                 \/ client'[c].status # "idle",
           \A j \in Jobs' : j \in Jobs \/ j.client = NoClient,
           owed' = owed \/ owed' = NoClient,
           OkIsLogged'
    PROVE  ClientInv'
<1>1. QueueInv'
    BY DEF QueueInv, ClientInv
<1>2. JobsInv'
    BY JobsTyped DEF JobsInv, ClientInv
<1>3. OwedInv'
    <2> SUFFICES ASSUME owed' # NoClient PROVE client'[owed'].status # "idle" /\ ~Asking(owed)'
        BY DEF OwedInv
    <2>1. owed \in Clients /\ owed' = owed /\ client[owed].status # "idle" /\ ~Asking(owed)
        BY DEF ClientInv, OwedInv, Shapes, Sender
    <2>2. \A c \in Clients : c = owed => ~Asking(c)'
        BY <2>1
    <2>3. ~Asking(owed)'
        BY <2>1, <2>2 DEF Asking
    <2> QED BY <2>1, <2>3
<1> QED BY <1>1, <1>2, <1>3 DEF ClientInv

\* Every step keeps the invariant of the clients.
LEMMA ClientsStep ==
    ASSUME Shapes, Shapes', ClientInv, [Next]_vars
    PROVE  ClientInv'
<1>0. /\ client \in [Clients -> [status : Status, txs : Seq(Nat)]] /\ owed \in Sender
      /\ outbox \in Seq(JobRec) /\ dispatch_queue \in Seq(JobRec)
      /\ (job = NoBatch \/ job \in JobRec) /\ batch_log \in Seq(BatchRec)
    BY DEF Shapes
<1>a. ASSUME command_queue' = command_queue
      PROVE  /\ \A c : Asking(c)' <=> Asking(c)
             /\ \A i, j \in DOMAIN command_queue' :
                   command_queue'[i].from = command_queue'[j].from =>
                       i = j \/ command_queue'[i].from = NoClient
    BY <1>a DEF Asking, ClientInv, QueueInv
<1>1. ASSUME handle_flush_open PROVE ClientInv'
    <2>1. /\ Receives("FlushOpen") /\ outbox = << >>
          /\ UNCHANGED <<client, owed, dispatch_queue, job, batch_log>>
        BY <1>1 DEF handle_flush_open, Receives, dispatchVars
    <2>2. /\ \A c \in Clients : Asking(c)' => Asking(c)
          /\ \A i, j \in DOMAIN command_queue' :
                command_queue'[i].from = command_queue'[j].from =>
                    i = j \/ command_queue'[i].from = NoClient
        BY <2>1, ReceiveAsking DEF ClientInv
    <2>3. ASSUME NEW x \in ToSet(outbox') PROVE x.client = NoClient
        <3>1. outbox' = << >> \/ outbox' = << Job(open_batch, NoClient) >>
            BY <1>1, <2>1 DEF handle_flush_open, Sealed
        <3> QED BY <2>3, <3>1 DEF ToSet, Job
    <2>4. \A j \in Jobs' : j \in Jobs \/ j.client = NoClient
        BY <2>1, <2>3 DEF Jobs
    <2>5. OkIsLogged'
        BY <2>1 DEF OkIsLogged, ClientInv
    <2> QED BY <2>1, <2>2, <2>4, <2>5, OthersKeepClients
<1>2. ASSUME dispatch_batch PROVE ClientInv'
    <2>1. /\ outbox # << >> /\ dispatch_queue' = Append(dispatch_queue, Head(outbox))
          /\ outbox' = Tail(outbox) /\ command_queue' = command_queue
          /\ UNCHANGED <<job, batch_log>>
        BY <1>2 DEF dispatch_batch, dispatchVars
    <2>2. Head(outbox) \in JobRec /\ ToSet(outbox') \subseteq ToSet(outbox) /\ Head(outbox) \in ToSet(outbox)
        BY <1>0, <2>1, HeadTail, ToSetTail
    <2>3. ToSet(dispatch_queue') \subseteq ToSet(dispatch_queue) \cup {Head(outbox)}
        BY <1>0, <2>1, <2>2, ToSetAppend
    <2>4. \A j \in Jobs' : j \in Jobs
        BY <2>1, <2>2, <2>3 DEF Jobs
    <2>5. CASE AckIsDue(Tail(outbox))
        <3>1. /\ owed # NoClient /\ client' = [client EXCEPT ![owed].status = "acked"]
              /\ owed' = NoClient
            BY <1>2, <2>5 DEF dispatch_batch, AckIsDue
        <3>2. owed \in Clients /\ ~Asking(owed)
            BY <1>0, <3>1 DEF Sender, ClientInv, OwedInv
        <3>3. /\ client'[owed].status = "acked"
              /\ \A c \in Clients : client'[c].txs = client[c].txs
              /\ \A c \in Clients : c # owed => client'[c].status = client[c].status
            BY <1>0, <3>1, <3>2
        <3>4. OkIsLogged'
            BY <2>1, <3>3 DEF OkIsLogged, ClientInv
        <3> QED BY <1>a, <2>1, <2>4, <3>1, <3>2, <3>3, <3>4, OthersKeepClients
    <2>6. CASE ~AckIsDue(Tail(outbox))
        <3>1. client' = client /\ owed' = owed
            BY <1>2, <2>6 DEF dispatch_batch
        <3>2. OkIsLogged'
            BY <2>1, <3>1 DEF OkIsLogged, ClientInv
        <3> QED BY <1>a, <2>1, <2>4, <3>1, <3>2, OthersKeepClients
    <2> QED BY <2>5, <2>6
<1>3. ASSUME TakeJob PROVE ClientInv'
    <2>1. /\ dispatch_queue # << >> /\ job = NoBatch /\ job' = Head(dispatch_queue)
          /\ dispatch_queue' = Tail(dispatch_queue)
          /\ UNCHANGED <<client, command_queue, owed, outbox, batch_log>>
        BY <1>3 DEF TakeJob, actorVars
    <2>2. ToSet(dispatch_queue') \subseteq ToSet(dispatch_queue) /\ job' \in ToSet(dispatch_queue)
        BY <1>0, <2>1, ToSetTail
    <2>3. \A j \in Jobs' : j \in Jobs
        BY <2>1, <2>2 DEF Jobs
    <2>4. OkIsLogged'
        BY <2>1 DEF OkIsLogged, ClientInv
    <2> QED BY <1>a, <2>1, <2>3, <2>4, OthersKeepClients
<1>4. ASSUME FinishJob PROVE ClientInv'
    <2> DEFINE b == [batch_id |-> job.batch_id, txs |-> job.txs]
    <2>1. /\ job # NoBatch /\ job' = NoBatch
          /\ batch_log' = (IF AllOk THEN Append(batch_log, b) ELSE batch_log)
          /\ UNCHANGED <<command_queue, owed, outbox, dispatch_queue>>
        BY <1>4 DEF FinishJob, actorVars
    <2>2. b \in BatchRec /\ b.txs = job.txs /\ job \in Jobs
        BY <1>0, <2>1 DEF JobRec, BatchRec, Jobs
    <2> HIDE DEF b
    <2>3. \A j \in Jobs' : j \in Jobs
        BY <2>1 DEF Jobs
    <2>4. \A n \in DOMAIN batch_log : n \in DOMAIN batch_log' /\ batch_log'[n] = batch_log[n]
        BY <1>0, <2>1, <2>2, AppendTo, LenProperties
    <2>5. AllOk => \E n \in DOMAIN batch_log' : batch_log'[n].txs = job.txs
        <3> SUFFICES ASSUME AllOk PROVE \E n \in DOMAIN batch_log' : batch_log'[n].txs = job.txs
            OBVIOUS
        <3> DEFINE k == Len(batch_log) + 1
        <3>1. batch_log' \in Seq(BatchRec) /\ Len(batch_log') = k /\ k \in Nat \ {0}
              /\ batch_log'[k] = b
            BY <1>0, <2>1, <2>2, AppendTo
        <3>2. k \in DOMAIN batch_log'
            BY <3>1, LenProperties
        <3> QED BY <2>2, <3>1, <3>2
    <2>6. CASE job.client = NoClient
        <3>1. client' = client
            BY <1>4, <2>6 DEF FinishJob
        <3>2. OkIsLogged'
            BY <2>4, <3>1 DEF OkIsLogged, ClientInv
        <3> QED BY <1>a, <2>1, <2>3, <3>1, <3>2, OthersKeepClients
    <2>7. CASE job.client # NoClient
        <3>1. client' = [client EXCEPT ![job.client].status = Reply(AllOk)]
            BY <1>4, <2>7 DEF FinishJob
        <3>2. job.client \in Clients /\ ~Asking(job.client) /\ client[job.client].txs = job.txs
            BY <2>2, <2>7, JobsTyped DEF ClientInv, JobsInv
        <3>3. /\ client'[job.client].status = Reply(AllOk)
              /\ \A c \in Clients : client'[c].txs = client[c].txs
              /\ \A c \in Clients : c # job.client => client'[c].status = client[c].status
            BY <1>0, <3>1, <3>2
        <3>4. Reply(AllOk) # "idle" /\ (Reply(AllOk) = "ok" => AllOk)
            BY DEF Reply
        <3>5. OkIsLogged'
            <4> SUFFICES ASSUME NEW c \in Clients, client'[c].status = "ok"
                         PROVE  \E n \in DOMAIN batch_log' : batch_log'[n].txs = client'[c].txs
                BY DEF OkIsLogged
            <4>1. CASE c = job.client
                BY <2>5, <3>2, <3>3, <3>4, <4>1
            <4>2. CASE c # job.client
                BY <2>4, <3>3, <4>2 DEF OkIsLogged, ClientInv
            <4> QED BY <4>1, <4>2
        <3> QED BY <1>a, <2>1, <2>3, <3>2, <3>3, <3>4, <3>5, OthersKeepClients
    <2> QED BY <2>6, <2>7
<1>5. ASSUME UNCHANGED <<client, command_queue, owed, outbox, dispatch_queue, job, batch_log>>
      PROVE  ClientInv'
    <2>1. Jobs' = Jobs
        BY <1>5 DEF Jobs
    <2>2. OkIsLogged'
        BY <1>5 DEF OkIsLogged, ClientInv
    <2> QED BY <1>a, <1>5, <2>1, <2>2, OthersKeepClients
<1>6. ASSUME NEW s \in Shards, Shard(s) \/ FailCall(s) PROVE ClientInv'
    BY <1>5, <1>6 DEF Shard, Deliver, ExecuteBatch, FailCall, dispatchVars, actorVars
<1>7. ASSUME UNCHANGED vars PROVE ClientInv'
    BY <1>5, <1>7 DEF vars, dispatchVars, actorVars
<1> QED BY <1>1, <1>2, <1>3, <1>4, <1>6, <1>7, SubmitKeepsClients, TimerKeepsClients,
           SubmitTxKeepsClients, SubmitBatchKeepsClients DEF Next, Actor, Dispatcher, Timers

\* A client of SubmitBatch is told Ok only when its transactions are in the log as
\* one batch, whatever calls fail and whatever other clients ask
\* (run_batch_dispatcher).
THEOREM OkIsLoggedAlways == Spec => []OkIsLogged
<1> DEFINE I == Shapes /\ ClientInv
<1>1. Init => I
    BY ShapesInitially, ClientsInitially
<1>2. I /\ [Next]_vars => I'
    BY ShapesStep, ClientsStep
<1>3. I => OkIsLogged
    BY DEF ClientInv
<1> QED BY <1>1, <1>2, <1>3, PTL DEF Spec

-----------------------------------------------------------------------------
(* Flushes *)

\* Flush timers and their commands are of batches that have an id, and there is
\* one of them for a batch at most.
TimerInv ==
    /\ \A b \in timers : b < next_batch_id
    /\ \A i \in DOMAIN command_queue : command_queue[i].kind = "FlushOpen" =>
          command_queue[i].arg < next_batch_id /\ command_queue[i].arg \notin timers
    /\ \A i, j \in DOMAIN command_queue :
          /\ command_queue[i].kind = "FlushOpen" /\ command_queue[j].kind = "FlushOpen"
          /\ command_queue[i].arg = command_queue[j].arg
          => i = j

\* Batches on their way, and the open one, have an id.
IdsInv == /\ open_batch.batch_id < next_batch_id
          /\ \A n \in DOMAIN Dispatched : Dispatched[n].batch_id < next_batch_id

FlushInv == TimerInv /\ IdsInv /\ FlushSealsItsBatch

\* Moving the head of one channel to the end of another keeps their concatenation.
LEMMA MoveHead ==
    ASSUME NEW S, NEW p \in Seq(S), NEW q \in Seq(S), q # << >>
    PROVE  Append(p, Head(q)) \o Tail(q) = p \o q
<1> DEFINE a == Append(p, Head(q))
           t == Tail(q)
<1>1. /\ Head(q) \in S /\ Head(q) = q[1] /\ t \in Seq(S) /\ Len(q) \in Nat \ {0}
      /\ Len(t) = Len(q) - 1 /\ \A i \in 1 .. Len(q) - 1 : t[i] = q[i + 1]
    BY HeadTail
<1>2. /\ a \in Seq(S) /\ Len(p) \in Nat /\ Len(a) = Len(p) + 1
      /\ \A i \in 1 .. Len(p) : a[i] = p[i]
      /\ a[Len(p) + 1] = q[1]
    BY <1>1, AppendTo
<1> HIDE DEF a, t
<1> DEFINE l == a \o t
           r == p \o q
<1>3. /\ l \in Seq(S) /\ Len(l) = Len(p) + Len(q)
      /\ \A i \in 1 .. Len(p) + Len(q) : l[i] = IF i <= Len(p) + 1 THEN a[i] ELSE t[i - (Len(p) + 1)]
    <2>1. /\ l \in Seq(S) /\ Len(l) = Len(a) + Len(t)
          /\ \A i \in 1 .. Len(a) + Len(t) : l[i] = IF i <= Len(a) THEN a[i] ELSE t[i - Len(a)]
        BY <1>1, <1>2, ConcatProperties
    <2>2. Len(a) + Len(t) = Len(p) + Len(q)
        BY <1>1, <1>2
    <2> HIDE DEF l
    <2> QED BY <1>2, <2>1, <2>2
<1>4. /\ r \in Seq(S) /\ Len(r) = Len(p) + Len(q)
      /\ \A i \in 1 .. Len(p) + Len(q) : r[i] = IF i <= Len(p) THEN p[i] ELSE q[i - Len(p)]
    BY ConcatProperties
<1> HIDE DEF l, r
<1>5. ASSUME NEW i \in 1 .. Len(p) + Len(q) PROVE l[i] = r[i]
    <2>1. CASE i <= Len(p)
        BY <1>1, <1>2, <1>3, <1>4, <2>1
    <2>2. CASE i = Len(p) + 1
        BY <1>1, <1>2, <1>3, <1>4, <2>2
    <2>3. CASE i > Len(p) + 1
        <3>1. i - (Len(p) + 1) \in 1 .. Len(q) - 1 /\ (i - (Len(p) + 1)) + 1 = i - Len(p)
            BY <1>1, <1>2, <2>3
        <3>2. t[i - (Len(p) + 1)] = q[i - Len(p)]
            BY <1>1, <3>1
        <3> QED BY <1>1, <1>2, <1>3, <1>4, <2>3, <3>2
    <2> QED BY <1>1, <1>2, <2>1, <2>2, <2>3
<1>6. l = r
    BY <1>3, <1>4, <1>5, SeqEqual
<1> QED BY <1>6 DEF l, r, a, t

\* A channel without the element that was put in front of it.
LEMMA DropFront ==
    ASSUME NEW S, NEW e \in S, NEW q \in Seq(S)
    PROVE  <<e>> \o q # << >> /\ Tail(<<e>> \o q) = q
<1> DEFINE c == <<e>> \o q
<1>1. /\ c \in Seq(S) /\ Len(c) = 1 + Len(q) /\ Len(q) \in Nat
      /\ \A i \in 1 .. 1 + Len(q) : c[i] = IF i <= 1 THEN <<e>>[i] ELSE q[i - 1]
    <2>1. <<e>> \in Seq(S) /\ Len(<<e>>) = 1
        OBVIOUS
    <2> QED BY <2>1, ConcatProperties, LenProperties
<1> HIDE DEF c
<1>2. c # << >>
    BY <1>1, EmptySeq
<1>3. /\ Tail(c) \in Seq(S) /\ Len(Tail(c)) = Len(q)
      /\ \A i \in 1 .. Len(q) : Tail(c)[i] = c[i + 1]
    BY <1>1, <1>2, HeadTail
<1>4. \A i \in 1 .. Len(q) : Tail(c)[i] = q[i]
    BY <1>1, <1>3
<1>5. Tail(c) = q
    BY <1>3, <1>4, SeqEqual
<1> QED BY <1>2, <1>5 DEF c

Working == IF job = NoBatch THEN << >> ELSE <<job>>

\* The parts of the pipeline that Dispatched joins.
LEMMA DispatchedParts ==
    ASSUME Shapes
    PROVE  /\ Working \in Seq(JobRec) /\ dispatch_queue \in Seq(JobRec) /\ outbox \in Seq(JobRec)
           /\ Working \o dispatch_queue \in Seq(JobRec)
           /\ Dispatched = (Working \o dispatch_queue) \o outbox /\ Dispatched \in Seq(JobRec)
<1>1. Working \in Seq(JobRec)
    <2>1. CASE job = NoBatch
        BY <2>1 DEF Working
    <2>2. CASE job # NoBatch
        <3>1. job \in JobRec
            BY <2>2 DEF Shapes
        <3> QED BY <2>2, <3>1 DEF Working
    <2> QED BY <2>1, <2>2
<1>2. dispatch_queue \in Seq(JobRec) /\ outbox \in Seq(JobRec)
    BY DEF Shapes
<1>3. Working \o dispatch_queue \in Seq(JobRec)
    BY <1>1, <1>2, ConcatProperties
<1>4. (Working \o dispatch_queue) \o outbox \in Seq(JobRec)
    BY <1>2, <1>3, ConcatProperties
<1>5. Dispatched = (Working \o dispatch_queue) \o outbox
    BY DEF Dispatched, Working
<1> QED BY <1>1, <1>2, <1>3, <1>4, <1>5

\* dispatch_batch and TakeJob leave the batches on their way in place.
LEMMA MovesKeepDispatched ==
    ASSUME Shapes, dispatch_batch \/ TakeJob
    PROVE  Dispatched' = Dispatched
<1>0. /\ Working \in Seq(JobRec) /\ dispatch_queue \in Seq(JobRec) /\ outbox \in Seq(JobRec)
      /\ Working \o dispatch_queue \in Seq(JobRec)
      /\ Dispatched = (Working \o dispatch_queue) \o outbox
    BY DispatchedParts
<1>a. Dispatched' = (Working' \o dispatch_queue') \o outbox'
    BY DEF Dispatched, Working
<1>1. CASE dispatch_batch
    <2>1. /\ outbox # << >> /\ dispatch_queue' = Append(dispatch_queue, Head(outbox))
          /\ outbox' = Tail(outbox) /\ Working' = Working
        BY <1>1 DEF dispatch_batch, dispatchVars, Working
    <2> DEFINE h == Head(outbox)
    <2>2. h \in JobRec /\ <<h>> \in Seq(JobRec)
        <3>1. h \in JobRec
            BY <1>0, <2>1, HeadTail
        <3> HIDE DEF h
        <3> QED BY <3>1
    <2> HIDE DEF h
    <2>3. Working \o Append(dispatch_queue, h) = Append(Working \o dispatch_queue, h)
        <3>1. Append(dispatch_queue, h) = dispatch_queue \o <<h>>
            BY <1>0, <2>2, AppendIsConcat
        <3>2. Append(Working \o dispatch_queue, h) = (Working \o dispatch_queue) \o <<h>>
            BY <1>0, <2>2, AppendIsConcat
        <3>3. (Working \o dispatch_queue) \o <<h>> = Working \o (dispatch_queue \o <<h>>)
            BY <1>0, <2>2, ConcatAssociative
        <3> QED BY <3>1, <3>2, <3>3
    <2>4. Append(Working \o dispatch_queue, Head(outbox)) \o Tail(outbox)
          = (Working \o dispatch_queue) \o outbox
        BY <1>0, <2>1, MoveHead
    <2> QED BY <1>0, <1>a, <2>1, <2>3, <2>4 DEF h
<1>2. CASE TakeJob
    <2>1. /\ Working = << >> /\ dispatch_queue # << >>
          /\ job' = Head(dispatch_queue) /\ dispatch_queue' = Tail(dispatch_queue)
          /\ outbox' = outbox
        BY <1>2 DEF TakeJob, Working, actorVars
    <2>2. Working' = << Head(dispatch_queue) >>
        <3>1. Head(dispatch_queue) \in JobRec
            BY <1>0, <2>1, HeadTail
        <3>2. job' # NoBatch
            BY <2>1, <3>1 DEF JobRec, NoBatch
        <3> QED BY <2>1, <3>2 DEF Working
    <2>3. Append(Working, Head(dispatch_queue)) = << Head(dispatch_queue) >>
        BY <2>1
    <2>4. Append(Working, Head(dispatch_queue)) \o Tail(dispatch_queue) = Working \o dispatch_queue
        BY <1>0, <2>1, MoveHead
    <2> QED BY <1>0, <1>a, <2>1, <2>2, <2>3, <2>4
<1> QED BY <1>1, <1>2

\* FinishJob takes the first of them away.
LEMMA FinishDropsFirst ==
    ASSUME Shapes, FinishJob
    PROVE  Dispatched # << >> /\ Dispatched' = Tail(Dispatched)
<1>0. /\ dispatch_queue \in Seq(JobRec) /\ outbox \in Seq(JobRec)
      /\ Dispatched = (Working \o dispatch_queue) \o outbox
    BY DispatchedParts
<1>1. job \in JobRec /\ job' = NoBatch /\ UNCHANGED <<dispatch_queue, outbox>>
    BY DEF FinishJob, actorVars, Shapes
<1>2. Working = <<job>> /\ Working' = << >> /\ <<job>> \in Seq(JobRec)
    BY <1>1 DEF Working, FinishJob
<1>3. Dispatched' = (<< >> \o dispatch_queue) \o outbox
    BY <1>1, <1>2 DEF Dispatched, Working
<1>4. << >> \o dispatch_queue = dispatch_queue
    BY <1>0, ConcatEmptySeq
<1>5. Dispatched = <<job>> \o (dispatch_queue \o outbox)
    BY <1>0, <1>2, ConcatAssociative
<1>6. dispatch_queue \o outbox \in Seq(JobRec)
    BY <1>0, ConcatProperties
<1> QED BY <1>1, <1>3, <1>4, <1>5, <1>6, DropFront

\* Pending flushes come from the timers that submit_tx starts alone.
NoNewFlush == \A b \in Nat : b < next_batch_id /\ FlushPending(b)' => FlushPending(b)

\* Receiving a command, with or without a new timer.
LEMMA ReceiveTimers ==
    ASSUME Shapes, TimerInv, NEW kind, Receives(kind), next_batch_id' \in Nat,
           \/ timers' = timers /\ next_batch_id <= next_batch_id'
           \/ timers' = timers \cup {next_batch_id} /\ next_batch_id' = next_batch_id + 1
    PROVE  /\ TimerInv' /\ NoNewFlush
           /\ \A b \in Nat : kind = "FlushOpen" /\ b = Head(command_queue).arg => ~FlushPending(b)'
<1> DEFINE q == command_queue
           r == command_queue'
           L == Len(command_queue)
<1>0. next_batch_id \in Nat /\ timers \subseteq Nat /\ q \in Seq(Command) /\ DOMAIN q = 1 .. L
    BY DEF Shapes, CommandsTyped
<1>1. /\ L \in Nat \ {0} /\ Head(q) = q[1] /\ q[1].kind = kind
      /\ r \in Seq(Command) /\ DOMAIN r = 1 .. L - 1
      /\ \A i \in 1 .. L - 1 : r[i] = q[i + 1]
    <2>1. command_queue # << >> /\ command_queue' = Tail(command_queue) /\ Head(q).kind = kind
        BY DEF Receives
    <2>2. Head(q) = q[1] /\ r \in Seq(Command) /\ Len(r) = L - 1 /\ L \in Nat \ {0}
          /\ \A i \in 1 .. L - 1 : r[i] = q[i + 1]
        BY <2>1, HeadCommand DEF Shapes
    <2> QED BY <2>1, <2>2
<1>2. /\ \A b \in timers : b < next_batch_id
      /\ \A i \in 1 .. L : q[i].kind = "FlushOpen" => q[i].arg < next_batch_id /\ q[i].arg \notin timers
      /\ \A i, j \in 1 .. L : q[i].kind = "FlushOpen" /\ q[j].kind = "FlushOpen" /\ q[i].arg = q[j].arg => i = j
    BY <1>0 DEF TimerInv
<1>3. \A i \in 1 .. L : q[i].arg \in Nat
    <2>1. \A i \in 1 .. L : q[i] \in Command
        BY <1>0, ElementOfSeq
    <2> QED BY <2>1 DEF Command
<1>4. \A i \in 1 .. L - 1 : i + 1 \in 1 .. L /\ i + 1 # 1
    BY <1>1
<1>5. \A b \in Nat : /\ b \in timers' => b < next_batch_id'
                     /\ b \in timers' => b \in timers \/ b = next_batch_id
    BY <1>0, <1>2
<1>6. \A b \in Nat : b < next_batch_id => b < next_batch_id'
    BY <1>0
<1>7. \A i \in 1 .. L - 1 : r[i].kind = "FlushOpen" =>
          r[i].arg < next_batch_id' /\ r[i].arg \notin timers'
    <2> TAKE i \in 1 .. L - 1
    <2> HAVE r[i].kind = "FlushOpen"
    <2>1. r[i] = q[i + 1] /\ i + 1 \in 1 .. L
        BY <1>1, <1>4
    <2>2. r[i].arg < next_batch_id /\ r[i].arg \notin timers /\ r[i].arg \in Nat
        BY <2>1, <1>2, <1>3
    <2>3. r[i].arg # next_batch_id
        BY <1>0, <2>2
    <2> QED BY <1>5, <1>6, <2>2, <2>3
<1>8. \A i, j \in 1 .. L - 1 : r[i].kind = "FlushOpen" /\ r[j].kind = "FlushOpen" /\ r[i].arg = r[j].arg => i = j
    <2> TAKE i, j \in 1 .. L - 1
    <2> HAVE r[i].kind = "FlushOpen" /\ r[j].kind = "FlushOpen" /\ r[i].arg = r[j].arg
    <2>1. i + 1 = j + 1
        BY <1>1, <1>2, <1>4
    <2> QED BY <1>1, <2>1
<1>9. TimerInv'
    <2>1. \A b \in timers' : b < next_batch_id'
        BY <1>0, <1>5
    <2> QED BY <1>1, <1>7, <1>8, <2>1 DEF TimerInv
<1>10. NoNewFlush
    <2> SUFFICES ASSUME NEW b \in Nat, b < next_batch_id, FlushPending(b)' PROVE FlushPending(b)
        BY DEF NoNewFlush
    <2>1. b # next_batch_id
        BY <1>0
    <2>2. b \in timers' \/ \E i \in 1 .. L - 1 : r[i].kind = "FlushOpen" /\ r[i].arg = b
        BY <1>1 DEF FlushPending
    <2>3. b \in timers \/ \E i \in 1 .. L : q[i].kind = "FlushOpen" /\ q[i].arg = b
        BY <1>1, <1>4, <1>5, <2>1, <2>2
    <2> QED BY <1>0, <2>3 DEF FlushPending
<1>11. ASSUME NEW b \in Nat, kind = "FlushOpen", b = Head(q).arg PROVE ~FlushPending(b)'
    <2>1. q[1].kind = "FlushOpen" /\ q[1].arg = b /\ 1 \in 1 .. L
        BY <1>1, <1>11
    <2>2. b \notin timers /\ b < next_batch_id
        BY <1>2, <2>1
    <2>3. b \notin timers'
        BY <1>0, <1>5, <2>2
    <2>4. \A i \in 1 .. L - 1 : ~(r[i].kind = "FlushOpen" /\ r[i].arg = b)
        BY <1>1, <1>2, <1>4, <2>1
    <2> QED BY <1>1, <2>3, <2>4 DEF FlushPending
<1> QED BY <1>9, <1>10, <1>11

\* Sending a command: of a client, or of a timer that ends with it.
LEMMA SendTimers ==
    ASSUME Shapes, TimerInv, NEW e \in Command, command_queue' = Append(command_queue, e),
           next_batch_id' = next_batch_id,
           \/ e.kind # "FlushOpen" /\ timers' = timers
           \/ e.arg \in timers /\ timers' = timers \ {e.arg}
    PROVE  TimerInv' /\ NoNewFlush
<1> DEFINE q == command_queue
           r == command_queue'
           L == Len(command_queue)
<1>0. next_batch_id \in Nat /\ timers \subseteq Nat /\ q \in Seq(Command) /\ DOMAIN q = 1 .. L
    BY DEF Shapes, CommandsTyped
<1>1. /\ L \in Nat /\ DOMAIN r = 1 .. L + 1 /\ r[L + 1] = e
      /\ \A i \in 1 .. L : r[i] = q[i]
    <2>1. r \in Seq(Command) /\ Len(r) = L + 1 /\ L \in Nat /\ r[L + 1] = e
          /\ \A i \in 1 .. L : r[i] = q[i]
        BY <1>0, AppendTo
    <2> QED BY <2>1
<1>2. /\ \A b \in timers : b < next_batch_id
      /\ \A i \in 1 .. L : q[i].kind = "FlushOpen" => q[i].arg < next_batch_id /\ q[i].arg \notin timers
      /\ \A i, j \in 1 .. L : q[i].kind = "FlushOpen" /\ q[j].kind = "FlushOpen" /\ q[i].arg = q[j].arg => i = j
    BY <1>0 DEF TimerInv
<1>3. \A i \in 1 .. L + 1 : i \in 1 .. L \/ i = L + 1
    BY <1>1
<1>4. \A i \in 1 .. L + 1 : r[i].kind = "FlushOpen" =>
          r[i].arg < next_batch_id' /\ r[i].arg \notin timers'
    BY <1>1, <1>2, <1>3
<1>5. \A i, j \in 1 .. L + 1 : r[i].kind = "FlushOpen" /\ r[j].kind = "FlushOpen" /\ r[i].arg = r[j].arg => i = j
    BY <1>1, <1>2, <1>3
<1>6. TimerInv'
    <2>1. \A b \in timers' : b < next_batch_id'
        BY <1>2
    <2> QED BY <1>1, <1>4, <1>5, <2>1 DEF TimerInv
<1>7. NoNewFlush
    <2> SUFFICES ASSUME NEW b \in Nat, FlushPending(b)' PROVE FlushPending(b)
        BY DEF NoNewFlush
    <2>1. b \in timers' \/ \E i \in 1 .. L + 1 : r[i].kind = "FlushOpen" /\ r[i].arg = b
        BY <1>1 DEF FlushPending
    <2>2. b \in timers \/ \E i \in 1 .. L : q[i].kind = "FlushOpen" /\ q[i].arg = b
        BY <1>1, <1>3, <2>1
    <2> QED BY <1>0, <2>2 DEF FlushPending
<1> QED BY <1>6, <1>7

Pending == {b \in Nat : FlushPending(b)}

\* None of the batches in new was sealed early by a stale flush.
NoneEarly(new) ==
    \A n \in 1 .. Len(new) :
        /\ new[n].batch_id < next_batch_id'
        /\ new[n].client = NoClient /\ ~IsFull(new[n].txs) /\ new[n].batch_id \in Pending' =>
              n < Len(new) /\ new[n + 1].client # NoClient

\* New batches at the end.
LEMMA ExtendKeepsFlush ==
    ASSUME Shapes, FlushInv, TimerInv', NoNewFlush, next_batch_id' \in Nat,
           next_batch_id <= next_batch_id', open_batch'.batch_id < next_batch_id',
           NEW new \in Seq(JobRec), Dispatched' = Dispatched \o new,
           NoneEarly(new)
    PROVE  FlushInv'
<1> DEFINE d == Dispatched
           e == Dispatched'
           L == Len(Dispatched)
           K == Len(new)
<1>0. next_batch_id \in Nat /\ d \in Seq(JobRec) /\ L \in Nat /\ K \in Nat /\ DOMAIN d = 1 .. L
    BY DispatchedParts DEF Shapes
<1>1. /\ e \in Seq(JobRec) /\ Len(e) = L + K /\ DOMAIN e = 1 .. L + K
      /\ \A i \in 1 .. L + K : e[i] = IF i <= L THEN d[i] ELSE new[i - L]
    <2>1. /\ e \in Seq(JobRec) /\ Len(e) = L + K
          /\ \A i \in 1 .. L + K : e[i] = IF i <= L THEN d[i] ELSE new[i - L]
        BY <1>0, ConcatProperties
    <2> QED BY <2>1, LenProperties
<1>2. \A n \in 1 .. L :
          /\ d[n].batch_id < next_batch_id /\ d[n].batch_id \in Nat
          /\ d[n].client = NoClient /\ ~IsFull(d[n].txs) /\ FlushPending(d[n].batch_id) =>
                n < L /\ d[n + 1].client # NoClient
    <2>1. \A n \in 1 .. L : d[n] \in JobRec
        BY <1>0, ElementOfSeq
    <2> QED BY <1>0, <2>1 DEF FlushInv, IdsInv, FlushSealsItsBatch, JobRec
<1>3. ASSUME NEW n \in 1 .. L + K
      PROVE  /\ e[n].batch_id < next_batch_id'
             /\ \A b \in Nat :
                   /\ b = e[n].batch_id /\ e[n].client = NoClient /\ ~IsFull(e[n].txs)
                   /\ FlushPending(b)'
                   => n < L + K /\ e[n + 1].client # NoClient
    <2>1. CASE n <= L
        <3>1. n \in 1 .. L /\ e[n] = d[n]
            BY <1>0, <1>1, <2>1
        <3>2. d[n].batch_id < next_batch_id'
            BY <1>0, <1>2, <3>1
        <3> SUFFICES ASSUME NEW b \in Nat, b = d[n].batch_id, d[n].client = NoClient,
                            ~IsFull(d[n].txs), FlushPending(b)'
                     PROVE  n < L + K /\ e[n + 1].client # NoClient
            BY <3>1, <3>2
        <3>5. FlushPending(b)
            BY <1>2, <3>1 DEF NoNewFlush
        <3>6. FlushPending(d[n].batch_id)
            BY <3>5 DEF FlushPending
        <3>7. n < L /\ d[n + 1].client # NoClient
            BY <1>2, <3>1, <3>6
        <3>8. n + 1 \in 1 .. L + K /\ n + 1 <= L /\ n < L + K
            BY <1>0, <3>7
        <3> QED BY <1>1, <3>7, <3>8
    <2>2. CASE ~(n <= L)
        <3>1. PICK m \in 1 .. K : m = n - L
            BY <1>0, <2>2
        <3>2. e[n] = new[m]
            BY <1>1, <2>2, <3>1
        <3>3. m < K => e[n + 1] = new[m + 1] /\ n < L + K
            <4>1. m < K => n + 1 \in 1 .. L + K /\ ~(n + 1 <= L) /\ (n + 1) - L = m + 1 /\ n < L + K
                BY <1>0, <2>2, <3>1
            <4> QED BY <1>1, <4>1
        <3>4. \A b \in Nat : b = new[m].batch_id /\ FlushPending(b)' => new[m].batch_id \in Pending'
            BY DEF Pending, FlushPending
        <3> QED BY <3>1, <3>2, <3>3, <3>4 DEF NoneEarly
    <2> QED BY <2>1, <2>2
<1>4. IdsInv'
    BY <1>1, <1>3 DEF IdsInv
<1>5. FlushSealsItsBatch'
    <2>1. \A n \in 1 .. L + K : e[n].batch_id \in Nat
        <3>1. \A n \in 1 .. L + K : e[n] \in JobRec
            BY <1>1, ElementOfSeq
        <3> QED BY <3>1 DEF JobRec
    <2> QED BY <1>1, <1>3, <2>1 DEF FlushSealsItsBatch, FlushPending, IsFull
<1> QED BY <1>4, <1>5 DEF FlushInv

\* The same, without new batches.
LEMMA StayKeepsFlush ==
    ASSUME Shapes, FlushInv, TimerInv', NoNewFlush, next_batch_id' \in Nat,
           next_batch_id <= next_batch_id', open_batch'.batch_id < next_batch_id',
           Dispatched' = Dispatched
    PROVE  FlushInv'
<1> DEFINE none == << >>
<1>1. none \in Seq(JobRec) /\ Len(none) = 0 /\ Dispatched' = Dispatched \o none
    BY DispatchedParts, ConcatEmptySeq, EmptySeq
<1> HIDE DEF none
<1>2. NoneEarly(none)
    BY <1>1 DEF NoneEarly
<1> QED BY <1>1, <1>2, ExtendKeepsFlush

\* The first batch on its way is no other's successor.
LEMMA FinishKeepsFlush ==
    ASSUME Shapes, FlushInv, FinishJob
    PROVE  FlushInv'
<1> DEFINE d == Dispatched
           e == Dispatched'
           L == Len(Dispatched)
<1>1. UNCHANGED <<command_queue, timers, next_batch_id, open_batch>>
    BY DEF FinishJob, actorVars
<1>2. d \in Seq(JobRec) /\ d # << >> /\ e = Tail(d)
    BY DispatchedParts, FinishDropsFirst
<1>3. /\ L \in Nat \ {0} /\ DOMAIN d = 1 .. L /\ DOMAIN e = 1 .. L - 1 /\ Len(e) = L - 1
      /\ \A i \in 1 .. L - 1 : e[i] = d[i + 1]
    <2>1. e \in Seq(JobRec) /\ Len(e) = L - 1 /\ L \in Nat \ {0}
          /\ \A i \in 1 .. L - 1 : e[i] = d[i + 1]
        BY <1>2, HeadTail
    <2> QED BY <1>2, <2>1, LenProperties
<1>4. TimerInv'
    BY <1>1 DEF FlushInv, TimerInv
<1>5. \A b : FlushPending(b)' => FlushPending(b)
    BY <1>1 DEF FlushPending
<1>6. \A n \in 1 .. L :
          /\ d[n].batch_id < next_batch_id
          /\ d[n].client = NoClient /\ ~IsFull(d[n].txs) /\ FlushPending(d[n].batch_id) =>
                n < L /\ d[n + 1].client # NoClient
    BY <1>3 DEF FlushInv, IdsInv, FlushSealsItsBatch
<1>7. ASSUME NEW n \in 1 .. L - 1
      PROVE  /\ e[n].batch_id < next_batch_id
             /\ e[n].client = NoClient /\ ~IsFull(e[n].txs) /\ FlushPending(e[n].batch_id) =>
                   n < L - 1 /\ e[n + 1].client # NoClient
    <2>1. n + 1 \in 1 .. L /\ e[n] = d[n + 1]
        BY <1>3
    <2>2. n + 1 < L => n < L - 1 /\ n + 1 \in 1 .. L - 1
        BY <1>3
    <2> QED BY <1>3, <1>6, <2>1, <2>2
<1>8. IdsInv'
    BY <1>1, <1>3, <1>7 DEF IdsInv, FlushInv
<1>9. FlushSealsItsBatch'
    BY <1>1, <1>3, <1>7 DEF FlushSealsItsBatch, FlushPending, IsFull
<1> QED BY <1>4, <1>8, <1>9 DEF FlushInv

\* The handlers find outbox empty, and add what they put in it.
LEMMA HandlerAppends ==
    ASSUME Shapes, Shapes', outbox = << >>, UNCHANGED <<job, dispatch_queue>>
    PROVE  Dispatched' = Dispatched \o outbox'
<1>1. /\ Working \o dispatch_queue \in Seq(JobRec)
      /\ Dispatched = (Working \o dispatch_queue) \o outbox
    BY DispatchedParts
<1>2. Dispatched = Working \o dispatch_queue
    BY <1>1, ConcatEmptySeq
<1> QED BY <1>2 DEF Dispatched, Working

\* A full batch is not early.
LEMMA SubmitTxKeepsFlush ==
    ASSUME Shapes, Shapes', FlushInv, handle_submit_tx
    PROVE  FlushInv'
<1>0. /\ next_batch_id \in Nat \ {0} /\ next_batch_id' \in Nat /\ outbox' \in Seq(JobRec)
      /\ open_batch.batch_id < next_batch_id /\ open_batch.batch_id \in Nat
      /\ Receives("SubmitTx") /\ UNCHANGED <<job, dispatch_queue>>
    BY DEF Shapes, BatchRec, FlushInv, IdsInv, handle_submit_tx, dispatchVars
<1>1. /\ outbox = << >>
      /\ next_batch_id' = IF open_batch = NoBatch THEN next_batch_id + 1 ELSE next_batch_id
      /\ timers' = IF open_batch = NoBatch THEN timers \cup {next_batch_id} ELSE timers
      /\ IsFull(Opened.txs) => open_batch' = NoBatch /\ outbox' = << Job(Opened, NoClient) >>
      /\ ~IsFull(Opened.txs) => open_batch' = Opened /\ outbox' = outbox
    BY SubmitTxEffect
<1>2. TimerInv' /\ NoNewFlush
    BY <1>0, <1>1, ReceiveTimers DEF FlushInv
<1>3. Opened.batch_id < next_batch_id' /\ Opened.batch_id \in Nat /\ next_batch_id <= next_batch_id'
    BY <1>0, <1>1 DEF Opened
<1>4. open_batch'.batch_id < next_batch_id'
    BY <1>0, <1>1, <1>3, Constants
<1>5. Dispatched' = Dispatched \o outbox'
    BY <1>0, <1>1, HandlerAppends
<1>6. PICK new \in Seq(JobRec) : new = outbox'
    BY <1>0
<1>7. \A n \in 1 .. Len(new) : n = 1 /\ IsFull(new[n].txs) /\ new[n].batch_id < next_batch_id'
    <2>1. CASE IsFull(Opened.txs)
        <3>1. new = << Job(Opened, NoClient) >>
            BY <1>1, <1>6, <2>1
        <3>2. Len(new) = 1 /\ new[1] = Job(Opened, NoClient)
            BY <3>1
        <3>3. new[1].txs = Opened.txs /\ new[1].batch_id = Opened.batch_id
            BY <3>2 DEF Job
        <3> QED BY <1>3, <2>1, <3>2, <3>3
    <2>2. CASE ~IsFull(Opened.txs)
        BY <1>1, <1>6, <2>2
    <2> QED BY <2>1, <2>2
<1>8. NoneEarly(new)
    BY <1>7 DEF NoneEarly
<1> QED BY <1>0, <1>2, <1>3, <1>4, <1>5, <1>6, <1>8, ExtendKeepsFlush

\* The open batch is sealed in front of the new one.
LEMMA SubmitBatchKeepsFlush ==
    ASSUME Shapes, Shapes', FlushInv, handle_submit_batch
    PROVE  FlushInv'
<1>0. /\ next_batch_id \in Nat \ {0} /\ next_batch_id' \in Nat /\ outbox' \in Seq(JobRec)
      /\ open_batch.batch_id < next_batch_id /\ open_batch.batch_id \in Nat
      /\ Receives("SubmitBatch") /\ UNCHANGED <<timers, job, dispatch_queue>>
    BY DEF Shapes, BatchRec, FlushInv, IdsInv, handle_submit_batch, dispatchVars
<1>1. outbox = << >>
    BY SubmitBatchEffect
<1>2. Dispatched' = Dispatched \o outbox'
    BY <1>0, <1>1, HandlerAppends
<1>3. PICK new \in Seq(JobRec) : new = outbox'
    BY <1>0
<1>4. CASE Head(command_queue).arg > max_batch_size
    <2>1. UNCHANGED <<next_batch_id, open_batch, outbox>>
        BY <1>4, SubmitBatchEffect DEF actorVars
    <2>2. TimerInv' /\ NoNewFlush
        BY <1>0, <2>1, ReceiveTimers DEF FlushInv
    <2>3. NoneEarly(new)
        BY <1>1, <1>3, <2>1 DEF NoneEarly
    <2> QED BY <1>0, <1>2, <1>3, <2>1, <2>2, <2>3, ExtendKeepsFlush
<1>5. CASE ~(Head(command_queue).arg > max_batch_size)
    <2>1. /\ outbox' = SealedFirst(open_batch, NewJob) /\ open_batch' = NoBatch
          /\ next_batch_id' = next_batch_id + 1
        BY <1>5, SubmitBatchEffect
    <2>2. TimerInv' /\ NoNewFlush
        BY <1>0, <2>1, ReceiveTimers DEF FlushInv
    <2>3. NewJob.client \in Clients /\ NewJob.batch_id = next_batch_id
        BY <1>0, NewJobShape
    <2>4. open_batch'.batch_id < next_batch_id' /\ next_batch_id <= next_batch_id'
        BY <1>0, <2>1, Constants
    <2>5. /\ open_batch = NoBatch => Len(new) = 1 /\ new[1] = NewJob
          /\ open_batch # NoBatch => /\ Len(new) = 2 /\ new[2] = NewJob
                                     /\ new[1].batch_id = open_batch.batch_id
        BY <1>0, <1>3, <2>1, SubmitBatchOutbox
    <2>6. \A n \in 1 .. Len(new) :
              /\ new[n].batch_id < next_batch_id'
              /\ new[n].client = NoClient => n < Len(new) /\ new[n + 1].client # NoClient
        <3>1. CASE open_batch = NoBatch
            <4>0. Len(new) = 1 /\ new[1] = NewJob
                BY <2>5, <3>1
            <4>1. \A n \in 1 .. Len(new) : new[n] = NewJob
                <5>1. \A n \in 1 .. 1 : n = 1
                    OBVIOUS
                <5> QED BY <4>0, <5>1
            <4> QED BY <1>0, <2>1, <2>3, <4>1, Constants
        <3>2. CASE open_batch # NoBatch
            <4>0. Len(new) = 2
                BY <2>5, <3>2
            <4>1. \A n \in 1 .. Len(new) : (n = 1 /\ n < Len(new) /\ n + 1 = 2) \/ n = 2
                <5>1. \A n \in 1 .. 2 : (n = 1 /\ n < 2 /\ n + 1 = 2) \/ n = 2
                    OBVIOUS
                <5> QED BY <4>0, <5>1
            <4>2. new[1].batch_id < next_batch_id' /\ new[2].batch_id < next_batch_id'
                  /\ new[2].client # NoClient
                BY <1>0, <2>1, <2>3, <2>5, <3>2, Constants
            <4> QED BY <4>1, <4>2
        <3> QED BY <3>1, <3>2
    <2>7. NoneEarly(new)
        BY <2>6 DEF NoneEarly
    <2> QED BY <1>0, <1>2, <1>3, <2>2, <2>4, <2>7, ExtendKeepsFlush
<1> QED BY <1>4, <1>5

\* A flush seals its own batch, and is then no longer pending.
LEMMA FlushKeepsFlush ==
    ASSUME Shapes, Shapes', FlushInv, handle_flush_open
    PROVE  FlushInv'
<1>0. /\ next_batch_id \in Nat \ {0} /\ next_batch_id' = next_batch_id /\ outbox' \in Seq(JobRec)
      /\ open_batch \in BatchRec /\ (open_batch = NoBatch \/ open_batch.batch_id # 0)
      /\ open_batch.batch_id < next_batch_id /\ open_batch.batch_id \in Nat
      /\ Receives("FlushOpen") /\ outbox = << >> /\ UNCHANGED <<timers, job, dispatch_queue>>
    BY DEF Shapes, BatchRec, FlushInv, IdsInv, handle_flush_open, dispatchVars, Receives
<1>1. /\ TimerInv' /\ NoNewFlush
      /\ \A b \in Nat : b = Head(command_queue).arg => ~FlushPending(b)'
    BY <1>0, ReceiveTimers DEF FlushInv
<1>2. Dispatched' = Dispatched \o outbox'
    BY <1>0, HandlerAppends
<1>3. PICK new \in Seq(JobRec) : new = outbox'
    BY <1>0
<1>4. CASE FlushApplies(Head(command_queue).arg)
    <2>1. /\ open_batch # NoBatch /\ open_batch.batch_id = Head(command_queue).arg
          /\ new = Sealed(open_batch) /\ open_batch' = NoBatch
        BY <1>3, <1>4 DEF handle_flush_open, FlushApplies
    <2>2. Len(new) = 1 /\ new[1].batch_id = open_batch.batch_id
        BY <1>0, <2>1, SealedShape
    <2>3. PICK b \in Nat : b = open_batch.batch_id
        BY <1>0
    <2>4. ~FlushPending(b)' /\ new[1].batch_id = b /\ b < next_batch_id'
        BY <1>0, <1>1, <2>1, <2>2, <2>3
    <2>5. \A n \in 1 .. Len(new) : new[n].batch_id = b
        BY <2>2, <2>4
    <2>6. \A n \in 1 .. Len(new) :
             new[n].batch_id < next_batch_id' /\ new[n].batch_id \notin Pending'
        BY <2>4, <2>5 DEF Pending, FlushPending
    <2>7. open_batch'.batch_id < next_batch_id'
        BY <1>0, <2>1, Constants
    <2>8. next_batch_id' \in Nat /\ next_batch_id <= next_batch_id'
          /\ Dispatched' = Dispatched \o new
        BY <1>0, <1>2, <1>3
    <2>9. NoneEarly(new)
        BY <2>6 DEF NoneEarly
    <2> QED BY <1>1, <2>7, <2>8, <2>9, ExtendKeepsFlush
<1>5. CASE ~FlushApplies(Head(command_queue).arg)
    <2>1. UNCHANGED <<outbox, open_batch>>
        BY <1>5 DEF handle_flush_open
    <2>2. NoneEarly(new)
        BY <1>0, <1>3, <2>1 DEF NoneEarly
    <2>3. /\ open_batch'.batch_id < next_batch_id' /\ next_batch_id' \in Nat
          /\ next_batch_id <= next_batch_id' /\ Dispatched' = Dispatched \o new
        BY <1>0, <1>2, <1>3, <2>1
    <2> QED BY <1>1, <2>2, <2>3, ExtendKeepsFlush
<1> QED BY <1>4, <1>5

\* Nothing is open, queued or pending at the start.
LEMMA FlushInitially == Init => FlushInv
<1> SUFFICES ASSUME Init PROVE FlushInv
    OBVIOUS
<1>1. /\ timers = {} /\ command_queue = << >> /\ open_batch.batch_id = 0 /\ next_batch_id = 1
      /\ job = NoBatch /\ dispatch_queue = << >> /\ outbox = << >>
    BY Constants DEF Init
<1>2. Dispatched = << >>
    BY <1>1 DEF Dispatched
<1> QED BY <1>1, <1>2 DEF FlushInv, TimerInv, IdsInv, FlushSealsItsBatch

\* Every step keeps the account of flushes.
LEMMA FlushStep ==
    ASSUME Shapes, Shapes', FlushInv, [Next]_vars
    PROVE  FlushInv'
<1>0. /\ next_batch_id \in Nat /\ TimerInv /\ open_batch.batch_id < next_batch_id
      /\ timers \subseteq Nat
    BY DEF Shapes, FlushInv, IdsInv
<1>a. ASSUME UNCHANGED <<command_queue, timers, next_batch_id, open_batch>>, Dispatched' = Dispatched
      PROVE  FlushInv'
    <2>1. TimerInv' /\ NoNewFlush
        BY <1>0, <1>a DEF TimerInv, NoNewFlush, FlushPending
    <2> QED BY <1>0, <1>a, <2>1, StayKeepsFlush
<1>b. ASSUME UNCHANGED <<next_batch_id, open_batch, outbox, dispatch_queue, job>>, TimerInv', NoNewFlush
      PROVE  FlushInv'
    <2>1. Dispatched' = Dispatched
        BY <1>b DEF Dispatched
    <2> QED BY <1>0, <1>b, <2>1, StayKeepsFlush
<1>1. ASSUME NEW c \in Clients, Submit(c) PROVE FlushInv'
    <2>1. PICK r \in Requests :
             command_queue' = Append(command_queue, [kind |-> r.kind, arg |-> r.size, from |-> c])
        BY <1>1 DEF Submit
    <2> DEFINE e == [kind |-> r.kind, arg |-> r.size, from |-> c]
    <2>2. e \in Command /\ e.kind # "FlushOpen"
        BY Constants DEF Command, Sender
    <2> HIDE DEF e
    <2>3. command_queue' = Append(command_queue, e)
        BY <2>1 DEF e
    <2>4. UNCHANGED <<timers, next_batch_id, open_batch, outbox, dispatch_queue, job>>
        BY <1>1 DEF Submit, actorVars, dispatchVars
    <2> QED BY <1>0, <1>b, <2>2, <2>3, <2>4, SendTimers
<1>2. ASSUME NEW b \in timers, FlushTimer(b) PROVE FlushInv'
    <2> DEFINE e == [kind |-> "FlushOpen", arg |-> b, from |-> NoClient]
    <2>1. e \in Command /\ e.arg = b
        BY <1>0 DEF Command, Sender
    <2>2. /\ command_queue' = Append(command_queue, e) /\ timers' = timers \ {b}
          /\ UNCHANGED <<next_batch_id, open_batch, outbox, dispatch_queue, job>>
        BY <1>2 DEF FlushTimer, actorVars, dispatchVars
    <2> HIDE DEF e
    <2> QED BY <1>0, <1>b, <2>1, <2>2, SendTimers
<1>3. ASSUME dispatch_batch \/ TakeJob PROVE FlushInv'
    <2>1. UNCHANGED <<command_queue, timers, next_batch_id, open_batch>>
        BY <1>3 DEF dispatch_batch, TakeJob, actorVars
    <2> QED BY <1>3, <1>a, <2>1, MovesKeepDispatched
<1>4. ASSUME NEW s \in Shards, Shard(s) \/ FailCall(s) PROVE FlushInv'
    <2>1. UNCHANGED <<command_queue, timers, next_batch_id, open_batch, outbox, dispatch_queue, job>>
        BY <1>4 DEF Shard, Deliver, ExecuteBatch, FailCall, actorVars, dispatchVars
    <2> QED BY <1>a, <2>1 DEF Dispatched
<1>5. ASSUME UNCHANGED vars PROVE FlushInv'
    BY <1>a, <1>5 DEF vars, actorVars, dispatchVars, Dispatched
<1> QED BY <1>1, <1>2, <1>3, <1>4, <1>5, FinishKeepsFlush, SubmitTxKeepsFlush,
           SubmitBatchKeepsFlush, FlushKeepsFlush DEF Next, Actor, Dispatcher, Timers

\* The late flush timer of a batch never seals the batch that is open by then: a
\* batch of submitted transactions that goes out below its size, before its own
\* flush came, goes out in front of a SubmitBatch (handle_flush_open).
THEOREM FlushSealsItsBatchAlways == Spec => []FlushSealsItsBatch
<1> DEFINE I == Shapes /\ FlushInv
<1>1. Init => I
    BY ShapesInitially, FlushInitially
<1>2. I /\ [Next]_vars => I'
    BY ShapesStep, FlushStep
<1>3. I => FlushSealsItsBatch
    BY DEF FlushInv
<1> QED BY <1>1, <1>2, <1>3, PTL DEF Spec

-----------------------------------------------------------------------------
(* Type correctness *)

\* The channels are empty at the start.
LEMMA BoundsInitially == Init => BoundsInv
<1> SUFFICES ASSUME Init PROVE BoundsInv
    OBVIOUS
<1>1. /\ Len(command_queue) = 0 /\ Len(dispatch_queue) = 0 /\ timers = {}
      /\ \A c \in Clients : client[c].txs = << >>
    BY DEF Init
<1>2. CommandCapacity \in Nat /\ QueueCapacity \in Nat
    BY SequencerAssumption
<1>3. \A c \in Clients : client[c].txs \in Seq(1 .. next_tx_id - 1)
    BY <1>1, EmptySeq
<1> QED BY <1>1, <1>2, <1>3 DEF BoundsInv

\* The channels have bounds, and the identifiers grow.
LEMMA BoundsStep ==
    ASSUME Shapes, Shapes', BoundsInv, [Next]_vars
    PROVE  BoundsInv'
<1>0. /\ client \in [Clients -> [status : Status, txs : Seq(Nat)]] /\ owed \in Sender
      /\ next_batch_id \in Nat \ {0} /\ next_tx_id \in Nat \ {0}
      /\ next_batch_id' \in Nat \ {0} /\ next_tx_id' \in Nat \ {0}
      /\ dispatch_queue \in Seq(JobRec) /\ outbox \in Seq(JobRec) /\ command_queue \in Seq(Command)
      /\ CommandCapacity \in Nat /\ QueueCapacity \in Nat
      /\ Len(command_queue) \in Nat /\ Len(dispatch_queue) \in Nat
      /\ (job = NoBatch \/ job \in JobRec)
    BY SequencerAssumption DEF Shapes, CommandsTyped
<1>1. /\ Len(command_queue) <= CommandCapacity /\ Len(dispatch_queue) <= QueueCapacity
      /\ timers \subseteq BatchId /\ \A c \in Clients : client[c].txs \in Seq(1 .. next_tx_id - 1)
    BY DEF BoundsInv
<1>2. Len(command_queue') <= CommandCapacity
    <2>1. ASSUME NEW e \in Command, command_queue' = Append(command_queue, e),
                 HasRoom(command_queue, CommandCapacity)
          PROVE  Len(command_queue') <= CommandCapacity
        <3>1. Len(command_queue') = Len(command_queue) + 1
            BY <1>0, <2>1, AppendTo
        <3> QED BY <1>0, <2>1, <3>1 DEF HasRoom
    <2>2. ASSUME NEW c \in Clients, Submit(c) PROVE Len(command_queue') <= CommandCapacity
        <3>1. PICK r \in Requests :
                 command_queue' = Append(command_queue, [kind |-> r.kind, arg |-> r.size, from |-> c])
            BY <2>2 DEF Submit
        <3>2. [kind |-> r.kind, arg |-> r.size, from |-> c] \in Command
            BY Constants DEF Command, Sender
        <3> QED BY <2>1, <2>2, <3>1, <3>2 DEF Submit
    <2>3. ASSUME NEW b \in timers, FlushTimer(b) PROVE Len(command_queue') <= CommandCapacity
        <3>1. [kind |-> "FlushOpen", arg |-> b, from |-> NoClient] \in Command
            BY DEF Command, Sender, Shapes
        <3> QED BY <2>1, <2>3, <3>1 DEF FlushTimer
    <2>4. ASSUME NEW kind, Receives(kind) PROVE Len(command_queue') <= CommandCapacity
        <3>1. Len(command_queue') = Len(command_queue) - 1
            BY <1>0, <2>4, HeadTail DEF Receives
        <3> QED BY <1>0, <1>1, <3>1
    <2>5. ASSUME command_queue' = command_queue PROVE Len(command_queue') <= CommandCapacity
        BY <1>1, <2>5
    <2>6. ASSUME NEW s \in Shards, Shard(s) \/ FailCall(s) PROVE command_queue' = command_queue
        BY <2>6 DEF Shard, Deliver, ExecuteBatch, FailCall
    <2>7. ASSUME dispatch_batch \/ TakeJob \/ FinishJob \/ UNCHANGED vars
          PROVE  command_queue' = command_queue
        BY <2>7 DEF dispatch_batch, TakeJob, FinishJob, vars
    <2>8. handle_submit_tx \/ handle_submit_batch \/ handle_flush_open => \E kind : Receives(kind)
        BY DEF handle_submit_tx, handle_submit_batch, handle_flush_open
    <2> QED BY <2>2, <2>3, <2>4, <2>5, <2>6, <2>7, <2>8 DEF Next, Actor, Dispatcher, Timers
<1>3. Len(dispatch_queue') <= QueueCapacity
    <2>1. ASSUME dispatch_batch PROVE Len(dispatch_queue') <= QueueCapacity
        <3>1. Head(outbox) \in JobRec
            BY <1>0, <2>1, HeadTail DEF dispatch_batch
        <3>2. Len(dispatch_queue') = Len(dispatch_queue) + 1
            BY <1>0, <2>1, <3>1, AppendTo DEF dispatch_batch
        <3> QED BY <1>0, <2>1, <3>2 DEF dispatch_batch, HasRoom
    <2>2. ASSUME TakeJob PROVE Len(dispatch_queue') <= QueueCapacity
        <3>1. Len(dispatch_queue') = Len(dispatch_queue) - 1
            BY <1>0, <2>2, HeadTail DEF TakeJob
        <3> QED BY <1>0, <1>1, <3>1
    <2>3. ASSUME NEW c \in Clients, Submit(c) PROVE dispatch_queue' = dispatch_queue
        BY <2>3 DEF Submit
    <2>4. ASSUME NEW b \in timers, FlushTimer(b) PROVE dispatch_queue' = dispatch_queue
        BY <2>4 DEF FlushTimer
    <2>5. ASSUME NEW s \in Shards, Shard(s) \/ FailCall(s) PROVE dispatch_queue' = dispatch_queue
        BY <2>5 DEF Shard, Deliver, ExecuteBatch, FailCall
    <2>6. ASSUME \/ handle_submit_tx \/ handle_submit_batch \/ handle_flush_open \/ FinishJob
                 \/ UNCHANGED vars
          PROVE  dispatch_queue' = dispatch_queue
        BY <2>6 DEF handle_submit_tx, handle_submit_batch, handle_flush_open, FinishJob, vars
    <2> QED BY <1>1, <2>1, <2>2, <2>3, <2>4, <2>5, <2>6 DEF Next, Actor, Dispatcher, Timers
<1>a. ASSUME next_batch_id' = next_batch_id \/ next_batch_id' = next_batch_id + 1
      PROVE  BatchId \subseteq BatchId'
    <2>1. \A k, l \in Nat : l = k \/ l = k + 1 => 0 .. k - 1 \subseteq 0 .. l - 1
        OBVIOUS
    <2> QED BY <1>0, <1>a, <2>1 DEF BatchId
<1>b. ASSUME NEW k \in Nat, next_tx_id' = next_tx_id + k, NEW t, t \in Seq(1 .. next_tx_id - 1)
      PROVE  t \in Seq(1 .. next_tx_id' - 1)
    <2>1. 1 .. next_tx_id - 1 \subseteq 1 .. next_tx_id' - 1
        <3>1. \A x \in Nat : 1 .. x - 1 \subseteq 1 .. (x + k) - 1
            OBVIOUS
        <3> QED BY <1>0, <1>b, <3>1
    <2> DEFINE S == 1 .. next_tx_id - 1
               T == 1 .. next_tx_id' - 1
    <2>2. t \in Seq(S) /\ S \subseteq T
        BY <1>b, <2>1
    <2> HIDE DEF S, T
    <2>3. t \in Seq(T)
        BY <2>2, SeqMonotonic
    <2> QED BY <2>3 DEF T
<1>c. ASSUME UNCHANGED <<next_batch_id, next_tx_id>>, timers' \subseteq timers,
             \A c \in Clients : client'[c].txs = client[c].txs
      PROVE  timers' \subseteq BatchId' /\ \A c \in Clients : client'[c].txs \in Seq(1 .. next_tx_id' - 1)
    BY <1>1, <1>c DEF BatchId
<1> DEFINE Goal == /\ timers' \subseteq BatchId'
                   /\ \A c \in Clients : client'[c].txs \in Seq(1 .. next_tx_id' - 1)
<1>4. ASSUME NEW c \in Clients, Submit(c) PROVE Goal
    <2>1. UNCHANGED <<next_batch_id, next_tx_id, timers>>
          /\ client' = [client EXCEPT ![c].status = "waiting"]
        BY <1>4 DEF Submit, actorVars
    <2>2. \A d \in Clients : client'[d].txs = client[d].txs
        BY <1>0, <2>1
    <2> QED BY <1>c, <2>1, <2>2
<1>5. ASSUME NEW b \in timers, FlushTimer(b) PROVE Goal
    BY <1>5, <1>c DEF FlushTimer, actorVars
<1>6. ASSUME handle_submit_tx PROVE Goal
    <2> DEFINE c == Head(command_queue).from
    <2>1. /\ c \in Clients /\ next_tx_id' = next_tx_id + 1
          /\ next_batch_id' = IF open_batch = NoBatch THEN next_batch_id + 1 ELSE next_batch_id
          /\ timers' = IF open_batch = NoBatch THEN timers \cup {next_batch_id} ELSE timers
          /\ \/ client' = [client EXCEPT ![c].txs = <<next_tx_id>>]
             \/ client' = [client EXCEPT ![c] = [status |-> "acked", txs |-> <<next_tx_id>>]]
        BY <1>6, SubmitTxEffect
    <2> HIDE DEF c
    <2>2. BatchId \subseteq BatchId' /\ (open_batch = NoBatch => next_batch_id \in BatchId')
        BY <1>0, <1>a, <2>1 DEF BatchId
    <2>3. client'[c].txs = <<next_tx_id>> /\ \A d \in Clients : d # c => client'[d].txs = client[d].txs
        BY <1>0, <2>1
    <2>4. <<next_tx_id>> \in Seq(1 .. next_tx_id' - 1)
        <3>1. next_tx_id \in 1 .. next_tx_id' - 1
            BY <1>0, <2>1
        <3> QED BY <3>1
    <2>5. \A d \in Clients : client[d].txs \in Seq(1 .. next_tx_id' - 1)
        BY <1>1, <1>b, <2>1
    <2> QED BY <1>1, <2>1, <2>2, <2>3, <2>4, <2>5
<1>7. ASSUME handle_submit_batch PROVE Goal
    <2> DEFINE c == Head(command_queue).from
    <2>1. c \in Clients /\ Head(command_queue).arg \in Nat /\ timers' = timers
          /\ NewIds \in Seq(Nat) /\ Len(NewIds) = Head(command_queue).arg
          /\ \A k \in 1 .. Len(NewIds) : NewIds[k] = next_tx_id + k - 1
        BY <1>7, NewJobShape DEF handle_submit_batch
    <2>2. CASE Head(command_queue).arg > max_batch_size
        <3>1. UNCHANGED <<next_batch_id, next_tx_id>> /\ client' = [client EXCEPT ![c].status = "err"]
            BY <1>7, <2>2, SubmitBatchEffect DEF actorVars
        <3> HIDE DEF c
        <3>2. \A d \in Clients : client'[d].txs = client[d].txs
            BY <1>0, <2>1, <3>1
        <3> QED BY <1>c, <2>1, <3>1, <3>2
    <2>3. CASE ~(Head(command_queue).arg > max_batch_size)
        <3>1. /\ next_batch_id' = next_batch_id + 1
              /\ next_tx_id' = next_tx_id + Head(command_queue).arg
              /\ client' = [client EXCEPT ![c].txs = NewIds]
            BY <1>7, <2>3, SubmitBatchEffect
        <3> HIDE DEF c
        <3>2. client'[c].txs = NewIds /\ \A d \in Clients : d # c => client'[d].txs = client[d].txs
            BY <1>0, <2>1, <3>1
        <3>3. \A k \in 1 .. Len(NewIds) : NewIds[k] \in 1 .. next_tx_id' - 1
            <4>1. \A x \in Nat \ {0}, l \in Nat : \A k \in 1 .. l : x + k - 1 \in 1 .. (x + l) - 1
                OBVIOUS
            <4>2. next_tx_id' = next_tx_id + Len(NewIds) /\ Len(NewIds) \in Nat
                BY <2>1, <3>1
            <4>3. \A k \in 1 .. Len(NewIds) : next_tx_id + k - 1 \in 1 .. (next_tx_id + Len(NewIds)) - 1
                BY <1>0, <4>1, <4>2
            <4> QED BY <2>1, <4>2, <4>3
        <3>4. NewIds \in Seq(1 .. next_tx_id' - 1)
            <4>1. NewIds \in [1 .. Len(NewIds) -> 1 .. next_tx_id' - 1] /\ Len(NewIds) \in Nat
                BY <2>1, <3>3, LenProperties
            <4> QED BY <4>1, SeqDef
        <3>5. \A d \in Clients : client[d].txs \in Seq(1 .. next_tx_id' - 1)
            BY <1>1, <1>b, <2>1, <3>1
        <3>6. timers' \subseteq BatchId'
            BY <1>1, <1>a, <2>1, <3>1
        <3> QED BY <3>2, <3>4, <3>5, <3>6
    <2> QED BY <2>2, <2>3
<1>8. ASSUME handle_flush_open PROVE Goal
    BY <1>8, <1>c DEF handle_flush_open
<1>9. ASSUME dispatch_batch PROVE Goal
    <2>1. UNCHANGED <<next_batch_id, next_tx_id, timers>>
          /\ (client' = client \/ client' = [client EXCEPT ![owed].status = "acked"])
        BY <1>9 DEF dispatch_batch
    <2>2. \A d \in Clients : client'[d].txs = client[d].txs
        <3>1. CASE client' = client
            BY <3>1
        <3>2. CASE client' = [client EXCEPT ![owed].status = "acked"]
            BY <1>0, <3>2
        <3> QED BY <2>1, <3>1, <3>2
    <2> QED BY <1>c, <2>1, <2>2
<1>10. ASSUME TakeJob PROVE Goal
    BY <1>10, <1>c DEF TakeJob, actorVars
<1>11. ASSUME FinishJob PROVE Goal
    <2>1. UNCHANGED <<next_batch_id, next_tx_id, timers>>
          /\ (client' = client \/ client' = [client EXCEPT ![job.client].status = Reply(AllOk)])
        BY <1>11 DEF FinishJob, actorVars
    <2>2. \A d \in Clients : client'[d].txs = client[d].txs
        <3>1. CASE client' = client
            BY <3>1
        <3>2. CASE client' = [client EXCEPT ![job.client].status = Reply(AllOk)]
            BY <1>0, <3>2
        <3> QED BY <2>1, <3>1, <3>2
    <2> QED BY <1>c, <2>1, <2>2
<1>12. ASSUME NEW s \in Shards, Shard(s) \/ FailCall(s) PROVE Goal
    BY <1>12, <1>c DEF Shard, Deliver, ExecuteBatch, FailCall, actorVars
<1>13. ASSUME UNCHANGED vars PROVE Goal
    BY <1>13, <1>c DEF vars, actorVars
<1> HIDE DEF Goal
<1>14. Goal
    BY <1>4, <1>5, <1>6, <1>7, <1>8, <1>9, <1>10, <1>11, <1>12, <1>13
       DEF Next, Actor, Dispatcher, Timers
<1> QED BY <1>2, <1>3, <1>14 DEF Goal, BoundsInv

\* The invariants imply the type invariant.
LEMMA TypeFollows ==
    ASSUME Shapes, PipelineInv, ShardInv, BoundsInv
    PROVE  TypeOK
<1>1. /\ next_batch_id = Live + 1 /\ Taken \in Nat /\ Taken <= Live /\ Live \in Nat
      /\ next_batch_id \in Nat \ {0} /\ next_tx_id \in Nat \ {0}
    BY CountsAreNat, LiveIsNat DEF PipelineInv, Shapes, Live
<1>2. 1 .. Taken \subseteq BatchId
    BY <1>1 DEF BatchId
<1>3. open_batch.batch_id \in BatchId
    <2>1. CASE open_batch = NoBatch
        BY <1>1, <2>1, Constants DEF BatchId
    <2>2. CASE open_batch # NoBatch
        <3>1. Closed \in Nat /\ Live = Closed + 1
            BY <2>2, CountsAreNat DEF Live
        <3>2. At(Live) = open_batch
            BY <1>1, <3>1, WhereaboutsHold DEF Whereabouts
        <3>3. Live \in AllBatches
            BY <1>1, <3>1 DEF AllBatches
        <3>4. open_batch.batch_id = Live
            BY <3>2, <3>3 DEF PipelineInv
        <3> QED BY <1>1, <3>4 DEF BatchId
    <2> QED BY <2>1, <2>2
<1>4. transit \in [Shards -> SUBSET BatchId]
    BY <1>2 DEF ShardInv, ShardTypes, OnceOnly, Once
<1>5. \A s \in Shards : inbox[s] \in Seq(BatchId) /\ executed[s] \in Seq(BatchId)
    BY <1>2, SeqMonotonic DEF ShardInv, OnceOnly, Once
<1>6. inbox \in [Shards -> Seq(BatchId)] /\ executed \in [Shards -> Seq(BatchId)]
    BY <1>5 DEF ShardInv, ShardTypes
<1>7. client \in [Clients -> [status : Status, txs : Seq(1 .. next_tx_id - 1)]]
    BY DEF Shapes, BoundsInv
<1>8. answer \in [Shards -> {"none", "ok", "err"}] /\ failures \in 0 .. MaxFailures
    BY DEF ShardInv, ShardTypes
<1>9. /\ Len(command_queue) <= CommandCapacity /\ Len(dispatch_queue) <= QueueCapacity
      /\ timers \subseteq BatchId /\ owed \in Clients \cup {NoClient}
    BY DEF Shapes, BoundsInv, Sender
<1> QED BY <1>1, <1>3, <1>4, <1>6, <1>7, <1>8, <1>9 DEF TypeOK, Status

\* The state of the sequencer is well formed: the channels stay within their
\* capacities, and no timer, reply, call or shard names a batch or a transaction
\* that has not been numbered.
THEOREM TypeCorrect == Spec => []TypeOK
<1> DEFINE I == Shapes /\ BoundsInv
<1>1. Init => I
    BY ShapesInitially, BoundsInitially
<1>2. I /\ [Next]_vars => I'
    BY ShapesStep, BoundsStep
<1>3. I /\ Shapes /\ PipelineInv /\ ShardInv => TypeOK
    BY TypeFollows
<1> QED BY <1>1, <1>2, <1>3, ShardInvAlways, PTL DEF Spec
=============================================================================
