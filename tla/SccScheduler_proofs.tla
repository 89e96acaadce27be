------------------------ MODULE SccScheduler_proofs -------------------------
(***************************************************************************)
(* The speculative phase of the SCC scheduler, for every number of shards, *)
(* every batch and every number of RPC failures, with the fallback phase   *)
(* running on the shards that have installed: the participants of a        *)
(* transaction agree on whether its speculation succeeded, a failure       *)
(* reaches everything that depends on it, what has been published is       *)
(* final, the deltas apply, and installing them comes to executing the     *)
(* transactions that did not fail, one after the other; and what both      *)
(* phases leave, and tell the clients, is the reference execution.         *)
(*                                                                         *)
(* The speculation: a worker either sends its reads to all participants or *)
(* the failed status, never both.  One that commits has heard the reads of *)
(* all of them, so nobody sent a failed status to anyone; and they all     *)
(* execute on one and the same reads, those of the owners.                 *)
(*                                                                         *)
(* The fallback: it is a batch of LockingBatch whose members are guessed   *)
(* in advance, since no state before the end shows all of them.  What is   *)
(* proved of LockingBatch is used through that instance.                   *)
(***************************************************************************)
EXTENDS SccScheduler, Namespace_proofs

-----------------------------------------------------------------------------
(* The inductive invariant *)

WorkerStates == {"none", "ready", "send_reads", "send_status", "collect", "ok", "err"}

\* f[s][i] is defined for all shards and transactions, and for nothing else.
Grid(f, T) == DOMAIN f = Shards /\ \A s \in Shards : DOMAIN f[s] = T

IsMap(f) == f = [k \in DOMAIN f |-> f[k]]

SpecType ==
    /\ batch \in Batches
    /\ status \in [Shards -> {"idle", "speculating", "waiting", "running", "done", "failed"}]
    /\ worker \in [Shards -> [Txs -> WorkerStates]]
    /\ targets \in [Shards -> [Txs -> SUBSET Shards]]
    /\ heard \in [Shards -> [Txs -> SUBSET Shards]]
    /\ Grid(slot, Txs) /\ Grid(effect_reads, Txs) /\ Grid(effect_mail, Txs)

\* The worker has got past materialized_local_read, and with reads.
HasRead(s, i) == DOMAIN effect_reads[s][i] # {}

\* The worker has got past it without reads: it sends, or has sent, the failed
\* status, or has given up.
NeverReads(s, i) == worker[s][i] \notin {"none", "ready"} /\ ~HasRead(s, i)

\* The commit slots that materialized_local_read of the worker looks at.
PrefixSucceeded(s, i) == \A m \in 1 .. MaxPred(i) : Succeeded(s, m)

SpecResult(s, i) == ExecuteDeterministic(batch[i].op, effect_reads[s][i])
ReadsAll(s, i)   == DOMAIN effect_reads[s][i] = ReadSet(batch[i])

\* Why a slot is committed, and why it has failed.
WhyCommitted(s, i) == /\ heard[s][i] = Others(s, i) /\ HasRead(s, i)
                      /\ ReadsAll(s, i) /\ OnPredictedPath(SpecResult(s, i))
                      /\ PrefixSucceeded(s, i)
WhyFailed(s, i) == \/ \E u \in Participants(i) : NeverReads(u, i)
                   \/ ReadsAll(s, i) /\ ~OnPredictedPath(SpecResult(s, i))

\* How far a worker is, what it knows and what its slot says.
Progress(s, i) ==
    /\ status[s] = "idle" => worker[s][i] = "none" /\ slot[s][i] = Pending
    /\ worker[s][i] # "none" => s \in Participants(i)
    /\ worker[s][i] = "none" /\ s \in Participants(i) => slot[s][i] = Pending
    /\ worker[s][i] \in {"none", "ready", "send_status"} => ~HasRead(s, i)
    /\ worker[s][i] \in {"send_reads", "collect"} => HasRead(s, i) /\ PrefixSucceeded(s, i)
    /\ worker[s][i] \in {"ready", "send_reads", "send_status", "collect", "err"} =>
          slot[s][i] = Pending
    /\ worker[s][i] = "ok" => \/ Succeeded(s, i) /\ WhyCommitted(s, i)
                              \/ slot[s][i] = Failed /\ WhyFailed(s, i)

\* Every value of f, reads for transaction i, is what the owner of its key reads
\* for that transaction.
FromOwner(i, f) == \A k \in DOMAIN f : /\ k \in Keys /\ k \in DOMAIN effect_reads[Owner[k]][i]
                                       /\ f[k] = effect_reads[Owner[k]][i][k]

\* A message says what its sender knows: its reads, or that it has none.
Truthful(i, m) ==
    /\ m.from \in Shards
    /\ m.status \in {"Ok", "SpeculationFailed"}
    /\ m.status = "Ok" => HasRead(m.from, i) /\ FromOwner(i, m.reads)
    /\ m.status = "SpeculationFailed" => NeverReads(m.from, i)

\* What a worker knows, or will take from its mailbox, comes from the owners.
Knowledge(s, i) ==
    /\ IsMap(effect_reads[s][i]) /\ FromOwner(i, effect_reads[s][i])
    /\ \A u \in heard[s][i] : HasRead(u, i)
    /\ \A m \in effect_mail[s][i] : Truthful(i, m)

SpecInv == SpecType /\ \A s \in Shards, i \in Txs : Progress(s, i) /\ Knowledge(s, i)

\* The fallback executes failed transactions, and a result has been published by
\* the speculation that committed or by the fallback.
Publication(s, i) ==
    /\ status[s] \in {"idle", "speculating", "waiting"} => pc[s][i] = "none"
    /\ pc[s][i] # "none" => slot[s][i] = Failed
    /\ results[s][i] \in TxResult =>
          /\ s = result_shard(batch[i])
          /\ \/ worker[s][i] = "ok" /\ Succeeded(s, i)
             \/ pc[s][i] = "ok"

PublishInv ==
    /\ Grid(results, Txs)
    /\ pc \in [Shards -> [Txs -> {"none", "locks", "send", "collect", "ok", "err"}]]
    /\ \A s \in Shards, i \in Txs : Publication(s, i)

-----------------------------------------------------------------------------
(* The plan *)

\* A position of the batch holds a transaction with participants among the
\* shards, each of which owns a key of its read set.
LEMMA TxFacts ==
    ASSUME batch \in Batches, NEW i \in Txs
    PROVE  /\ Txs = 1 .. Len(batch) /\ Len(batch) \in Nat
           /\ batch[i].op \in FsOp
           /\ Participants(i) \subseteq Shards
           /\ \A s \in Participants(i) : LocalReadKeys(batch[i], s) # {}
           /\ \A s : LocalReadKeys(batch[i], s) \subseteq ReadSet(batch[i])
           /\ ReadSet(batch[i]) \subseteq Keys
<1>1. batch \in Seq(OrderedTx)
    BY SccAssumption
<1>2. Txs = 1 .. Len(batch) /\ Len(batch) \in Nat /\ batch[i] \in OrderedTx
    BY <1>1, ElementType DEF Txs
<1>3. batch[i].op \in FsOp
    BY <1>2 DEF OrderedTx
<1>4. ReadSet(batch[i]) \subseteq Keys /\ WriteSet(batch[i]) \subseteq ReadSet(batch[i])
    BY <1>3, SetsInKeys DEF ReadSet, WriteSet
<1>5. Participants(i) = {Owner[k] : k \in ReadSet(batch[i])}
    <2>1. ReadSet(batch[i]) \cup WriteSet(batch[i]) = ReadSet(batch[i])
        BY <1>4
    <2> QED BY <2>1 DEF Participants, AllParticipants, OwnersOf
<1> QED BY <1>2, <1>3, <1>4, <1>5, RouterAssumption DEF LocalReadKeys

\* The predecessors of a transaction are before it, up to the last of them.
LEMMA PredFacts ==
    ASSUME batch \in Batches, NEW i \in Txs
    PROVE  /\ i \in Nat /\ MaxPred(i) \in 0 .. i - 1
           /\ Preds(i) \subseteq 1 .. MaxPred(i)
           /\ 1 .. MaxPred(i) \subseteq Txs
<1>1. i \in 1 .. Len(batch) /\ Txs = 1 .. Len(batch) /\ Len(batch) \in Nat
    BY TxFacts
<1>2. i - 1 \in Nat /\ Preds(i) \subseteq 1 .. i - 1
    BY <1>1 DEF Preds
<1>3. CASE Preds(i) = {}
    BY <1>1, <1>3 DEF MaxPred
<1>4. CASE Preds(i) # {}
    <2> DEFINE m == Max(Preds(i))
    <2>1. m \in Preds(i) /\ \A j \in Preds(i) : j <= m
        BY <1>2, <1>4, MaxIsGreatest
    <2>2. MaxPred(i) = m
        BY <1>4 DEF MaxPred
    <2> HIDE DEF m
    <2> QED BY <1>1, <1>2, <2>1, <2>2
<1> QED BY <1>3, <1>4

\* The recursion of ReachableFrom is well defined.
LEMMA ReachableSteps ==
    ASSUME batch \in Batches, NEW i \in Txs
    PROVE  ReachableFrom(i) = Preds(i) \cup UNION {ReachableFrom(j) : j \in Preds(i)}
<1> DEFINE L == Len(batch)
           IsBefore(f, m) == f = [n \in 1 .. m |-> Preds(n) \cup UNION {f[j] : j \in Preds(n)}]
           bad == {m \in 0 .. L : ~\E f : IsBefore(f, m)}
<1>0. Txs = 1 .. L /\ L \in Nat
    BY TxFacts
<1>1. \A n \in 1 .. L : Preds(n) \subseteq 1 .. n - 1
    BY <1>0, PredFacts DEF Preds
<1> HIDE DEF L
<1>2. bad = {}
    <2> SUFFICES ASSUME bad # {} PROVE FALSE
        OBVIOUS
    <2>1. PICK m \in bad : \A y \in bad : m <= y
        <3>1. bad \subseteq Nat
            OBVIOUS
        <3> QED BY <3>1, NatMin
    <2>2. m # 0
        <3>1. IsBefore([n \in 1 .. 0 |-> {}], 0)
            OBVIOUS
        <3> QED BY <3>1
    <2>3. m \in 1 .. L /\ m - 1 \in 0 .. L /\ m - 1 \notin bad
        <3>1. m \in 0 .. L
            OBVIOUS
        <3> HIDE DEF bad
        <3> QED BY <1>0, <3>1, <2>1, <2>2
    <2>4. PICK f : IsBefore(f, m - 1)
        BY <2>3
    <2> DEFINE g == [n \in 1 .. m |-> IF n = m THEN Preds(m) \cup UNION {f[j] : j \in Preds(m)}
                                      ELSE f[n]]
    <2>5. \A n \in 1 .. m - 1 : g[n] = f[n]
        BY <2>3
    <2>6. ASSUME NEW n \in 1 .. m PROVE {g[j] : j \in Preds(n)} = {f[j] : j \in Preds(n)}
        <3>1. n \in 1 .. L
            BY <1>0, <2>3
        <3>2. Preds(n) \subseteq 1 .. m - 1
            BY <1>0, <1>1, <2>3, <3>1
        <3> HIDE DEF g
        <3> QED BY <2>5, <3>2
    <2>7. \A n \in 1 .. m : g[n] = Preds(n) \cup UNION {g[j] : j \in Preds(n)}
        <3> SUFFICES ASSUME NEW n \in 1 .. m
                     PROVE  g[n] = Preds(n) \cup UNION {g[j] : j \in Preds(n)}
            OBVIOUS
        <3>1. CASE n = m
            <4>1. g[n] = Preds(n) \cup UNION {f[j] : j \in Preds(n)}
                BY <3>1
            <4> HIDE DEF g
            <4> QED BY <4>1, <2>6
        <3>2. CASE n # m
            <4>1. n \in 1 .. m - 1
                BY <3>2, <2>3
            <4>2. f[n] = Preds(n) \cup UNION {f[j] : j \in Preds(n)}
                BY <4>1, <2>4
            <4> HIDE DEF g
            <4> QED BY <4>1, <4>2, <2>5, <2>6
        <3> QED BY <3>1, <3>2
    <2>8. IsBefore(g, m)
        <3>1. g = [n \in 1 .. m |-> g[n]]
            OBVIOUS
        <3> HIDE DEF g
        <3> QED BY <3>1, <2>7
    <2> QED BY <2>1, <2>8
<1>3. \E f : IsBefore(f, L)
    <2>1. L \in 0 .. L
        BY <1>0
    <2> HIDE DEF IsBefore
    <2> QED BY <2>1, <1>2
<1> DEFINE before == CHOOSE f : IsBefore(f, L)
<1>4. IsBefore(before, L)
    <2> HIDE DEF IsBefore
    <2> QED BY <1>3
<1>5. \A n \in Txs : ReachableFrom(n) = before[n]
    BY <1>0 DEF ReachableFrom
<1> HIDE DEF before
<1>6. \A n \in 1 .. L : before[n] = Preds(n) \cup UNION {before[j] : j \in Preds(n)}
    BY <1>4
<1>7. {before[j] : j \in Preds(i)} = {ReachableFrom(j) : j \in Preds(i)}
    <2>1. Preds(i) \subseteq Txs
        BY <1>0, PredFacts
    <2> QED BY <1>5, <2>1
<1> QED BY <1>0, <1>5, <1>6, <1>7

\* Whatever a transaction depends on, in however many steps, is before or is the
\* last of its predecessors.
LEMMA ReachableIsPrefix ==
    ASSUME batch \in Batches
    PROVE  \A i \in Txs : ReachableFrom(i) \subseteq 1 .. MaxPred(i)
<1> DEFINE bad == {n \in Txs : ~(ReachableFrom(n) \subseteq 1 .. MaxPred(n))}
<1>1. bad \subseteq Nat
    BY PredFacts
<1>2. SUFFICES ASSUME bad # {} PROVE FALSE
    OBVIOUS
<1>3. PICK n \in bad : \A y \in bad : n <= y
    BY <1>1, <1>2, NatMin
<1>4. n \in Txs
    OBVIOUS
<1>5. /\ n \in Nat /\ MaxPred(n) \in 0 .. n - 1
      /\ Preds(n) \subseteq 1 .. MaxPred(n) /\ 1 .. MaxPred(n) \subseteq Txs
    BY <1>4, PredFacts
<1>6. ASSUME NEW j \in Preds(n) PROVE ReachableFrom(j) \subseteq 1 .. MaxPred(n)
    <2>1. j \in Txs /\ j \in Nat /\ j < n /\ j <= MaxPred(n)
        BY <1>5
    <2>2. j \notin bad
        <3> HIDE DEF bad
        <3> QED BY <1>3, <1>5, <2>1
    <2>3. ReachableFrom(j) \subseteq 1 .. MaxPred(j)
        BY <2>1, <2>2
    <2>4. MaxPred(j) \in 0 .. j - 1
        BY <2>1, PredFacts
    <2> QED BY <1>5, <2>1, <2>3, <2>4
<1>7. ReachableFrom(n) \subseteq 1 .. MaxPred(n)
    BY <1>4, <1>5, <1>6, ReachableSteps
<1> QED BY <1>3, <1>7

\* The recursion of ApplySlots is well defined: it starts with the base reads and
\* applies one slot after the other.
LEMMA ApplySlotsSteps ==
    ASSUME NEW s, NEW base, NEW L \in Nat
    PROVE  /\ ApplySlots(s, base, L)[0] = base
           /\ \A m \in 1 .. L : ApplySlots(s, base, L)[m] =
                 ApplyDelta(ApplySlots(s, base, L)[m - 1],
                            FilterDeltaToKeys(slot[s][m].delta, DOMAIN base))
<1> DEFINE d(m) == FilterDeltaToKeys(slot[s][m].delta, DOMAIN base)
           IsRun(f, n) == f = [m \in 0 .. n |-> IF m = 0 THEN base ELSE ApplyDelta(f[m - 1], d(m))]
           bad == {n \in 0 .. L : ~\E f : IsRun(f, n)}
<1> HIDE DEF d
<1>1. bad = {}
    <2> SUFFICES ASSUME bad # {} PROVE FALSE
        OBVIOUS
    <2>1. PICK n \in bad : \A y \in bad : n <= y
        <3>1. bad \subseteq Nat
            OBVIOUS
        <3> QED BY <3>1, NatMin
    <2>2. n # 0
        <3>1. IsRun([m \in 0 .. 0 |-> base], 0)
            OBVIOUS
        <3> QED BY <3>1
    <2>3. n \in Nat /\ n - 1 \in 0 .. L /\ n - 1 \notin bad
        <3>1. n \in 0 .. L
            OBVIOUS
        <3> HIDE DEF bad
        <3> QED BY <3>1, <2>1, <2>2
    <2>4. PICK f : IsRun(f, n - 1)
        BY <2>3
    <2> DEFINE g == [m \in 0 .. n |-> IF m = n THEN ApplyDelta(f[n - 1], d(n)) ELSE f[m]]
    <2>5. \A m \in 0 .. n : g[m] = IF m = 0 THEN base ELSE ApplyDelta(g[m - 1], d(m))
        <3> SUFFICES ASSUME NEW m \in 0 .. n
                     PROVE  g[m] = IF m = 0 THEN base ELSE ApplyDelta(g[m - 1], d(m))
            OBVIOUS
        <3>1. CASE m = n
            <4>1. m # 0 /\ n - 1 \in 0 .. n /\ n - 1 # n
                BY <3>1, <2>2, <2>3
            <4>2. g[m] = ApplyDelta(f[n - 1], d(n)) /\ g[n - 1] = f[n - 1]
                BY <3>1, <4>1
            <4> QED BY <3>1, <4>1, <4>2
        <3>2. CASE m # n
            <4>1. m \in 0 .. n - 1 /\ g[m] = f[m]
                BY <3>2, <2>3
            <4>2. f[m] = IF m = 0 THEN base ELSE ApplyDelta(f[m - 1], d(m))
                BY <4>1, <2>4
            <4>3. m # 0 => m - 1 \in 0 .. n /\ m - 1 # n /\ g[m - 1] = f[m - 1]
                BY <4>1, <2>3
            <4> QED BY <4>1, <4>2, <4>3
        <3> QED BY <3>1, <3>2
    <2>6. IsRun(g, n)
        BY <2>5
    <2> QED BY <2>1, <2>6
<1>2. \E f : IsRun(f, L)
    <2>1. L \in 0 .. L
        OBVIOUS
    <2> HIDE DEF IsRun
    <2> QED BY <2>1, <1>1
<1> DEFINE run == ApplySlots(s, base, L)
<1>3. run = CHOOSE f : IsRun(f, L)
    BY DEF ApplySlots, d
<1>4. IsRun(run, L)
    BY <1>2, <1>3
<1> HIDE DEF run
<1>5. \A m \in 0 .. L : run[m] = IF m = 0 THEN base ELSE ApplyDelta(run[m - 1], d(m))
    BY <1>4
<1>6. run[0] = base
    BY <1>5
<1>7. ASSUME NEW m \in 1 .. L PROVE run[m] = ApplyDelta(run[m - 1], d(m))
    <2>1. m \in 0 .. L /\ m # 0
        OBVIOUS
    <2> QED BY <2>1, <1>5
<1> QED BY <1>6, <1>7 DEF run, d

\* Deltas are applied to the keys that were read, and to no other.
LEMMA ApplySlotsDomain ==
    ASSUME NEW s, NEW base, NEW L \in Nat, IsMap(base)
    PROVE  \A m \in 0 .. L : /\ DOMAIN ApplySlots(s, base, L)[m] = DOMAIN base
                             /\ IsMap(ApplySlots(s, base, L)[m])
<1> DEFINE run == ApplySlots(s, base, L)
           Good(m) == DOMAIN run[m] = DOMAIN base /\ IsMap(run[m])
           bad == {m \in 0 .. L : ~Good(m)}
<1>0. /\ run[0] = base
      /\ \A m \in 1 .. L : run[m] = ApplyDelta(run[m - 1], FilterDeltaToKeys(slot[s][m].delta, DOMAIN base))
    BY ApplySlotsSteps
<1> HIDE DEF run
<1>1. SUFFICES ASSUME bad # {} PROVE FALSE
    BY DEF run
<1>2. PICK m \in bad : \A y \in bad : m <= y
    <2>1. bad \subseteq Nat
        OBVIOUS
    <2> QED BY <1>1, <2>1, NatMin
<1>3. m # 0
    BY <1>0
<1>4. m \in 1 .. L /\ m - 1 \in 0 .. L /\ m - 1 \notin bad
    <2>1. m \in 0 .. L
        OBVIOUS
    <2> HIDE DEF bad
    <2> QED BY <2>1, <1>2, <1>3
<1>5. Good(m - 1)
    BY <1>4
<1>6. Good(m)
    <2>1. \A st, de : DOMAIN ApplyDelta(st, de) = DOMAIN st /\ IsMap(ApplyDelta(st, de))
        BY DEF ApplyDelta, IsMap
    <2> QED BY <1>0, <1>4, <1>5, <2>1
<1> QED BY <1>2, <1>6

-----------------------------------------------------------------------------
(* What a step of a worker does *)

\* Updating one entry of a table.
LEMMA TypedUpdate ==
    ASSUME NEW T, NEW S, NEW f \in [Shards -> [T -> S]], NEW s \in Shards, NEW i \in T,
           NEW v \in S
    PROVE  /\ [f EXCEPT ![s][i] = v] \in [Shards -> [T -> S]]
           /\ [f EXCEPT ![s][i] = v][s][i] = v
           /\ \A t \in Shards, j \in T : (t # s \/ j # i) => [f EXCEPT ![s][i] = v][t][j] = f[t][j]
OBVIOUS

\* The ways in which worker i of shard s may move.
Idles(s, i) == /\ slot'[s][i] = slot[s][i] /\ heard'[s][i] = heard[s][i]
               /\ effect_reads'[s][i] = effect_reads[s][i]

Materializes(s, i) ==
    /\ worker[s][i] = "ready" /\ worker'[s][i] \in {"send_reads", "collect"}
    /\ PrefixSucceeded(s, i)
    /\ DOMAIN effect_reads'[s][i] = LocalReadKeys(batch[i], s) /\ IsMap(effect_reads'[s][i])
    /\ slot'[s][i] = slot[s][i] /\ heard'[s][i] = heard[s][i]

GivesUp(s, i) ==
    /\ \/ worker[s][i] = "ready" /\ worker'[s][i] \in {"send_status", "err"}
       \/ worker[s][i] \in {"send_reads", "send_status", "collect"} /\ worker'[s][i] = "err"
    /\ Idles(s, i)

Sends(s, i) ==
    /\ \/ worker[s][i] \in {"send_reads", "send_status"} /\ worker'[s][i] = worker[s][i]
       \/ worker[s][i] = "send_reads" /\ worker'[s][i] = "collect"
    /\ Idles(s, i)

Hears(s, i) ==
    /\ worker[s][i] = "collect" /\ worker'[s][i] = "collect"
    /\ slot'[s][i] = slot[s][i]
    /\ \E m \in effect_mail[s][i] :
          /\ m.status # "SpeculationFailed" /\ m.from \in Others(s, i)
          /\ DOMAIN m.reads \cap DOMAIN effect_reads[s][i] = {}
          /\ heard'[s][i] = heard[s][i] \cup {m.from}
          /\ effect_reads'[s][i] = MergeReads(effect_reads[s][i], m.reads)

FailsNow(s, i) ==
    /\ worker'[s][i] = "ok" /\ slot'[s][i] = Failed
    /\ heard'[s][i] = heard[s][i] /\ effect_reads'[s][i] = effect_reads[s][i]
    /\ \/ worker[s][i] = "send_status"
       \/ /\ worker[s][i] = "collect"
          /\ \/ \E m \in effect_mail[s][i] : m.status = "SpeculationFailed" /\ m.from \in Others(s, i)
             \/ ReadsAll(s, i) /\ ~OnPredictedPath(SpecResult(s, i))

Commits(s, i) ==
    /\ worker[s][i] = "collect" /\ worker'[s][i] = "ok"
    /\ slot'[s][i].state \in {"NoOp", "Delta"}
    /\ heard'[s][i] = heard[s][i] /\ effect_reads'[s][i] = effect_reads[s][i]
    /\ heard[s][i] = Others(s, i) /\ ReadsAll(s, i) /\ OnPredictedPath(SpecResult(s, i))

Moves(s, i) == \/ Materializes(s, i) \/ GivesUp(s, i) \/ Sends(s, i)
               \/ Hears(s, i) \/ FailsNow(s, i) \/ Commits(s, i)

\* The other workers stay where they are, and the mail that is new comes from
\* this one.
Bystander(t, j) == Idles(t, j) /\ worker'[t][j] = worker[t][j]
NewMail(s, i) ==
    \A t \in Shards, j \in Txs : \A m \in effect_mail'[t][j] :
        m \in effect_mail[t][j] \/ (j = i /\ Sending(s, i) /\ m = Message(s, i))

\* The local effect of one step.
Local(s, i) == /\ Moves(s, i)
               /\ \A t \in Shards, j \in Txs : (t # s \/ j # i) => Bystander(t, j)
               /\ NewMail(s, i)

\* A worker moves within its states and its grids.
GridType == /\ worker' \in [Shards -> [Txs -> WorkerStates]]
            /\ targets' \in [Shards -> [Txs -> SUBSET Shards]]
            /\ heard' \in [Shards -> [Txs -> SUBSET Shards]]
            /\ Grid(slot', Txs) /\ Grid(effect_reads', Txs) /\ Grid(effect_mail', Txs)

\* A worker step that touches neither slots, reads nor mail.
LEMMA GotoLocal ==
    ASSUME SpecType, NEW s \in Shards, NEW i \in Txs, NEW where \in WorkerStates,
           worker' = [worker EXCEPT ![s][i] = where],
           UNCHANGED <<slot, effect_reads, heard>>
    PROVE  /\ worker'[s][i] = where /\ Idles(s, i)
           /\ worker' \in [Shards -> [Txs -> WorkerStates]]
           /\ \A t \in Shards, j \in Txs : (t # s \/ j # i) => Bystander(t, j)
BY DEF SpecType, Idles, Bystander

\* materialized_local_read.
LEMMA MaterializeLocal ==
    ASSUME SpecType, NEW s \in Shards, NEW i \in Txs, MaterializeReads(s, i) \/ MaterializeFails(s, i)
    PROVE  Local(s, i) /\ GridType
<1>0. /\ worker[s][i] = "ready" /\ UNCHANGED <<slot, heard, effect_mail>>
    BY DEF MaterializeReads, MaterializeFails, netVars
<1>1. Others(s, i) \subseteq Shards
    BY TxFacts DEF SpecType, Others
<1>2. NewMail(s, i) /\ Grid(slot', Txs) /\ Grid(effect_mail', Txs)
    BY <1>0 DEF NewMail, SpecType
<1>3. CASE MaterializeReads(s, i) /\ Inapplicable(s, BaseReads(s, i), MaxPred(i)) = {}
    <2> DEFINE r == ApplySlots(s, BaseReads(s, i), MaxPred(i))[MaxPred(i)]
    <2>1. /\ effect_reads' = [effect_reads EXCEPT ![s][i] = r]
          /\ targets' = [targets EXCEPT ![s][i] = Others(s, i)]
          /\ \/ worker' = [worker EXCEPT ![s][i] = "collect"]
             \/ worker' = [worker EXCEPT ![s][i] = "send_reads"]
          /\ PrefixSucceeded(s, i)
        BY <1>3 DEF MaterializeReads, Goto, Scanned, PrefixSucceeded
    <2>2. DOMAIN r = LocalReadKeys(batch[i], s) /\ IsMap(r)
        <3>1. MaxPred(i) \in Nat /\ MaxPred(i) \in 0 .. MaxPred(i)
            BY PredFacts DEF SpecType
        <3>2. IsMap(BaseReads(s, i)) /\ DOMAIN BaseReads(s, i) = LocalReadKeys(batch[i], s)
            BY DEF IsMap, BaseReads
        <3> QED BY <3>1, <3>2, ApplySlotsDomain
    <2> HIDE DEF r
    <2>3. /\ Grid(effect_reads', Txs) /\ effect_reads'[s][i] = r
          /\ \A t \in Shards, j \in Txs : (t # s \/ j # i) => effect_reads'[t][j] = effect_reads[t][j]
        <3>1. Grid(effect_reads, Txs)
            BY DEF SpecType
        <3> QED BY <2>1, <3>1 DEF Grid
    <2>4. /\ worker' \in [Shards -> [Txs -> WorkerStates]]
          /\ worker'[s][i] \in {"send_reads", "collect"}
          /\ \A t \in Shards, j \in Txs : (t # s \/ j # i) => worker'[t][j] = worker[t][j]
        <3>1. worker \in [Shards -> [Txs -> WorkerStates]]
            BY DEF SpecType
        <3>2. CASE worker' = [worker EXCEPT ![s][i] = "collect"]
            BY <3>1, <3>2, TypedUpdate DEF WorkerStates
        <3>3. CASE worker' = [worker EXCEPT ![s][i] = "send_reads"]
            BY <3>1, <3>3, TypedUpdate DEF WorkerStates
        <3> QED BY <2>1, <3>2, <3>3
    <2>5. targets' \in [Shards -> [Txs -> SUBSET Shards]]
        BY <1>1, <2>1, TypedUpdate DEF SpecType
    <2>6. heard' \in [Shards -> [Txs -> SUBSET Shards]]
        BY <1>0 DEF SpecType
    <2>7. Materializes(s, i)
        BY <1>0, <2>1, <2>2, <2>3, <2>4 DEF Materializes
    <2>8. \A t \in Shards, j \in Txs : (t # s \/ j # i) => Bystander(t, j)
        BY <1>0, <2>3, <2>4 DEF Bystander, Idles
    <2> QED BY <1>2, <2>3, <2>4, <2>5, <2>6, <2>7, <2>8 DEF Local, Moves, GridType
<1>4. CASE MaterializeFails(s, i) \/
           (MaterializeReads(s, i) /\ Inapplicable(s, BaseReads(s, i), MaxPred(i)) # {})
    <2>1. /\ \/ worker' = [worker EXCEPT ![s][i] = "err"]
             \/ worker' = [worker EXCEPT ![s][i] = "send_status"]
          /\ \/ targets' = [targets EXCEPT ![s][i] = Others(s, i)]
             \/ targets' = targets
          /\ effect_reads' = effect_reads
        BY <1>4 DEF MaterializeReads, MaterializeFails, Goto
    <2>2. targets' \in [Shards -> [Txs -> SUBSET Shards]]
        <3>1. targets \in [Shards -> [Txs -> SUBSET Shards]]
            BY DEF SpecType
        <3> QED BY <1>1, <2>1, <3>1, TypedUpdate
    <2>3. /\ worker'[s][i] \in {"send_status", "err"} /\ Idles(s, i)
          /\ worker' \in [Shards -> [Txs -> WorkerStates]]
          /\ \A t \in Shards, j \in Txs : (t # s \/ j # i) => Bystander(t, j)
        BY <1>0, <2>1, GotoLocal DEF WorkerStates
    <2>4. GivesUp(s, i)
        BY <1>0, <2>3 DEF GivesUp
    <2> QED BY <1>0, <1>2, <2>1, <2>2, <2>3, <2>4 DEF Local, Moves, GridType, SpecType
<1> QED BY <1>3, <1>4

\* A message that is routed ends in one mailbox, or is lost.
LEMMA RouteLocal ==
    ASSUME SpecType, NEW s \in Shards, NEW i \in Txs, Sending(s, i),
           NEW t \in Shards, Route(t, i, Message(s, i))
    PROVE  NewMail(s, i) /\ Grid(effect_mail', Txs)
<1> DEFINE msg == Message(s, i)
<1> HIDE DEF msg
<1>1. /\ Grid(effect_mail, Txs)
      /\ \/ effect_mail' = effect_mail
         \/ effect_mail' = [effect_mail EXCEPT ![t][i] = effect_mail[t][i] \cup {msg}]
    BY DEF SpecType, Route, msg
<1>2. Grid(effect_mail', Txs)
    BY <1>1 DEF Grid
<1>3. \A u \in Shards, j \in Txs : \A m \in effect_mail'[u][j] :
          m \in effect_mail[u][j] \/ (j = i /\ m = msg)
    BY <1>1 DEF Grid
<1> QED BY <1>2, <1>3 DEF NewMail, msg

\* send_scc_read_result, also when the RPC fails.
LEMMA SendLocal ==
    ASSUME SpecType, NEW s \in Shards, NEW i \in Txs, SendReadResult(s, i) \/ FailReadResult(s, i)
    PROVE  Local(s, i) /\ GridType
<1> DEFINE t == Min(targets[s][i])
<1>0. /\ Sending(s, i) /\ worker[s][i] \in {"send_reads", "send_status"}
      /\ UNCHANGED <<slot, effect_reads, heard>>
    BY DEF SendReadResult, FailReadResult, Sending
<1>1. t \in Shards
    <2>1. targets[s][i] \subseteq Shards /\ targets[s][i] # {}
        BY <1>0 DEF SpecType, Sending
    <2>2. targets[s][i] \subseteq Nat
        BY <2>1, RouterAssumption DEF Shards
    <2> QED BY <2>1, <2>2, MinIsLeast
<1>2. \/ effect_mail' = effect_mail
      \/ Route(t, i, Message(s, i))
    BY DEF SendReadResult, FailReadResult
<1>3. \/ targets' = targets
      \/ targets' = [targets EXCEPT ![s][i] = targets[s][i] \ {t}]
    BY DEF SendReadResult, FailReadResult
<1>4. \/ worker' = [worker EXCEPT ![s][i] = "err"]
      \/ worker' = [worker EXCEPT ![s][i] = worker[s][i]]
      \/ worker[s][i] = "send_reads" /\ worker' = [worker EXCEPT ![s][i] = "collect"]
    BY DEF SendReadResult, FailReadResult, Goto
<1> HIDE DEF t
<1>5. NewMail(s, i) /\ Grid(effect_mail', Txs)
    <2>1. CASE effect_mail' = effect_mail
        BY <2>1 DEF NewMail, SpecType
    <2>2. CASE Route(t, i, Message(s, i))
        BY <1>0, <1>1, <2>2, RouteLocal
    <2> QED BY <1>2, <2>1, <2>2
<1>6. targets' \in [Shards -> [Txs -> SUBSET Shards]]
    <2>1. targets \in [Shards -> [Txs -> SUBSET Shards]]
        BY DEF SpecType
    <2>2. targets[s][i] \ {t} \in SUBSET Shards
        BY <2>1
    <2> QED BY <1>3, <2>1, <2>2, TypedUpdate
<1>7. PICK where \in {"err", "send_reads", "send_status", "collect"} :
          /\ worker' = [worker EXCEPT ![s][i] = where]
          /\ where \in {"err", worker[s][i]} \/ (worker[s][i] = "send_reads" /\ where = "collect")
    BY <1>0, <1>4
<1>8. /\ worker'[s][i] = where /\ Idles(s, i)
      /\ worker' \in [Shards -> [Txs -> WorkerStates]]
      /\ \A u \in Shards, j \in Txs : (u # s \/ j # i) => Bystander(u, j)
    <2>1. where \in WorkerStates
        BY <1>7 DEF WorkerStates
    <2> QED BY <1>0, <1>7, <2>1, GotoLocal
<1>9. GivesUp(s, i) \/ Sends(s, i)
    BY <1>0, <1>7, <1>8 DEF GivesUp, Sends
<1> QED BY <1>0, <1>5, <1>6, <1>8, <1>9 DEF Local, Moves, GridType, SpecType

\* fail, when the status has been sent or one has been received, or the
\* transaction is not on the predicted path.
LEMMA FailLocal ==
    ASSUME SpecType, NEW s \in Shards, NEW i \in Txs, Fail(s, i), UNCHANGED <<effect_reads, heard>>
    PROVE  /\ worker'[s][i] = "ok" /\ slot'[s][i] = Failed
           /\ heard'[s][i] = heard[s][i] /\ effect_reads'[s][i] = effect_reads[s][i]
           /\ worker' \in [Shards -> [Txs -> WorkerStates]]
           /\ Grid(slot', Txs)
           /\ \A t \in Shards, j \in Txs : (t # s \/ j # i) => Bystander(t, j)
BY DEF Fail, Goto, SpecType, WorkerStates, Grid, Bystander, Idles

\* The status has been sent to all.
LEMMA FailAfterStatusLocal ==
    ASSUME SpecType, NEW s \in Shards, NEW i \in Txs, FailAfterStatus(s, i)
    PROVE  Local(s, i) /\ GridType
<1>1. /\ Fail(s, i) /\ UNCHANGED <<effect_reads, heard, targets, effect_mail>>
      /\ worker[s][i] = "send_status"
    BY DEF FailAfterStatus, netVars
<1>2. NewMail(s, i)
    BY <1>1 DEF NewMail
<1>3. FailsNow(s, i)
    BY <1>1, FailLocal DEF FailsNow
<1> QED BY <1>1, <1>2, <1>3, FailLocal DEF Local, Moves, GridType, SpecType

\* One turn of collect_scc_full_reads.
LEMMA CollectLocal ==
    ASSUME SpecType, NEW s \in Shards, NEW i \in Txs, CollectReadResult(s, i)
    PROVE  Local(s, i) /\ GridType
<1>1. PICK msg \in effect_mail[s][i] :
          /\ effect_mail' = [effect_mail EXCEPT ![s][i] = @ \ {msg}]
          /\ IF Expected(s, i, msg) /\ FailsSpeculation(msg)
             THEN Fail(s, i) /\ UNCHANGED <<heard, effect_reads>>
             ELSE IF Expected(s, i, msg) /\ ValidReads(s, i, msg)
             THEN /\ heard' = [heard EXCEPT ![s][i] = @ \cup {msg.from}]
                  /\ effect_reads' = [effect_reads EXCEPT ![s][i] = MergeReads(@, msg.reads)]
                  /\ UNCHANGED <<slot, worker>>
             ELSE Goto(s, i, "err") /\ UNCHANGED <<slot, heard, effect_reads>>
    BY DEF CollectReadResult
<1>2. worker[s][i] = "collect" /\ targets' = targets
    BY DEF CollectReadResult
<1>3. NewMail(s, i) /\ Grid(effect_mail', Txs)
    BY <1>1 DEF NewMail, SpecType, Grid
<1>4. targets' \in [Shards -> [Txs -> SUBSET Shards]]
    BY <1>2 DEF SpecType
<1>5. CASE Expected(s, i, msg) /\ FailsSpeculation(msg)
    <2>1. Fail(s, i) /\ UNCHANGED <<heard, effect_reads>>
        BY <1>1, <1>5
    <2>2. msg.status = "SpeculationFailed" /\ msg.from \in Others(s, i)
        BY <1>5 DEF Expected, FailsSpeculation
    <2>3. FailsNow(s, i)
        BY <1>1, <1>2, <2>1, <2>2, FailLocal DEF FailsNow
    <2> QED BY <1>3, <1>4, <2>1, <2>3, FailLocal DEF Local, Moves, GridType, SpecType
<1>6. CASE Expected(s, i, msg) /\ ~FailsSpeculation(msg) /\ ValidReads(s, i, msg)
    <2> DEFINE r == MergeReads(effect_reads[s][i], msg.reads)
    <2>1. /\ heard' = [heard EXCEPT ![s][i] = heard[s][i] \cup {msg.from}]
          /\ effect_reads' = [effect_reads EXCEPT ![s][i] = r]
          /\ UNCHANGED <<slot, worker>>
        BY <1>1, <1>6
    <2>2. /\ msg.from \in Others(s, i) /\ msg.status # "SpeculationFailed"
          /\ DOMAIN msg.reads \cap DOMAIN effect_reads[s][i] = {}
        BY <1>6 DEF Expected, FailsSpeculation, ValidReads
    <2> HIDE DEF r
    <2>3. msg.from \in Shards
        BY <2>2, TxFacts DEF Others, SpecType
    <2>4. /\ heard' \in [Shards -> [Txs -> SUBSET Shards]]
          /\ heard'[s][i] = heard[s][i] \cup {msg.from}
          /\ \A t \in Shards, j \in Txs : (t # s \/ j # i) => heard'[t][j] = heard[t][j]
        <3>1. heard \in [Shards -> [Txs -> SUBSET Shards]]
            BY DEF SpecType
        <3>2. heard[s][i] \cup {msg.from} \in SUBSET Shards
            BY <2>3, <3>1
        <3> QED BY <2>1, <3>1, <3>2, TypedUpdate
    <2>5. /\ Grid(effect_reads', Txs) /\ effect_reads'[s][i] = r
          /\ \A t \in Shards, j \in Txs : (t # s \/ j # i) => effect_reads'[t][j] = effect_reads[t][j]
        <3>1. Grid(effect_reads, Txs)
            BY DEF SpecType
        <3> QED BY <2>1, <3>1 DEF Grid
    <2>6. Hears(s, i)
        BY <1>2, <2>1, <2>2, <2>4, <2>5 DEF Hears, r
    <2>7. \A t \in Shards, j \in Txs : (t # s \/ j # i) => Bystander(t, j)
        BY <2>1, <2>4, <2>5 DEF Bystander, Idles
    <2> QED BY <1>3, <1>4, <2>1, <2>4, <2>5, <2>6, <2>7 DEF Local, Moves, GridType, SpecType
<1>7. CASE ~Expected(s, i, msg) \/ (~FailsSpeculation(msg) /\ ~ValidReads(s, i, msg))
    <2>1. worker' = [worker EXCEPT ![s][i] = "err"] /\ UNCHANGED <<slot, heard, effect_reads>>
        BY <1>1, <1>7 DEF Goto
    <2>2. /\ worker'[s][i] = "err" /\ Idles(s, i)
          /\ worker' \in [Shards -> [Txs -> WorkerStates]]
          /\ \A t \in Shards, j \in Txs : (t # s \/ j # i) => Bystander(t, j)
        BY <2>1, GotoLocal DEF WorkerStates
    <2>3. GivesUp(s, i)
        BY <1>2, <2>2 DEF GivesUp
    <2> QED BY <1>3, <1>4, <2>1, <2>2, <2>3 DEF Local, Moves, GridType, SpecType
<1> QED BY <1>5, <1>6, <1>7

\* The worker executes, or is left alone by a shard that has failed.
LEMMA ExecuteLocal ==
    ASSUME SpecType, NEW s \in Shards, NEW i \in Txs, ExecuteAndCommit(s, i) \/ OrphanFails(s, i)
    PROVE  Local(s, i) /\ GridType
<1>1. UNCHANGED <<targets, effect_reads, heard, effect_mail>>
    BY DEF ExecuteAndCommit, OrphanFails, netVars
<1>2. /\ NewMail(s, i)
      /\ targets' \in [Shards -> [Txs -> SUBSET Shards]]
      /\ heard' \in [Shards -> [Txs -> SUBSET Shards]]
      /\ Grid(effect_reads', Txs) /\ Grid(effect_mail', Txs)
    BY <1>1 DEF NewMail, SpecType
<1>3. CASE OrphanFails(s, i) \/ (ExecuteAndCommit(s, i) /\ ~ReadsAll(s, i))
    <2>1. /\ worker' = [worker EXCEPT ![s][i] = "err"] /\ slot' = slot
          /\ worker[s][i] \in {"ready", "collect"}
        BY <1>3 DEF OrphanFails, ExecuteAndCommit, ReadsAll, Goto
    <2>2. /\ worker'[s][i] = "err" /\ Idles(s, i)
          /\ worker' \in [Shards -> [Txs -> WorkerStates]]
          /\ \A t \in Shards, j \in Txs : (t # s \/ j # i) => Bystander(t, j)
        BY <1>1, <2>1, GotoLocal DEF WorkerStates
    <2>3. GivesUp(s, i)
        BY <2>1, <2>2 DEF GivesUp
    <2> QED BY <1>2, <2>1, <2>2, <2>3 DEF Local, Moves, GridType, SpecType
<1>4. CASE ExecuteAndCommit(s, i) /\ ReadsAll(s, i) /\ ~OnPredictedPath(SpecResult(s, i))
    <2>1. worker[s][i] = "collect" /\ Fail(s, i)
        BY <1>4 DEF ExecuteAndCommit, ReadsAll, SpecResult
    <2>2. FailsNow(s, i)
        BY <1>1, <1>4, <2>1, FailLocal DEF FailsNow
    <2> QED BY <1>1, <1>2, <2>1, <2>2, FailLocal DEF Local, Moves, GridType
<1>5. CASE ExecuteAndCommit(s, i) /\ ReadsAll(s, i) /\ OnPredictedPath(SpecResult(s, i))
    <2> DEFINE d == LocalDelta(s, i, OutputToDelta(batch[i].op, effect_reads[s][i], SpecResult(s, i).writes))
    <2>1. /\ worker[s][i] = "collect" /\ heard[s][i] = Others(s, i)
          /\ slot' = [slot EXCEPT ![s][i] = Committed(d)]
          /\ worker' = [worker EXCEPT ![s][i] = "ok"]
        BY <1>5 DEF ExecuteAndCommit, ReadsAll, SpecResult, Goto
    <2> HIDE DEF d
    <2>2. Committed(d).state \in {"NoOp", "Delta"}
        BY DEF Committed, NoOp
    <2>3. /\ worker' \in [Shards -> [Txs -> WorkerStates]] /\ worker'[s][i] = "ok"
          /\ \A t \in Shards, j \in Txs : (t # s \/ j # i) => worker'[t][j] = worker[t][j]
        BY <2>1 DEF SpecType, WorkerStates
    <2>4. /\ Grid(slot', Txs) /\ slot'[s][i] = Committed(d)
          /\ \A t \in Shards, j \in Txs : (t # s \/ j # i) => slot'[t][j] = slot[t][j]
        BY <2>1 DEF SpecType, Grid
    <2>5. Commits(s, i)
        BY <1>1, <1>5, <2>1, <2>2, <2>3, <2>4 DEF Commits
    <2>6. \A t \in Shards, j \in Txs : (t # s \/ j # i) => Bystander(t, j)
        BY <1>1, <2>3, <2>4 DEF Bystander, Idles
    <2> QED BY <1>2, <2>3, <2>4, <2>5, <2>6 DEF Local, Moves, GridType
<1> QED BY <1>3, <1>4, <1>5

\* All steps of workers.
LEMMA WorkerIsLocal ==
    ASSUME SpecType, NEW s \in Shards, NEW i \in Txs, Worker(s, i) \/ FailReadResult(s, i)
    PROVE  Local(s, i) /\ SpecType' /\ UNCHANGED <<batch, status>>
<1>1. Local(s, i) /\ GridType
    BY MaterializeLocal, SendLocal, FailAfterStatusLocal, CollectLocal, ExecuteLocal DEF Worker
<1>2. UNCHANGED <<batch, status>>
    BY DEF Worker, FailReadResult, MaterializeReads, MaterializeFails, SendReadResult,
           FailAfterStatus, CollectReadResult, ExecuteAndCommit, OrphanFails, history, shardVars
<1>3. SpecType'
    BY <1>1, <1>2 DEF SpecType, GridType, Txs
<1> QED BY <1>1, <1>2, <1>3

-----------------------------------------------------------------------------
(* Nothing is forgotten *)

\* Reads are added and never replaced; without reads a worker stays without.
LEMMA ReadsGrow ==
    ASSUME SpecInv, NEW s \in Shards, NEW i \in Txs, Local(s, i), NEW t \in Shards, NEW j \in Txs
    PROVE  /\ \A k \in DOMAIN effect_reads[t][j] : /\ k \in DOMAIN effect_reads'[t][j]
                                                   /\ effect_reads'[t][j][k] = effect_reads[t][j][k]
           /\ HasRead(t, j) => HasRead(t, j)'
           /\ NeverReads(t, j) => NeverReads(t, j)'
<1>1. CASE t # s \/ j # i
    BY <1>1 DEF Local, Bystander, Idles, HasRead, NeverReads
<1>2. CASE t = s /\ j = i
    <2>0. Progress(s, i) /\ Moves(s, i)
        BY DEF SpecInv, Local
    <2>1. CASE Materializes(s, i)
        BY <1>2, <2>0, <2>1 DEF Materializes, Progress, HasRead, NeverReads
    <2>2. CASE GivesUp(s, i) \/ Sends(s, i) \/ FailsNow(s, i) \/ Commits(s, i)
        BY <1>2, <2>2 DEF GivesUp, Sends, FailsNow, Commits, Idles, HasRead, NeverReads
    <2>3. CASE Hears(s, i)
        <3>1. PICK m : /\ DOMAIN m.reads \cap DOMAIN effect_reads[s][i] = {}
                       /\ effect_reads'[s][i] = MergeReads(effect_reads[s][i], m.reads)
            BY <2>3 DEF Hears
        <3>2. HasRead(s, i)
            BY <2>0, <2>3 DEF Hears, Progress
        <3>3. \A k \in DOMAIN effect_reads[s][i] : /\ k \in DOMAIN effect_reads'[s][i]
                                                   /\ effect_reads'[s][i][k] = effect_reads[s][i][k]
            BY <3>1 DEF MergeReads
        <3> QED BY <1>2, <3>2, <3>3 DEF HasRead, NeverReads
    <2> QED BY <2>0, <2>1, <2>2, <2>3 DEF Moves
<1> QED BY <1>1, <1>2

\* What came from the owners is still theirs.
LEMMA FromOwnerKept ==
    ASSUME SpecInv, NEW s \in Shards, NEW i \in Txs, Local(s, i), NEW j \in Txs, NEW f,
           FromOwner(j, f)
    PROVE  FromOwner(j, f)'
<1>1. \A k \in Keys : Owner[k] \in Shards
    BY RouterAssumption
<1> QED BY <1>1, ReadsGrow DEF FromOwner

\* A slot that is set stays as it is.
LEMMA SlotsFinal ==
    ASSUME SpecInv, NEW s \in Shards, NEW i \in Txs, Local(s, i), NEW t \in Shards, NEW j \in Txs,
           slot[t][j] # Pending
    PROVE  slot'[t][j] = slot[t][j]
<1>1. CASE t # s \/ j # i
    BY <1>1 DEF Local, Bystander, Idles
<1>2. CASE t = s /\ j = i
    <2>1. Progress(s, i) /\ Moves(s, i)
        BY DEF SpecInv, Local
    <2> QED BY <1>2, <2>1 DEF Moves, Materializes, GivesUp, Sends, Hears, FailsNow, Commits,
                              Idles, Progress
<1> QED BY <1>1, <1>2

\* Slots that have succeeded, and prefixes of them, stay so.
LEMMA SuccessFinal ==
    ASSUME SpecInv, batch' = batch, NEW s \in Shards, NEW i \in Txs, Local(s, i),
           NEW t \in Shards, NEW j \in Txs
    PROVE  /\ Succeeded(t, j) => Succeeded(t, j)'
           /\ PrefixSucceeded(t, j) => PrefixSucceeded(t, j)'
<1>1. \A m \in Txs : Succeeded(t, m) => slot[t][m] # Pending
    BY DEF Succeeded, Pending
<1>2. \A m \in Txs : Succeeded(t, m) => Succeeded(t, m)'
    BY <1>1, SlotsFinal DEF Succeeded
<1>3. 1 .. MaxPred(j) \subseteq Txs
    BY PredFacts DEF SpecInv, SpecType
<1>4. MaxPred(j)' = MaxPred(j)
    BY DEF MaxPred, Preds
<1> QED BY <1>2, <1>3, <1>4 DEF PrefixSucceeded

\* A worker step keeps the account of every worker.
LEMMA ProgressStep ==
    ASSUME SpecInv, UNCHANGED <<batch, status>>, NEW s \in Shards, NEW i \in Txs, Local(s, i),
           NEW t \in Shards, NEW j \in Txs
    PROVE  Progress(t, j)'
<1>0. /\ Participants(j)' = Participants(j) /\ Others(t, j)' = Others(t, j)
      /\ Participants(j) \subseteq Shards
    BY TxFacts DEF Participants, Others, SpecInv, SpecType
<1>1. Progress(t, j) /\ Knowledge(t, j) /\ status[t] = status'[t]
    BY DEF SpecInv
<1>2. /\ \A u \in Shards : NeverReads(u, j) => NeverReads(u, j)'
      /\ HasRead(t, j) => HasRead(t, j)'
      /\ Succeeded(t, j) => Succeeded(t, j)'
      /\ PrefixSucceeded(t, j) => PrefixSucceeded(t, j)'
    BY ReadsGrow, SuccessFinal
<1>3. /\ effect_reads'[t][j] = effect_reads[t][j] =>
            /\ ReadsAll(t, j)' = ReadsAll(t, j) /\ HasRead(t, j)' = HasRead(t, j)
            /\ OnPredictedPath(SpecResult(t, j))' = OnPredictedPath(SpecResult(t, j))
      /\ slot'[t][j] = slot[t][j] => Succeeded(t, j)' = Succeeded(t, j)
    BY DEF ReadsAll, HasRead, SpecResult, OnPredictedPath, Succeeded
<1>4. CASE t # s \/ j # i
    <2>1. Bystander(t, j)
        BY <1>4 DEF Local
    <2>2. WhyCommitted(t, j) => WhyCommitted(t, j)'
        BY <1>0, <1>2, <1>3, <2>1 DEF WhyCommitted, Bystander, Idles
    <2>3. WhyFailed(t, j) => WhyFailed(t, j)'
        BY <1>0, <1>2, <1>3, <2>1 DEF WhyFailed, Bystander, Idles
    <2> QED BY <1>0, <1>1, <1>2, <1>3, <2>1, <2>2, <2>3 DEF Progress, Bystander, Idles, Pending, Failed
<1>5. CASE t = s /\ j = i
    <2>1. Moves(s, i)
        BY DEF Local
    <2>2. status[s] # "idle" /\ s \in Participants(i)
        BY <1>1, <1>5, <2>1 DEF Moves, Materializes, GivesUp, Sends, Hears, FailsNow, Commits, Progress
    <2>3. CASE Materializes(s, i)
        <3>1. HasRead(s, i)'
            BY <2>2, <2>3, TxFacts DEF Materializes, HasRead, SpecInv, SpecType
        <3> QED BY <1>0, <1>1, <1>2, <1>5, <2>2, <2>3, <3>1 DEF Materializes, Progress, Pending
    <2>4. CASE GivesUp(s, i)
        BY <1>0, <1>1, <1>2, <1>3, <1>5, <2>2, <2>4 DEF GivesUp, Progress, Idles, Pending
    <2>5. CASE Sends(s, i)
        BY <1>0, <1>1, <1>2, <1>3, <1>5, <2>2, <2>5 DEF Sends, Progress, Idles, Pending
    <2>6. CASE Hears(s, i)
        BY <1>0, <1>1, <1>2, <1>5, <2>2, <2>6 DEF Hears, Progress, Pending
    <2>7. CASE FailsNow(s, i)
        <3>1. WhyFailed(s, i)'
            <4>1. CASE worker[s][i] = "send_status"
                <5>1. NeverReads(s, i)
                    BY <1>1, <1>5, <4>1 DEF Progress, NeverReads
                <5> QED BY <1>0, <1>2, <1>5, <2>2, <5>1 DEF WhyFailed
            <4>2. CASE \E m \in effect_mail[s][i] : m.status = "SpeculationFailed" /\ m.from \in Others(s, i)
                <5>1. PICK m \in effect_mail[s][i] : m.status = "SpeculationFailed" /\ m.from \in Others(s, i)
                    BY <4>2
                <5>2. NeverReads(m.from, i) /\ m.from \in Participants(i)
                    BY <1>1, <1>5, <5>1 DEF Knowledge, Truthful, Others
                <5> QED BY <1>0, <1>2, <1>5, <5>2 DEF WhyFailed
            <4>3. CASE ReadsAll(s, i) /\ ~OnPredictedPath(SpecResult(s, i))
                BY <1>3, <1>5, <2>7, <4>3 DEF FailsNow, WhyFailed
            <4> QED BY <2>7, <4>1, <4>2, <4>3 DEF FailsNow
        <3> QED BY <1>0, <1>5, <2>2, <2>7, <3>1 DEF FailsNow, Progress
    <2>8. CASE Commits(s, i)
        <3>1. WhyCommitted(s, i)'
            BY <1>0, <1>1, <1>2, <1>3, <1>5, <2>8 DEF Commits, WhyCommitted, Progress
        <3>2. Succeeded(s, i)'
            BY <2>8 DEF Commits, Succeeded
        <3> QED BY <1>0, <1>5, <2>2, <2>8, <3>1, <3>2 DEF Commits, Progress
    <2> QED BY <2>1, <2>3, <2>4, <2>5, <2>6, <2>7, <2>8 DEF Moves
<1> QED BY <1>4, <1>5

\* What is sent is true.
LEMMA MessageTruthful ==
    ASSUME SpecInv, NEW s \in Shards, NEW i \in Txs, Sending(s, i)
    PROVE  Truthful(i, Message(s, i))
<1>1. Progress(s, i) /\ Knowledge(s, i) /\ worker[s][i] \in {"send_reads", "send_status"}
    BY DEF SpecInv, Sending
<1>2. CASE worker[s][i] = "send_reads"
    BY <1>1, <1>2 DEF Message, Truthful, Progress, Knowledge
<1>3. CASE worker[s][i] = "send_status"
    BY <1>1, <1>3 DEF Message, Truthful, Progress, NeverReads
<1> QED BY <1>1, <1>2, <1>3

\* It stays true.
LEMMA TruthKept ==
    ASSUME SpecInv, NEW s \in Shards, NEW i \in Txs, Local(s, i), NEW j \in Txs, NEW m,
           Truthful(j, m)
    PROVE  Truthful(j, m)'
BY ReadsGrow, FromOwnerKept DEF Truthful

\* A worker step keeps the knowledge of every worker sound.
LEMMA KnowledgeStep ==
    ASSUME SpecInv, UNCHANGED <<batch, status>>, NEW s \in Shards, NEW i \in Txs, Local(s, i),
           NEW t \in Shards, NEW j \in Txs
    PROVE  Knowledge(t, j)'
<1>0. Knowledge(t, j)
    BY DEF SpecInv
<1>1. ASSUME NEW m \in effect_mail'[t][j] PROVE Truthful(j, m)'
    <2>1. Truthful(j, m)
        BY <1>0, MessageTruthful DEF Local, NewMail, Knowledge
    <2> QED BY <2>1, TruthKept
<1>2. heard'[t][j] = heard[t][j] => \A u \in heard'[t][j] : HasRead(u, j)'
    <2>1. heard[t][j] \subseteq Shards
        BY DEF SpecInv, SpecType
    <2> QED BY <1>0, <2>1, ReadsGrow DEF Knowledge
<1>3. effect_reads'[t][j] = effect_reads[t][j] =>
          IsMap(effect_reads[t][j])' /\ FromOwner(j, effect_reads[t][j])'
    <2>1. FromOwner(j, effect_reads[t][j])
        BY <1>0 DEF Knowledge
    <2>2. ASSUME effect_reads'[t][j] = effect_reads[t][j]
          PROVE  FromOwner(j, effect_reads[t][j])'
        <3> DEFINE r == effect_reads[t][j]
        <3>1. \A k \in DOMAIN r : k \in Keys /\ Owner[k] \in Shards
            BY <2>1, RouterAssumption DEF FromOwner
        <3> QED BY <2>1, <2>2, <3>1, ReadsGrow DEF FromOwner
    <2> QED BY <1>0, <2>2 DEF Knowledge, IsMap
<1>4. CASE t # s \/ j # i
    BY <1>1, <1>2, <1>3, <1>4 DEF Local, Bystander, Idles, Knowledge
<1>5. CASE t = s /\ j = i
    <2>1. Moves(s, i)
        BY DEF Local
    <2>2. CASE GivesUp(s, i) \/ Sends(s, i) \/ FailsNow(s, i) \/ Commits(s, i)
        BY <1>1, <1>2, <1>3, <1>5, <2>2 DEF GivesUp, Sends, FailsNow, Commits, Idles, Knowledge
    <2>3. CASE Materializes(s, i)
        <3>1. \A k \in LocalReadKeys(batch[i], s) : k \in Keys /\ Owner[k] = s
            BY TxFacts DEF SpecInv, SpecType, LocalReadKeys
        <3>2. FromOwner(i, effect_reads[s][i])'
            BY <2>3, <3>1 DEF Materializes, FromOwner
        <3> QED BY <1>1, <1>2, <1>5, <2>3, <3>2 DEF Materializes, Knowledge
    <2>4. CASE Hears(s, i)
        <3>1. PICK m \in effect_mail[s][i] :
                  /\ m.status # "SpeculationFailed" /\ m.from \in Others(s, i)
                  /\ heard'[s][i] = heard[s][i] \cup {m.from}
                  /\ effect_reads'[s][i] = MergeReads(effect_reads[s][i], m.reads)
            BY <2>4 DEF Hears
        <3>2. Truthful(i, m) /\ m.status = "Ok"
            BY <1>0, <1>5, <3>1 DEF Knowledge, Truthful
        <3>3. HasRead(m.from, i)' /\ FromOwner(i, m.reads)'
            BY <3>2, TruthKept DEF Truthful
        <3>4. \A u \in heard'[s][i] : HasRead(u, i)'
            <4>1. heard[s][i] \subseteq Shards /\ \A u \in heard[s][i] : HasRead(u, i)
                BY <1>0, <1>5 DEF SpecInv, SpecType, Knowledge
            <4> QED BY <3>1, <3>3, <4>1, ReadsGrow
        <3>5. IsMap(effect_reads[s][i])'
            BY <3>1 DEF IsMap, MergeReads
        <3>6. FromOwner(i, effect_reads[s][i])'
            <4> DEFINE old == effect_reads[s][i]
                       new == m.reads
            <4>1. /\ DOMAIN effect_reads'[s][i] = DOMAIN old \cup DOMAIN new
                  /\ \A k \in DOMAIN effect_reads'[s][i] :
                        effect_reads'[s][i][k] = IF k \in DOMAIN new THEN new[k] ELSE old[k]
                BY <3>1 DEF MergeReads
            <4>2. \A k \in DOMAIN old : /\ k \in Keys /\ k \in DOMAIN effect_reads'[Owner[k]][i]
                                        /\ old[k] = effect_reads'[Owner[k]][i][k]
                <5>1. FromOwner(i, old) /\ \A k \in Keys : Owner[k] \in Shards
                    BY <1>0, <1>5, RouterAssumption DEF Knowledge
                <5> QED BY <5>1, ReadsGrow DEF FromOwner
            <4>3. \A k \in DOMAIN new : /\ k \in Keys /\ k \in DOMAIN effect_reads'[Owner[k]][i]
                                        /\ new[k] = effect_reads'[Owner[k]][i][k]
                BY <3>3 DEF FromOwner
            <4> QED BY <4>1, <4>2, <4>3 DEF FromOwner
        <3> QED BY <1>1, <1>5, <3>4, <3>5, <3>6 DEF Knowledge
    <2> QED BY <2>1, <2>2, <2>3, <2>4 DEF Moves
<1> QED BY <1>4, <1>5

\* Every step of a worker keeps the invariant.
LEMMA WorkerKeepsSpec ==
    ASSUME SpecInv, NEW s \in Shards, NEW i \in Txs, Worker(s, i) \/ FailReadResult(s, i)
    PROVE  SpecInv'
<1>1. Local(s, i) /\ SpecType' /\ UNCHANGED <<batch, status>>
    BY WorkerIsLocal DEF SpecInv
<1>2. Txs' = Txs
    BY <1>1 DEF Txs
<1> QED BY <1>1, <1>2, ProgressStep, KnowledgeStep DEF SpecInv

-----------------------------------------------------------------------------
(* The coordinators and the fallback *)

\* ExecuteBatch reaches a shard, where no worker has moved before.
LEMMA StartKeepsSpec ==
    ASSUME SpecInv, NEW s \in Shards, StartBatch(s)
    PROVE  SpecInv'
<1>1. /\ status[s] = "idle"
      /\ status' = [status EXCEPT ![s] = "speculating"]
      /\ worker' = [worker EXCEPT ![s] =
            [i \in Txs |-> IF s \in Participants(i) THEN "ready" ELSE "none"]]
      /\ slot' = [slot EXCEPT ![s] =
            [i \in Txs |-> IF s \in Participants(i) THEN Pending ELSE NoOp]]
      /\ UNCHANGED <<batch, targets, effect_reads, heard, effect_mail>>
    BY DEF StartBatch, history, netVars
<1>2. Txs' = Txs /\ \A j \in Txs : Participants(j)' = Participants(j)
    BY <1>1 DEF Txs, Participants
<1>3. SpecType'
    <2>1. Grid(slot', Txs)
        BY <1>1 DEF SpecInv, SpecType, Grid
    <2>2. worker' \in [Shards -> [Txs -> WorkerStates]]
        BY <1>1 DEF SpecInv, SpecType, WorkerStates
    <2>3. status' \in [Shards -> {"idle", "speculating", "waiting", "running", "done", "failed"}]
        BY <1>1 DEF SpecInv, SpecType
    <2> QED BY <1>1, <1>2, <2>1, <2>2, <2>3 DEF SpecInv, SpecType
<1>4. \A j \in Txs : Progress(s, j) /\ worker[s][j] = "none" /\ slot[s][j] = Pending
    BY <1>1 DEF SpecInv, Progress
<1>5. \A t \in Shards, j \in Txs :
          /\ HasRead(t, j)' = HasRead(t, j)
          /\ NeverReads(t, j) => NeverReads(t, j)'
    <2>1. \A t \in Shards : t # s => worker'[t] = worker[t]
        BY <1>1 DEF SpecInv, SpecType
    <2> QED BY <1>1, <1>4, <2>1 DEF HasRead, NeverReads
<1>6. ASSUME NEW t \in Shards, NEW j \in Txs PROVE Knowledge(t, j)'
    <2>1. Knowledge(t, j) /\ heard[t][j] \subseteq Shards
        BY DEF SpecInv, SpecType
    <2>2. \A m \in effect_mail[t][j] : Truthful(j, m)'
        BY <1>1, <1>5, <2>1 DEF Knowledge, Truthful, FromOwner
    <2> QED BY <1>1, <1>5, <2>1, <2>2 DEF Knowledge, IsMap, FromOwner
<1>7. ASSUME NEW t \in Shards, NEW j \in Txs PROVE Progress(t, j)'
    <2>0. Progress(t, j) /\ Participants(j) \subseteq Shards
        BY TxFacts DEF SpecInv, SpecType
    <2>1. CASE t = s
        <3>1. /\ status'[s] = "speculating"
              /\ worker'[s][j] = IF s \in Participants(j) THEN "ready" ELSE "none"
              /\ slot'[s][j] = IF s \in Participants(j) THEN Pending ELSE NoOp
            BY <1>1 DEF SpecInv, SpecType, Grid
        <3> QED BY <1>2, <1>4, <1>5, <2>1, <3>1 DEF Progress, Pending
    <2>2. CASE t # s
        <3>1. worker'[t] = worker[t] /\ slot'[t] = slot[t] /\ status'[t] = status[t]
            BY <1>1, <2>2 DEF SpecInv, SpecType, Grid
        <3>2. MaxPred(j)' = MaxPred(j) /\ Others(t, j)' = Others(t, j)
            BY <1>1 DEF MaxPred, Preds, Others, Participants
        <3>3. \A m : Succeeded(t, m)' = Succeeded(t, m)
            BY <3>1 DEF Succeeded
        <3>4. PrefixSucceeded(t, j)' = PrefixSucceeded(t, j)
            BY <3>2, <3>3 DEF PrefixSucceeded
        <3>5. /\ ReadsAll(t, j)' = ReadsAll(t, j)
              /\ OnPredictedPath(SpecResult(t, j))' = OnPredictedPath(SpecResult(t, j))
            BY <1>1 DEF ReadsAll, SpecResult, OnPredictedPath
        <3>6. WhyCommitted(t, j) => WhyCommitted(t, j)'
            BY <1>1, <1>5, <3>2, <3>4, <3>5 DEF WhyCommitted
        <3>7. WhyFailed(t, j) => WhyFailed(t, j)'
            BY <1>2, <1>5, <2>0, <3>5 DEF WhyFailed
        <3> QED BY <1>2, <1>5, <2>0, <3>1, <3>3, <3>4, <3>6, <3>7 DEF Progress, Pending, Failed
    <2> QED BY <2>1, <2>2
<1> QED BY <1>2, <1>3, <1>6, <1>7 DEF SpecInv

\* Steps that move executors only.
LEMMA OnlyStatusKeepsSpec ==
    ASSUME SpecInv, UNCHANGED <<batch, slot, worker, targets, effect_reads, heard, effect_mail>>,
           status' \in [Shards -> {"idle", "speculating", "waiting", "running", "done", "failed"}],
           \A s \in Shards : status'[s] = "idle" => status[s] = "idle"
    PROVE  SpecInv'
<1>1. Txs' = Txs
    BY DEF Txs
<1>2. SpecType'
    BY <1>1 DEF SpecInv, SpecType
<1>3. ASSUME NEW t \in Shards, NEW j \in Txs PROVE Knowledge(t, j)'
    <2>1. Knowledge(t, j)
        BY DEF SpecInv
    <2>2. \A f : FromOwner(j, f)' = FromOwner(j, f)
        BY DEF FromOwner
    <2>3. \A u : HasRead(u, j)' = HasRead(u, j) /\ NeverReads(u, j)' = NeverReads(u, j)
        BY DEF HasRead, NeverReads
    <2>4. \A m : Truthful(j, m)' = Truthful(j, m)
        BY <2>2, <2>3 DEF Truthful
    <2> QED BY <2>1, <2>2, <2>3, <2>4 DEF Knowledge, IsMap, FromOwner
<1>4. ASSUME NEW t \in Shards, NEW j \in Txs PROVE Progress(t, j)'
    <2>1. MaxPred(j)' = MaxPred(j) /\ Others(t, j)' = Others(t, j) /\ Participants(j)' = Participants(j)
        BY DEF MaxPred, Preds, Others, Participants
    <2>2. PrefixSucceeded(t, j)' = PrefixSucceeded(t, j)
        BY <2>1 DEF PrefixSucceeded, Succeeded
    <2>3. /\ ReadsAll(t, j)' = ReadsAll(t, j) /\ HasRead(t, j)' = HasRead(t, j)
          /\ OnPredictedPath(SpecResult(t, j))' = OnPredictedPath(SpecResult(t, j))
          /\ \A u : NeverReads(u, j)' = NeverReads(u, j)
          /\ Succeeded(t, j)' = Succeeded(t, j)
        BY DEF ReadsAll, SpecResult, OnPredictedPath, HasRead, NeverReads, Succeeded
    <2>4. WhyCommitted(t, j)' = WhyCommitted(t, j) /\ WhyFailed(t, j)' = WhyFailed(t, j)
        BY <2>1, <2>2, <2>3 DEF WhyCommitted, WhyFailed
    <2>5. Progress(t, j)
        BY DEF SpecInv
    <2> QED BY <2>1, <2>2, <2>3, <2>4, <2>5 DEF Progress
<1> QED BY <1>1, <1>2, <1>3, <1>4 DEF SpecInv

\* A step of the fallback phase, or of one of its failing RPCs.
FallbackStep ==
    /\ UNCHANGED <<history, specVars>>
    /\ \/ Fallback!TaskStep
       \/ \E s \in Shards, i \in Txs : Fallback!FailReadResult(s, i)

\* How it moves the executor of a shard.
FallbackMoves(s) ==
    \/ status'[s] = status[s]
    \/ status[s] = "waiting" /\ status'[s] = "running"
    \/ status[s] = "running" /\ status'[s] \in {"done", "failed"}

\* How it moves a worker of the fallback: it is spawned for a failed transaction,
\* or moves on; and what a worker publishes as it ends.
FallbackWorker(s, i) ==
    /\ \/ pc'[s][i] = pc[s][i]
       \/ status[s] = "waiting" /\ status'[s] = "running" /\ i \in FailedIndices(s)
       \/ status[s] = "waiting" /\ pc'[s][i] = "none"
       \/ pc[s][i] \notin {"none", "ok", "err"} /\ pc'[s][i] # "none"
    /\ \/ results'[s][i] = results[s][i]
       \/ results'[s][i] \notin TxResult /\ s # result_shard(batch[i])
       \/ results'[s][i] \notin TxResult /\ results[s][i] = "absent"
       \/ s = result_shard(batch[i]) /\ pc[s][i] = "collect" /\ pc'[s][i] = "ok"

PcTable == [Shards -> [Txs -> {"none", "locks", "send", "collect", "ok", "err"}]]

\* Both phases publish a result on the same shard.
LEMMA FallbackResultShard ==
    ASSUME NEW i
    PROVE  Fallback!ResultShard(i) = result_shard(batch[i])
<1>1. \A op : Fallback!DeriveReadSet(op) = DeriveReadSet(op)
    BY DEF Fallback!DeriveReadSet, DeriveReadSet, Fallback!DegenerateRename, DegenerateRename,
           Fallback!Parent, Parent, Fallback!Root, Root
<1>2. \A op : Fallback!DeriveWriteSet(op) = DeriveWriteSet(op)
    BY <1>1 DEF Fallback!DeriveWriteSet, DeriveWriteSet
<1>3. \A S : Fallback!Min(S) = Min(S)
    BY DEF Fallback!Min, Min
<1>4. \A S : Fallback!OwnersOf(S) = OwnersOf(S)
    BY DEF Fallback!OwnersOf, OwnersOf
<1>5. Fallback!result_shard(batch[i]) = result_shard(batch[i])
    BY <1>1, <1>2, <1>3, <1>4 DEF Fallback!result_shard, result_shard,
           Fallback!ActiveParticipants, ActiveParticipants, Fallback!ReadOnlyCoordinator,
           ReadOnlyCoordinator, Fallback!ReadSet, ReadSet, Fallback!WriteSet, WriteSet
<1> QED BY <1>5 DEF Fallback!ResultShard

\* The fallback leaves the speculative phase as it is.
LEMMA FallbackEffect ==
    ASSUME SpecType, Grid(results, Txs), pc \in PcTable, FallbackStep
    PROVE  /\ UNCHANGED <<batch, slot, worker, targets, effect_reads, heard, effect_mail>>
           /\ status' \in [Shards -> {"idle", "speculating", "waiting", "running", "done", "failed"}]
           /\ Grid(results', Txs) /\ pc' \in PcTable
           /\ \A s \in Shards : FallbackMoves(s)
           /\ \A s \in Shards, i \in Txs : FallbackWorker(s, i)
<1>0. UNCHANGED <<batch, slot, worker, targets, effect_reads, heard, effect_mail>>
    BY DEF FallbackStep, history, specVars, workerVars
<1> DEFINE Effect == /\ status' \in [Shards -> {"idle", "speculating", "waiting", "running", "done", "failed"}]
                     /\ Grid(results', Txs) /\ pc' \in PcTable
                     /\ \A s \in Shards : FallbackMoves(s)
                     /\ \A s \in Shards, i \in Txs : FallbackWorker(s, i)
<1>1. ASSUME NEW s \in Shards, Fallback!StartBatch(s) PROVE Effect
    <2> DEFINE reg == [i \in Txs |-> IF i \in FailedIndices(s)
                          THEN IF result_shard(batch[i]) # s THEN "NotResponsible"
                               ELSE IF results[s][i] = "absent" THEN "Pending" ELSE results[s][i]
                          ELSE results[s][i]]
               spawn == [i \in Txs |-> IF Fallback!Relevant(s, i) THEN "locks" ELSE "none"]
    <2>0. \A i \in Txs : Fallback!Relevant(s, i) => i \in FailedIndices(s)
        BY DEF Fallback!Relevant, FallbackMembers
    <2>1. Fallback!RegisterResults(s) = reg
        BY FallbackResultShard
           DEF Fallback!RegisterResults, Fallback!Registered, FallbackMembers, Fallback!Txs, Txs
    <2>2. /\ status[s] = "waiting" /\ status' = [status EXCEPT ![s] = "running"]
          /\ pc' = [pc EXCEPT ![s] = spawn]
          /\ results' = [results EXCEPT ![s] = reg]
        BY <1>1, <2>1 DEF Fallback!StartBatch, Fallback!Txs, Txs
    <2> HIDE DEF reg
    <2>3. /\ status' \in [Shards -> {"idle", "speculating", "waiting", "running", "done", "failed"}]
          /\ pc' \in PcTable /\ \A t \in Shards : FallbackMoves(t)
          /\ status'[s] = "running"
          /\ \A i \in Txs : pc'[s][i] = "none" \/ i \in FailedIndices(s)
          /\ \A t \in Shards : t # s => pc'[t] = pc[t]
        BY <2>0, <2>2 DEF SpecType, PcTable, FallbackMoves
    <2>4. Grid(results', Txs) /\ results'[s] = reg /\ \A t \in Shards : t # s => results'[t] = results[t]
        BY <2>2 DEF Grid, reg
    <2>5. "NotResponsible" \notin TxResult /\ "Pending" \notin TxResult
        BY DEF TxResult
    <2>6. \A i \in Txs : FallbackWorker(s, i)
        BY <2>2, <2>3, <2>4, <2>5 DEF FallbackWorker, reg
    <2>7. \A t \in Shards, i \in Txs : t # s => FallbackWorker(t, i)
        BY <2>3, <2>4 DEF FallbackWorker
    <2> QED BY <2>3, <2>4, <2>6, <2>7
<1>2. ASSUME NEW s \in Shards, NEW i \in Txs, Fallback!CollectOutcome(s, i) PROVE Effect
    BY <1>2 DEF Fallback!CollectOutcome, Fallback!workVars, SpecType, FallbackMoves, FallbackWorker
<1>3. ASSUME NEW s \in Shards, Fallback!FinishBatch(s) PROVE Effect
    BY <1>3 DEF Fallback!FinishBatch, Fallback!workVars, SpecType, FallbackMoves, FallbackWorker
<1>4. ASSUME NEW s \in Shards, NEW i \in Txs,
             Fallback!Worker(s, i) \/ Fallback!FailReadResult(s, i)
      PROVE  Effect
    <2>1. /\ status' = status
          /\ pc[s][i] \notin {"none", "ok", "err"}
          /\ \/ pc' = pc
             \/ \E where \in {"send", "collect", "ok", "err"} : pc' = [pc EXCEPT ![s][i] = where]
          /\ \/ results' = results
             \/ /\ s = result_shard(batch[i]) /\ pc[s][i] = "collect"
                /\ pc' = [pc EXCEPT ![s][i] = "ok"]
                /\ \E r : results' = [results EXCEPT ![s][i] = r]
        <3>1. CASE Fallback!AcquireAndRead(s, i)
            <4>1. pc' = [pc EXCEPT ![s][i] = "send"] \/ pc' = [pc EXCEPT ![s][i] = "collect"]
                  \/ pc' = [pc EXCEPT ![s][i] = "ok"]
                BY <3>1 DEF Fallback!AcquireAndRead, Fallback!Goto, Fallback!AfterSend
            <4> QED BY <3>1, <4>1 DEF Fallback!AcquireAndRead, Fallback!shardVars
        <3>2. CASE Fallback!SendReadResult(s, i)
            <4>1. pc' = [pc EXCEPT ![s][i] = "send"] \/ pc' = [pc EXCEPT ![s][i] = "collect"]
                  \/ pc' = [pc EXCEPT ![s][i] = "ok"] \/ pc' = [pc EXCEPT ![s][i] = "err"]
                BY <3>2 DEF Fallback!SendReadResult, Fallback!Goto, Fallback!AfterSend
            <4> QED BY <3>2, <4>1 DEF Fallback!SendReadResult, Fallback!shardVars
        <3>3. CASE Fallback!CollectReadResult(s, i)
            BY <3>3 DEF Fallback!CollectReadResult, Fallback!Goto, Fallback!shardVars
        <3>4. CASE Fallback!ExecuteAndApply(s, i)
            BY <3>4, FallbackResultShard DEF Fallback!ExecuteAndApply, Fallback!Goto
        <3>5. CASE Fallback!OrphanFails(s, i)
            BY <3>5 DEF Fallback!OrphanFails, Fallback!Goto, Fallback!shardVars
        <3>6. CASE Fallback!FailReadResult(s, i)
            BY <3>6 DEF Fallback!FailReadResult, Fallback!Goto, Fallback!shardVars
        <3> QED BY <1>4, <3>1, <3>2, <3>3, <3>4, <3>5, <3>6 DEF Fallback!Worker
    <2>2. /\ pc' \in PcTable
          /\ \A t \in Shards, j \in Txs : (t # s \/ j # i) => pc'[t][j] = pc[t][j]
          /\ pc'[s][i] # "none"
        BY <2>1 DEF PcTable
    <2>3. /\ Grid(results', Txs)
          /\ \A t \in Shards, j \in Txs : (t # s \/ j # i) => results'[t][j] = results[t][j]
          /\ \/ results'[s][i] = results[s][i]
             \/ s = result_shard(batch[i]) /\ pc[s][i] = "collect" /\ pc'[s][i] = "ok"
        BY <2>1 DEF Grid, PcTable
    <2> QED BY <2>1, <2>2, <2>3 DEF SpecType, FallbackMoves, FallbackWorker
<1>5. \/ \E s \in Shards : Fallback!Coordinator(s)
      \/ \E s \in Shards, i \in Txs : Fallback!Worker(s, i) \/ Fallback!FailReadResult(s, i)
    BY DEF FallbackStep, Fallback!TaskStep, Fallback!Txs, Txs, Fallback!Shards, Shards
<1>6. (\E s \in Shards : Fallback!Coordinator(s)) => Effect
    <2> HIDE DEF Effect
    <2> QED BY <1>1, <1>2, <1>3 DEF Fallback!Coordinator, Fallback!Txs, Txs
<1> QED BY <1>0, <1>4, <1>5, <1>6

\* What is published stays as it is, in one step.
Final == \A s \in Shards, i \in Txs : results[s][i] \in TxResult => results'[s][i] = results[s][i]

\* The fallback publishes only where the speculation has failed.
LEMMA FallbackKeeps ==
    ASSUME SpecInv, PublishInv, FallbackStep
    PROVE  SpecInv' /\ PublishInv' /\ Final
<1>1. /\ UNCHANGED <<batch, slot, worker, targets, effect_reads, heard, effect_mail>>
      /\ status' \in [Shards -> {"idle", "speculating", "waiting", "running", "done", "failed"}]
      /\ Grid(results', Txs) /\ pc' \in PcTable
      /\ \A s \in Shards : FallbackMoves(s)
      /\ \A s \in Shards, i \in Txs : FallbackWorker(s, i)
    BY FallbackEffect DEF SpecInv, PublishInv, PcTable
<1>2. SpecInv'
    BY <1>1, OnlyStatusKeepsSpec DEF FallbackMoves
<1>3. ASSUME NEW s \in Shards, NEW i \in Txs
      PROVE  Publication(s, i)' /\ (results[s][i] \in TxResult => results'[s][i] = results[s][i])
    <2>1. Publication(s, i) /\ FallbackMoves(s) /\ FallbackWorker(s, i)
        BY <1>1, <1>3 DEF PublishInv
    <2>2. (i \in FailedIndices(s) => slot[s][i] = Failed) /\ "absent" \notin TxResult
        BY DEF FailedIndices, TxResult
    <2>3. slot[s][i] = Failed => ~Succeeded(s, i)
        BY DEF Succeeded, Failed
    <2>4. results[s][i] \in TxResult => results'[s][i] = results[s][i]
        BY <2>1, <2>2, <2>3 DEF Publication, FallbackWorker
    <2>5. (status'[s] \in {"idle", "speculating", "waiting"} => pc'[s][i] = "none")
        BY <2>1 DEF Publication, FallbackMoves, FallbackWorker
    <2>6. pc'[s][i] # "none" => slot[s][i] = Failed
        BY <2>1, <2>2 DEF Publication, FallbackWorker
    <2>7. results'[s][i] \in TxResult => /\ s = result_shard(batch[i])
                                         /\ \/ worker[s][i] = "ok" /\ Succeeded(s, i)
                                            \/ pc'[s][i] = "ok"
        BY <2>1, <2>2 DEF Publication, FallbackWorker
    <2>8. Succeeded(s, i)' = Succeeded(s, i)
        BY <1>1 DEF Succeeded
    <2> QED BY <1>1, <2>4, <2>5, <2>6, <2>7, <2>8 DEF Publication
<1>4. Txs' = Txs
    BY <1>1 DEF Txs
<1> QED BY <1>1, <1>2, <1>3, <1>4 DEF PublishInv, PcTable, Final

\* A worker publishes as it commits, and nobody else's result.
LEMMA WorkerPublishes ==
    ASSUME SpecType, Grid(results, Txs), NEW s \in Shards, NEW i \in Txs,
           Worker(s, i) \/ FailReadResult(s, i)
    PROVE  /\ Grid(results', Txs)
           /\ \A t \in Shards, j \in Txs : (t # s \/ j # i) => results'[t][j] = results[t][j]
           /\ \/ results'[s][i] = results[s][i]
              \/ worker[s][i] = "collect" /\ Commits(s, i) /\ s = result_shard(batch[i])
<1>1. CASE results' = results
    BY <1>1
<1>2. CASE results' # results
    <2>1. ExecuteAndCommit(s, i)
        BY <1>2 DEF Worker, FailReadResult, MaterializeReads, MaterializeFails, SendReadResult,
                    FailAfterStatus, CollectReadResult, OrphanFails, shardVars
    <2>2. /\ ReadsAll(s, i) /\ OnPredictedPath(SpecResult(s, i)) /\ s = result_shard(batch[i])
          /\ results' = [results EXCEPT ![s][i] = "Ok"] /\ worker[s][i] = "collect"
        BY <1>2, <2>1 DEF ExecuteAndCommit, ReadsAll, SpecResult
    <2> DEFINE d == LocalDelta(s, i, OutputToDelta(batch[i].op, effect_reads[s][i], SpecResult(s, i).writes))
    <2>3. /\ heard[s][i] = Others(s, i) /\ slot' = [slot EXCEPT ![s][i] = Committed(d)]
          /\ worker' = [worker EXCEPT ![s][i] = "ok"]
          /\ heard' = heard /\ effect_reads' = effect_reads
        BY <2>1, <2>2 DEF ExecuteAndCommit, ReadsAll, SpecResult, Goto
    <2> HIDE DEF d
    <2>4. Committed(d).state \in {"NoOp", "Delta"}
        BY DEF Committed, NoOp
    <2>5. worker'[s][i] = "ok" /\ slot'[s][i] = Committed(d)
        BY <2>3 DEF SpecType, Grid
    <2>6. Commits(s, i)
        BY <2>2, <2>3, <2>4, <2>5 DEF Commits
    <2> QED BY <2>2, <2>6 DEF Grid
<1> QED BY <1>1, <1>2

\* A worker publishes where nothing has been published.
LEMMA WorkerKeepsPublished ==
    ASSUME SpecInv, PublishInv, NEW s \in Shards, NEW i \in Txs,
           Worker(s, i) \/ FailReadResult(s, i), UNCHANGED fallbackVars
    PROVE  PublishInv' /\ Final
<1>1. Local(s, i) /\ UNCHANGED <<batch, status, pc>>
    BY WorkerIsLocal DEF SpecInv, fallbackVars
<1>2. /\ Grid(results', Txs)
      /\ \A t \in Shards, j \in Txs : (t # s \/ j # i) => results'[t][j] = results[t][j]
      /\ \/ results'[s][i] = results[s][i]
         \/ worker[s][i] = "collect" /\ Commits(s, i) /\ s = result_shard(batch[i])
    BY WorkerPublishes DEF SpecInv, PublishInv
<1>3. ASSUME NEW t \in Shards, NEW j \in Txs
      PROVE  Publication(t, j)' /\ (results[t][j] \in TxResult => results'[t][j] = results[t][j])
    <2>1. Publication(t, j) /\ Progress(t, j)
        BY DEF PublishInv, SpecInv
    <2>2. slot[t][j] # Pending => slot'[t][j] = slot[t][j]
        BY <1>1, SlotsFinal
    <2>3. Failed # Pending /\ Failed.state \notin {"NoOp", "Delta"} /\ Pending.state \notin {"NoOp", "Delta"}
        BY DEF Failed, Pending
    <2>4. CASE results'[t][j] = results[t][j]
        <3>1. worker[t][j] = "ok" => worker'[t][j] = "ok"
            <4>1. CASE t # s \/ j # i
                BY <1>1, <4>1 DEF Local, Bystander
            <4>2. CASE t = s /\ j = i
                BY <1>1, <4>2 DEF Local, Moves, Materializes, GivesUp, Sends, Hears, FailsNow, Commits
            <4> QED BY <4>1, <4>2
        <3>2. Succeeded(t, j) => Succeeded(t, j)'
            BY <2>2, <2>3 DEF Succeeded
        <3>3. pc[t][j] # "none" => slot'[t][j] = Failed
            BY <2>1, <2>2, <2>3 DEF Publication
        <3> QED BY <1>1, <2>1, <2>4, <3>1, <3>2, <3>3 DEF Publication
    <2>5. CASE results'[t][j] # results[t][j]
        <3>1. t = s /\ j = i /\ worker[s][i] = "collect" /\ Commits(s, i) /\ s = result_shard(batch[i])
            BY <1>2, <2>5
        <3>2. slot[t][j] = Pending
            BY <2>1, <3>1 DEF Progress
        <3>3. pc[t][j] = "none" /\ results[t][j] \notin TxResult
            BY <2>1, <2>3, <3>1, <3>2 DEF Publication
        <3>4. worker'[t][j] = "ok" /\ Succeeded(t, j)'
            BY <3>1 DEF Commits, Succeeded
        <3> QED BY <1>1, <3>1, <3>3, <3>4 DEF Publication
    <2> QED BY <2>4, <2>5
<1>4. Txs' = Txs
    BY <1>1 DEF Txs
<1> QED BY <1>1, <1>2, <1>3, <1>4 DEF PublishInv, Final

\* StartBatch registers results where none has been published.
LEMMA StartKeepsPublished ==
    ASSUME SpecInv, PublishInv, NEW s \in Shards, StartBatch(s), UNCHANGED fallbackVars
    PROVE  PublishInv' /\ Final
<1> DEFINE reg == [i \in Txs |-> IF result_shard(batch[i]) = s THEN "Pending" ELSE "NotResponsible"]
           sl == [i \in Txs |-> IF s \in Participants(i) THEN Pending ELSE NoOp]
           wk == [i \in Txs |-> IF s \in Participants(i) THEN "ready" ELSE "none"]
<1>1. /\ status[s] = "idle" /\ status' = [status EXCEPT ![s] = "speculating"]
      /\ results' = [results EXCEPT ![s] = reg] /\ UNCHANGED <<batch, pc>>
      /\ slot' = [slot EXCEPT ![s] = sl] /\ worker' = [worker EXCEPT ![s] = wk]
    BY DEF StartBatch, history, fallbackVars
<1> HIDE DEF sl, wk
<1>2. /\ Grid(results', Txs) /\ results'[s] = reg
      /\ \A t \in Shards : t # s => results'[t] = results[t] /\ slot'[t] = slot[t]
                                    /\ worker'[t] = worker[t] /\ status'[t] = status[t]
    BY <1>1 DEF Grid, PublishInv, SpecInv, SpecType
<1>3. \A i \in Txs : reg[i] \notin TxResult
    BY DEF TxResult
<1> HIDE DEF reg
<1>4. ASSUME NEW t \in Shards, NEW j \in Txs
      PROVE  Publication(t, j)' /\ (results[t][j] \in TxResult => results'[t][j] = results[t][j])
    <2>1. Publication(t, j) /\ Progress(t, j)
        BY DEF PublishInv, SpecInv
    <2>2. CASE t = s
        <3>1. pc[t][j] = "none" /\ results[t][j] \notin TxResult
            BY <1>1, <2>1, <2>2 DEF Publication, Progress
        <3> QED BY <1>1, <1>2, <1>3, <2>2, <3>1 DEF Publication
    <2>3. CASE t # s
        <3>1. Succeeded(t, j)' = Succeeded(t, j)
            BY <1>2, <2>3 DEF Succeeded
        <3> QED BY <1>1, <1>2, <2>1, <2>3, <3>1 DEF Publication
    <2> QED BY <2>2, <2>3
<1>5. Txs' = Txs
    BY <1>1 DEF Txs
<1> QED BY <1>1, <1>2, <1>4, <1>5 DEF PublishInv, Final

\* The coordinator takes an outcome, or installs.
LEMMA CoordinatorKeeps ==
    ASSUME SpecInv, PublishInv, NEW s \in Shards, UNCHANGED fallbackVars,
           Install(s) \/ \E i \in Txs : CollectOutcome(s, i)
    PROVE  SpecInv' /\ PublishInv' /\ Final
<1>1. /\ UNCHANGED <<batch, slot, worker, targets, effect_reads, heard, effect_mail, results, pc>>
      /\ status[s] = "speculating"
      /\ \/ status' = status
         \/ \E new \in {"done", "waiting", "failed"} : status' = [status EXCEPT ![s] = new]
    <2>1. CASE Install(s)
        BY <2>1 DEF Install, history, workerVars, netVars, fallbackVars
    <2>2. CASE \E i \in Txs : CollectOutcome(s, i)
        BY <2>2 DEF CollectOutcome, history, workerVars, netVars, fallbackVars
    <2> QED BY <2>1, <2>2
<1>2. /\ status' \in [Shards -> {"idle", "speculating", "waiting", "running", "done", "failed"}]
      /\ \A t \in Shards : status'[t] # status[t] =>
            status[t] = "speculating" /\ status'[t] \in {"done", "waiting", "failed"}
    BY <1>1 DEF SpecInv, SpecType
<1>3. SpecInv'
    BY <1>1, <1>2, OnlyStatusKeepsSpec
<1>4. ASSUME NEW t \in Shards, NEW j \in Txs PROVE Publication(t, j)'
    <2>1. Publication(t, j)
        BY DEF PublishInv
    <2>2. Succeeded(t, j)' = Succeeded(t, j)
        BY <1>1 DEF Succeeded
    <2> QED BY <1>1, <1>2, <2>1, <2>2 DEF Publication
<1>5. Txs' = Txs
    BY <1>1 DEF Txs
<1> QED BY <1>1, <1>3, <1>4, <1>5 DEF PublishInv, Final

\* Nothing has happened yet.
LEMMA SpecInit ==
    SchedulerInit => SpecInv /\ PublishInv
<1> SUFFICES ASSUME SchedulerInit PROVE SpecInv /\ PublishInv
    OBVIOUS
<1> USE DEF SchedulerInit, Init
<1>1. SpecType
    BY DEF SpecType, WorkerStates, Grid
<1>2. ASSUME NEW s \in Shards, NEW i \in Txs PROVE Progress(s, i) /\ Knowledge(s, i)
    <2>1. /\ status[s] = "idle" /\ worker[s][i] = "none" /\ slot[s][i] = Pending
          /\ effect_reads[s][i] = << >> /\ heard[s][i] = {} /\ effect_mail[s][i] = {}
        OBVIOUS
    <2>2. DOMAIN << >> = {} /\ << >> = [k \in {} |-> << >>[k]]
        OBVIOUS
    <2> QED BY <2>1, <2>2 DEF Progress, Knowledge, HasRead, IsMap, FromOwner
<1>3. PublishInv
    BY DEF PublishInv, Grid, Publication, TxResult
<1> QED BY <1>1, <1>2, <1>3 DEF SpecInv

\* Every step keeps the invariants, and what has been published.
LEMMA SpecStep ==
    SpecInv /\ PublishInv /\ [SchedulerNext]_allVars => SpecInv' /\ PublishInv' /\ Final
<1> SUFFICES ASSUME SpecInv, PublishInv, [SchedulerNext]_allVars
             PROVE  SpecInv' /\ PublishInv' /\ Final
    OBVIOUS
<1>1. CASE Speculate \/ \E s \in Shards, i \in Txs : FailReadResult(s, i) /\ UNCHANGED fallbackVars
    <2>1. UNCHANGED fallbackVars /\ \E s \in Shards :
             \/ StartBatch(s)
             \/ Install(s) \/ \E i \in Txs : CollectOutcome(s, i)
             \/ \E i \in Txs : Worker(s, i) \/ FailReadResult(s, i)
        BY <1>1 DEF Speculate, TaskStep, Coordinator
    <2>2. PICK s \in Shards :
             \/ StartBatch(s)
             \/ Install(s) \/ \E i \in Txs : CollectOutcome(s, i)
             \/ \E i \in Txs : Worker(s, i) \/ FailReadResult(s, i)
        BY <2>1
    <2>3. CASE StartBatch(s)
        BY <2>1, <2>3, StartKeepsSpec, StartKeepsPublished
    <2>4. CASE Install(s) \/ \E i \in Txs : CollectOutcome(s, i)
        BY <2>1, <2>4, CoordinatorKeeps
    <2>5. CASE \E i \in Txs : Worker(s, i) \/ FailReadResult(s, i)
        BY <2>1, <2>5, WorkerKeepsSpec, WorkerKeepsPublished
    <2> QED BY <2>2, <2>3, <2>4, <2>5
<1>2. CASE FallbackStep
    BY <1>2, FallbackKeeps
<1>3. CASE UNCHANGED allVars
    <2>1. UNCHANGED <<batch, slot, worker, targets, effect_reads, heard, effect_mail, results, pc, status>>
        BY <1>3 DEF allVars, vars, fallbackVars, history, shardVars, workerVars, netVars
    <2>2. SpecInv'
        BY <2>1, OnlyStatusKeepsSpec DEF SpecInv, SpecType
    <2>3. \A t, j : Publication(t, j)' = Publication(t, j)
        BY <2>1 DEF Publication, Succeeded
    <2>4. Txs' = Txs
        BY <2>1 DEF Txs
    <2> QED BY <2>1, <2>2, <2>3, <2>4 DEF PublishInv, Final
<1>4. FallBack => FallbackStep
    BY DEF FallBack, FallbackStep
<1>5. ASSUME RpcFails
      PROVE  FallbackStep \/ \E s \in Shards, i \in Txs : FailReadResult(s, i) /\ UNCHANGED fallbackVars
    BY <1>5 DEF RpcFails, FallbackStep
<1> QED BY <1>1, <1>2, <1>3, <1>4, <1>5 DEF SchedulerNext

-----------------------------------------------------------------------------
(* What follows *)

\* The invariants hold in every execution.
LEMMA SpecInvariant == SchedulerSpec => [](SpecInv /\ PublishInv)
    BY SpecInit, SpecStep, PTL DEF SchedulerSpec

\* Two participants that both have all reads of a transaction have the same.
LEMMA SameReads ==
    ASSUME SpecInv, NEW i \in Txs, NEW s \in Shards, NEW t \in Shards, ReadsAll(s, i), ReadsAll(t, i)
    PROVE  SpecResult(s, i) = SpecResult(t, i)
<1>1. /\ IsMap(effect_reads[s][i]) /\ FromOwner(i, effect_reads[s][i])
      /\ IsMap(effect_reads[t][i]) /\ FromOwner(i, effect_reads[t][i])
    BY DEF SpecInv, Knowledge
<1>2. \A k \in ReadSet(batch[i]) : effect_reads[s][i][k] = effect_reads[t][i][k]
    BY <1>1 DEF FromOwner, ReadsAll
<1>3. effect_reads[s][i] = effect_reads[t][i]
    BY <1>1, <1>2 DEF ReadsAll, IsMap
<1> QED BY <1>3 DEF SpecResult

\* The participants of a transaction agree in every state of the invariant.
LEMMA Agreement == SpecInv => SpeculationAgrees
<1> SUFFICES ASSUME SpecInv, NEW i \in Txs, NEW s \in Participants(i), NEW t \in Participants(i),
                    Succeeded(s, i), slot[t][i] = Failed
             PROVE  FALSE
    BY DEF SpeculationAgrees
<1>1. s \in Shards /\ t \in Shards /\ Participants(i) \subseteq Shards
    BY TxFacts DEF SpecInv, SpecType
<1>2. Progress(s, i) /\ Progress(t, i) /\ Knowledge(s, i)
    BY <1>1 DEF SpecInv
<1>3. worker[s][i] \in WorkerStates /\ worker[t][i] \in WorkerStates
    BY <1>1 DEF SpecInv, SpecType
<1>4. slot[s][i] # Pending /\ slot[t][i] # Pending /\ ~Succeeded(t, i) /\ slot[s][i] # Failed
    BY DEF Succeeded, Pending, Failed
<1>5. worker[s][i] = "ok" /\ worker[t][i] = "ok"
    BY <1>2, <1>3, <1>4 DEF Progress, WorkerStates
<1>6. WhyCommitted(s, i) /\ WhyFailed(t, i)
    BY <1>2, <1>4, <1>5 DEF Progress
<1>7. \A u \in Participants(i) : HasRead(u, i)
    BY <1>2, <1>6 DEF WhyCommitted, Knowledge, Others
<1>8. ReadsAll(t, i) /\ ~OnPredictedPath(SpecResult(t, i))
    BY <1>6, <1>7 DEF WhyFailed, NeverReads
<1> QED BY <1>1, <1>6, <1>8, SameReads DEF WhyCommitted

\* The participants of a transaction agree on whether its speculation succeeded,
\* whatever RPCs fail: the code decides it on every one of them separately
\* (commit_success and fail of SccWorker).
THEOREM SpeculationAgreesAlways == SchedulerSpec => []SpeculationAgrees
    BY Agreement, SpecInvariant, PTL

\* A failure reaches whatever depends on it, in however many steps.
THEOREM FailurePropagatesAlways == SchedulerSpec => []FailurePropagates
<1>1. SpecInv => FailurePropagates
    <2> SUFFICES ASSUME SpecInv, NEW s \in Shards, NEW i \in Txs, s \in Participants(i),
                        NEW j \in ReachableFrom(i), slot[s][j] = Failed, Succeeded(s, i)
                 PROVE  FALSE
        BY DEF FailurePropagates, FailedIndices
    <2>1. Progress(s, i) /\ worker[s][i] \in WorkerStates
        BY DEF SpecInv, SpecType
    <2>2. slot[s][i] # Pending /\ slot[s][i] # Failed
        BY DEF Succeeded, Pending, Failed
    <2>3. WhyCommitted(s, i)
        BY <2>1, <2>2 DEF Progress, WorkerStates
    <2>4. j \in 1 .. MaxPred(i)
        BY ReachableIsPrefix DEF SpecInv, SpecType
    <2>5. Succeeded(s, j)
        BY <2>3, <2>4 DEF WhyCommitted, PrefixSucceeded
    <2> QED BY <2>5 DEF Succeeded, Failed
<1> QED BY <1>1, SpecInvariant, PTL

-----------------------------------------------------------------------------
(* What the commit slots of a shard describe *)

\* What shard s holds of a state.
Part(st, s) == [k \in Keys |-> IF Owner[k] = s THEN st[k] ELSE Missing]

\* The inode at key k on shard s according to the first n commit slots there.
Value(s, k, n) == ApplySlots(s, Part(start, s), Len(batch))[n][k]

\* The slots act on every inode by itself.
ActAt(s, base, L, k) ==
    /\ ApplySlots(s, base, L)[0][k] = base[k]
    /\ \A m \in 1 .. L : ApplySlots(s, base, L)[m][k] =
          DeltaAt(ApplySlots(s, base, L)[m - 1][k], slot[s][m].delta, k)

LEMMA SlotsAt ==
    ASSUME NEW s, NEW base, IsMap(base), NEW L \in Nat, NEW k \in DOMAIN base
    PROVE  ActAt(s, base, L, k)
<1> DEFINE run == ApplySlots(s, base, L)
           d(m) == FilterDeltaToKeys(slot[s][m].delta, DOMAIN base)
<1>1. run[0] = base /\ \A m \in 1 .. L : run[m] = ApplyDelta(run[m - 1], d(m))
    BY ApplySlotsSteps
<1>2. \A m \in 0 .. L : DOMAIN run[m] = DOMAIN base
    BY ApplySlotsDomain
<1> HIDE DEF run
<1>3. ASSUME NEW m \in 1 .. L PROVE run[m][k] = DeltaAt(run[m - 1][k], slot[s][m].delta, k)
    <2>1. DOMAIN run[m - 1] = DOMAIN base
        BY <1>2
    <2>2. /\ k \in DOMAIN d(m) <=> k \in DOMAIN slot[s][m].delta
          /\ k \in DOMAIN d(m) => d(m)[k] = slot[s][m].delta[k]
        BY DEF FilterDeltaToKeys
    <2> HIDE DEF d
    <2>3. run[m][k] = DeltaAt(run[m - 1][k], d(m), k)
        BY <1>1, <2>1 DEF ApplyDelta, DeltaAt
    <2> QED BY <2>2, <2>3 DEF DeltaAt
<1> QED BY <1>1, <1>3 DEF run, ActAt

\* Reading some keys and then applying the slots, as materialized_local_read
\* does, gives what applying them to the store would give there.
LEMMA SlotsRestrict ==
    ASSUME NEW s, NEW base, IsMap(base), NEW L \in Nat, NEW part, IsMap(part), NEW n \in 0 .. L,
           NEW k \in DOMAIN base, k \in DOMAIN part, part[k] = base[k]
    PROVE  \A m \in 0 .. n : ApplySlots(s, part, n)[m][k] = ApplySlots(s, base, L)[m][k]
<1> DEFINE f == ApplySlots(s, base, L)
           g == ApplySlots(s, part, n)
           bad == {m \in 0 .. n : g[m][k] # f[m][k]}
<1>0. n \in Nat
    OBVIOUS
<1>1. f[0][k] = base[k] /\ \A m \in 1 .. L : f[m][k] = DeltaAt(f[m - 1][k], slot[s][m].delta, k)
    BY SlotsAt DEF ActAt
<1>2. g[0][k] = part[k] /\ \A m \in 1 .. n : g[m][k] = DeltaAt(g[m - 1][k], slot[s][m].delta, k)
    <2>1. k \in DOMAIN part
        OBVIOUS
    <2>2. ActAt(s, part, n, k)
        BY <1>0, <2>1, SlotsAt
    <2> QED BY <2>2 DEF ActAt
<1> HIDE DEF f, g
<1>3. SUFFICES ASSUME bad # {} PROVE FALSE
    BY DEF f, g
<1>4. PICK m \in bad : \A y \in bad : m <= y
    <2>1. bad \subseteq Nat
        OBVIOUS
    <2> QED BY <1>3, <2>1, NatMin
<1>5. m \in 1 .. n /\ m \in 1 .. L /\ m - 1 \in 0 .. n /\ m - 1 \notin bad
    <2>1. m \in 0 .. n /\ m # 0
        BY <1>1, <1>2
    <2> HIDE DEF bad
    <2> QED BY <1>4, <2>1
<1>6. g[m - 1][k] = f[m - 1][k]
    BY <1>5
<1>7. g[m][k] = f[m][k]
    BY <1>1, <1>2, <1>5, <1>6
<1> QED BY <1>4, <1>7

\* How the value of an inode develops along the slots.
ValueChain ==
    \A s \in Shards, k \in Keys :
        /\ Value(s, k, 0) = Part(start, s)[k]
        /\ \A m \in 1 .. Len(batch) : Value(s, k, m) = DeltaAt(Value(s, k, m - 1), slot[s][m].delta, k)

LEMMA ValueSteps == batch \in Batches => ValueChain
<1> SUFFICES ASSUME batch \in Batches, NEW s \in Shards, NEW k \in Keys
             PROVE  /\ Value(s, k, 0) = Part(start, s)[k]
                    /\ \A m \in 1 .. Len(batch) :
                          Value(s, k, m) = DeltaAt(Value(s, k, m - 1), slot[s][m].delta, k)
    BY DEF ValueChain
<1> DEFINE base == Part(start, s)
           L == Len(batch)
<1>1. L \in Nat
    BY SccAssumption
<1>2. IsMap(base) /\ k \in DOMAIN base
    BY DEF Part, IsMap
<1> HIDE DEF base, L
<1>3. ActAt(s, base, L, k)
    BY <1>1, <1>2, SlotsAt
<1> QED BY <1>3 DEF ActAt, Value, base, L

\* Where the slots are as they were, so are the values.
LEMMA ValueKept ==
    ASSUME batch \in Batches, UNCHANGED <<batch, start>>, NEW s \in Shards, NEW n \in 0 .. Len(batch),
           \A m \in 1 .. n : slot'[s][m].delta = slot[s][m].delta, NEW k \in Keys
    PROVE  \A m \in 0 .. n : Value(s, k, m)' = Value(s, k, m)
<1> DEFINE bad == {m \in 0 .. n : Value(s, k, m)' # Value(s, k, m)}
<1>0. Len(batch) \in Nat /\ Len(batch)' = Len(batch) /\ batch' \in Batches
    BY SccAssumption
<1>1. /\ Value(s, k, 0) = Part(start, s)[k]
      /\ \A m \in 1 .. Len(batch) : Value(s, k, m) = DeltaAt(Value(s, k, m - 1), slot[s][m].delta, k)
    BY ValueSteps DEF ValueChain
<1>2. (batch \in Batches)' => ValueChain'
    BY ValueSteps, PTL
<1>3. /\ Value(s, k, 0)' = Part(start, s)[k]
      /\ \A m \in 1 .. Len(batch) : Value(s, k, m)' = DeltaAt(Value(s, k, m - 1)', slot'[s][m].delta, k)
    BY <1>0, <1>2 DEF Part, ValueChain
<1> SUFFICES ASSUME bad # {} PROVE FALSE
    OBVIOUS
<1>4. PICK m \in bad : \A y \in bad : m <= y
    <2>1. bad \subseteq Nat
        OBVIOUS
    <2> QED BY <2>1, NatMin
<1>5. m \in 1 .. n /\ m \in 1 .. Len(batch) /\ m - 1 \in 0 .. n /\ m - 1 \notin bad
    <2>1. m \in 0 .. n /\ m # 0
        BY <1>1, <1>3
    <2> HIDE DEF bad
    <2> QED BY <1>0, <1>4, <2>1
<1>6. Value(s, k, m - 1)' = Value(s, k, m - 1)
    BY <1>5
<1>7. Value(s, k, m)' = Value(s, k, m)
    BY <1>1, <1>3, <1>5, <1>6
<1> QED BY <1>4, <1>7

-----------------------------------------------------------------------------
(* Slots, reads and stores *)

\* The part of the delta of worker i that shard s installs.
OwnDelta(s, i) ==
    LocalDelta(s, i, OutputToDelta(batch[i].op, effect_reads[s][i], SpecResult(s, i).writes))

\* The local reads of a worker are what the slots up to its last predecessor
\* describe.
ReadsValues(s, i) ==
    \A k \in LocalReadKeys(batch[i], s) :
        k \in DOMAIN effect_reads[s][i] /\ effect_reads[s][i][k] = Value(s, k, MaxPred(i))

Slots(s, i) ==
    /\ slot[s][i] \in {Pending, Failed} \/ Succeeded(s, i)
    /\ s \notin Participants(i) => slot[s][i] \in {Pending, NoOp}
    /\ s \in Participants(i) /\ Succeeded(s, i) => slot[s][i].delta = OwnDelta(s, i)
    /\ i \in finished[s] => slot[s][i] # Pending
    /\ HasRead(s, i) => s \in Participants(i) /\ PrefixSucceeded(s, i) /\ ReadsValues(s, i)

AllSet(s)    == \A i \in Txs : slot[s][i] # Pending
FallsBack(s) == \E i \in Txs : pc[s][i] # "none"
Installed(s) == status[s] = "waiting" \/ (status[s] = "done" /\ FailedIndices(s) = {})

\* The store changes when the slots are installed, and later only in the
\* fallback, which has transactions to execute.
Stores(s) ==
    /\ ~AllSet(s) \/ status[s] \in {"idle", "speculating"} => store[s] = Part(start, s)
    /\ status[s] \in {"waiting", "running", "done"} \/ FallsBack(s) => AllSet(s)
    /\ status[s] \in {"waiting", "running"} => FailedIndices(s) # {}
    /\ Installed(s) => \A k \in Keys : store[s][k] = Value(s, k, Len(batch))

SlotInv ==
    /\ start \in InitialStates
    /\ DOMAIN store = Shards
    /\ finished \in [Shards -> SUBSET Txs]
    /\ \A s \in Shards, i \in Txs : Slots(s, i)
    /\ \A s \in Shards : Stores(s)

\* What a worker step does to the data: the reads it makes, the slot it fills.
LEMMA WorkerData ==
    ASSUME SpecInv, NEW s \in Shards, NEW i \in Txs, Worker(s, i) \/ FailReadResult(s, i)
    PROVE  /\ UNCHANGED <<start, store, finished>>
           /\ \/ HasRead(s, i)
              \/ effect_reads'[s][i] = effect_reads[s][i]
              \/ effect_reads'[s][i] = ApplySlots(s, BaseReads(s, i), MaxPred(i))[MaxPred(i)]
           /\ \/ slot'[s][i] = slot[s][i]
              \/ slot'[s][i] = Failed
              \/ slot'[s][i] = Committed(OwnDelta(s, i)) /\ effect_reads' = effect_reads
<1>0. Grid(slot, Txs) /\ Grid(effect_reads, Txs) /\ Progress(s, i)
    BY DEF SpecInv, SpecType
<1>1. CASE MaterializeReads(s, i)
    <2>1. UNCHANGED <<start, store, finished, slot>>
        BY <1>1 DEF MaterializeReads, history, shardVars
    <2>2. CASE effect_reads' = effect_reads
        BY <2>1, <2>2
    <2>3. CASE effect_reads' # effect_reads
        <3> DEFINE r == ApplySlots(s, BaseReads(s, i), MaxPred(i))[MaxPred(i)]
        <3>1. effect_reads' = [effect_reads EXCEPT ![s][i] = r]
            BY <1>1, <2>3 DEF MaterializeReads
        <3> HIDE DEF r
        <3>2. effect_reads'[s][i] = r
            BY <1>0, <3>1 DEF Grid
        <3> QED BY <2>1, <3>2 DEF r
    <2> QED BY <2>2, <2>3
<1>2. CASE MaterializeFails(s, i) \/ SendReadResult(s, i) \/ FailReadResult(s, i) \/ OrphanFails(s, i)
    BY <1>2 DEF MaterializeFails, SendReadResult, FailReadResult, OrphanFails, history, shardVars
<1>3. CASE FailAfterStatus(s, i)
    <2>1. UNCHANGED <<start, store, finished, effect_reads>> /\ slot' = [slot EXCEPT ![s][i] = Failed]
        BY <1>3 DEF FailAfterStatus, Fail, history, shardVars
    <2> QED BY <1>0, <2>1 DEF Grid
<1>4. CASE CollectReadResult(s, i)
    <2>1. /\ UNCHANGED <<start, store, finished>>
          /\ slot' = slot \/ slot' = [slot EXCEPT ![s][i] = Failed]
          /\ worker[s][i] = "collect"
        BY <1>4 DEF CollectReadResult, Fail, history, shardVars
    <2>2. HasRead(s, i)
        BY <1>0, <2>1 DEF Progress
    <2> QED BY <1>0, <2>1, <2>2 DEF Grid
<1>5. CASE ExecuteAndCommit(s, i)
    <2>1. /\ UNCHANGED <<start, store, finished, effect_reads>>
          /\ \/ slot' = slot \/ slot' = [slot EXCEPT ![s][i] = Failed]
             \/ slot' = [slot EXCEPT ![s][i] = Committed(OwnDelta(s, i))]
        BY <1>5 DEF ExecuteAndCommit, Fail, history, OwnDelta, SpecResult
    <2> DEFINE c == Committed(OwnDelta(s, i))
    <2> HIDE DEF c
    <2>2. slot' = [slot EXCEPT ![s][i] = c] => slot'[s][i] = c
        BY <1>0 DEF Grid
    <2> QED BY <1>0, <2>1, <2>2 DEF Grid, c
<1> QED BY <1>1, <1>2, <1>3, <1>4, <1>5 DEF Worker

\* Materialised reads are what the slots say.
LEMMA MaterializeValues ==
    ASSUME SpecInv, SlotInv, NEW s \in Shards, NEW i \in Txs, store[s] = Part(start, s),
           NEW k \in LocalReadKeys(batch[i], s)
    PROVE  ApplySlots(s, BaseReads(s, i), MaxPred(i))[MaxPred(i)][k] = Value(s, k, MaxPred(i))
<1> DEFINE base == Part(start, s)
           part == BaseReads(s, i)
           n == MaxPred(i)
           L == Len(batch)
<1>1. L \in Nat /\ n \in 0 .. L /\ n \in 0 .. n /\ k \in Keys
    <2>1. batch \in Batches
        BY DEF SpecInv, SpecType
    <2>2. /\ Txs = 1 .. Len(batch) /\ Len(batch) \in Nat
          /\ LocalReadKeys(batch[i], s) \subseteq Keys
        BY <2>1, TxFacts
    <2>3. i \in Nat /\ MaxPred(i) \in 0 .. i - 1
        BY <2>1, PredFacts
    <2> QED BY <2>2, <2>3
<1>2. /\ IsMap(base) /\ k \in DOMAIN base /\ IsMap(part) /\ k \in DOMAIN part /\ part[k] = base[k]
    BY <1>1 DEF IsMap, Part, BaseReads
<1> HIDE DEF base, part, n, L
<1>3. \A m \in 0 .. n : ApplySlots(s, part, n)[m][k] = ApplySlots(s, base, L)[m][k]
    BY <1>1, <1>2, SlotsRestrict
<1> QED BY <1>1, <1>3 DEF Value, base, part, n, L

\* Who moves is a participant with a slot that is not set.
LEMMA MoverIsPending ==
    ASSUME SpecInv, NEW s \in Shards, NEW i \in Txs, Local(s, i)
    PROVE  s \in Participants(i) /\ slot[s][i] = Pending
<1>1. Progress(s, i) /\ Moves(s, i)
    BY DEF SpecInv, Local
<1> QED BY <1>1 DEF Moves, Materializes, GivesUp, Sends, Hears, FailsNow, Commits, Progress

\* A worker step leaves the values that anyone has read, or installed, as they
\* are.
LEMMA ReadValuesKept ==
    ASSUME SpecInv, UNCHANGED <<batch, start>>, NEW s \in Shards, NEW i \in Txs, Local(s, i),
           NEW t \in Shards
    PROVE  /\ \A j \in Txs : PrefixSucceeded(t, j) =>
                 \A k \in Keys : Value(t, k, MaxPred(j))' = Value(t, k, MaxPred(j))
           /\ AllSet(t) => \A k \in Keys : Value(t, k, Len(batch))' = Value(t, k, Len(batch))
<1>1. batch \in Batches
    BY DEF SpecInv, SpecType
<1>2. \A m \in Txs : slot[t][m] # Pending => slot'[t][m] = slot[t][m]
    BY SlotsFinal
<1>3. \A m \in Txs : Succeeded(t, m) => slot[t][m] # Pending
    BY DEF Succeeded, Pending
<1>4. ASSUME NEW j \in Txs, PrefixSucceeded(t, j), NEW k \in Keys
      PROVE  Value(t, k, MaxPred(j))' = Value(t, k, MaxPred(j))
    <2> DEFINE n == MaxPred(j)
    <2>1. Txs = 1 .. Len(batch) /\ Len(batch) \in Nat
        BY <1>1, TxFacts
    <2>2. j \in Nat /\ n \in 0 .. j - 1
        BY <1>1, PredFacts
    <2>3. \A m \in 1 .. n : Succeeded(t, m)
        BY <1>4 DEF PrefixSucceeded
    <2> HIDE DEF n
    <2>4. n \in 0 .. Len(batch) /\ n \in 0 .. n /\ \A m \in 1 .. n : m \in Txs
        BY <2>1, <2>2
    <2>5. \A m \in 1 .. n : slot'[t][m].delta = slot[t][m].delta
        BY <1>2, <1>3, <2>3, <2>4
    <2>6. \A m \in 0 .. n : Value(t, k, m)' = Value(t, k, m)
        BY <1>1, <2>4, <2>5, ValueKept
    <2>7. MaxPred(j)' = n
        BY DEF MaxPred, Preds, n
    <2> QED BY <2>4, <2>6, <2>7 DEF n
<1>5. ASSUME AllSet(t), NEW k \in Keys
      PROVE  Value(t, k, Len(batch))' = Value(t, k, Len(batch))
    <2> DEFINE L == Len(batch)
    <2>1. Txs = 1 .. L /\ L \in Nat
        BY <1>1, SccAssumption DEF Txs
    <2>2. \A m \in 1 .. L : slot'[t][m].delta = slot[t][m].delta
        BY <1>2, <1>5, <2>1 DEF AllSet
    <2>3. L \in 0 .. L /\ L' = L
        BY <2>1
    <2>4. \A m \in 0 .. L : Value(t, k, m)' = Value(t, k, m)
        BY <1>1, <2>2, <2>3, ValueKept
    <2> QED BY <2>3, <2>4
<1> QED BY <1>4, <1>5

\* A worker step keeps the account of the slots and the reads.
LEMMA WorkerKeepsSlots ==
    ASSUME SpecInv, SlotInv, NEW s \in Shards, NEW i \in Txs, Worker(s, i) \/ FailReadResult(s, i),
           NEW t \in Shards, NEW j \in Txs
    PROVE  Slots(t, j)'
<1>1. Local(s, i) /\ UNCHANGED <<batch, status>> /\ batch \in Batches
    BY WorkerIsLocal DEF SpecInv, SpecType
<1>2. /\ UNCHANGED <<start, store, finished>>
      /\ \/ HasRead(s, i)
         \/ effect_reads'[s][i] = effect_reads[s][i]
         \/ effect_reads'[s][i] = ApplySlots(s, BaseReads(s, i), MaxPred(i))[MaxPred(i)]
      /\ \/ slot'[s][i] = slot[s][i]
         \/ slot'[s][i] = Failed
         \/ slot'[s][i] = Committed(OwnDelta(s, i)) /\ effect_reads' = effect_reads
    BY WorkerData
<1>3. s \in Participants(i) /\ slot[s][i] = Pending
    BY <1>1, MoverIsPending
<1>4. Slots(t, j) /\ Progress(t, j) /\ Stores(t)
    BY DEF SlotInv, SpecInv
<1>5. /\ Participants(j)' = Participants(j) /\ MaxPred(j)' = MaxPred(j)
      /\ LocalReadKeys(batch[j], t)' = LocalReadKeys(batch[j], t)
      /\ LocalReadKeys(batch[j], t) \subseteq Keys
    <2>1. LocalReadKeys(batch[j], t) \subseteq ReadSet(batch[j]) /\ ReadSet(batch[j]) \subseteq Keys
        BY <1>1, TxFacts
    <2> QED BY <1>1, <2>1 DEF Participants, MaxPred, Preds
<1>6. /\ PrefixSucceeded(t, j) => PrefixSucceeded(t, j)'
      /\ PrefixSucceeded(t, j) => \A k \in Keys : Value(t, k, MaxPred(j))' = Value(t, k, MaxPred(j))
    BY <1>1, <1>2, SuccessFinal, ReadValuesKept
<1>7. /\ \A k \in DOMAIN effect_reads[t][j] : /\ k \in DOMAIN effect_reads'[t][j]
                                              /\ effect_reads'[t][j][k] = effect_reads[t][j][k]
      /\ HasRead(t, j) => HasRead(t, j)'
    BY <1>1, ReadsGrow
<1>8. HasRead(t, j) => (PrefixSucceeded(t, j) /\ ReadsValues(t, j))'
    <2> SUFFICES ASSUME HasRead(t, j) PROVE (PrefixSucceeded(t, j) /\ ReadsValues(t, j))'
        OBVIOUS
    <2>1. PrefixSucceeded(t, j) /\ ReadsValues(t, j)
        BY <1>4 DEF Slots
    <2>2. \A k \in LocalReadKeys(batch[j], t) :
              /\ k \in DOMAIN effect_reads'[t][j]
              /\ effect_reads'[t][j][k] = Value(t, k, MaxPred(j))'
        BY <1>5, <1>6, <1>7, <2>1 DEF ReadsValues
    <2> QED BY <1>5, <1>6, <2>1, <2>2 DEF ReadsValues
<1>9. CASE t # s \/ j # i
    <2>1. Bystander(t, j)
        BY <1>1, <1>9 DEF Local
    <2>2. /\ slot'[t][j] = slot[t][j] /\ effect_reads'[t][j] = effect_reads[t][j]
          /\ Succeeded(t, j)' = Succeeded(t, j) /\ OwnDelta(t, j)' = OwnDelta(t, j)
          /\ HasRead(t, j)' = HasRead(t, j)
        BY <1>1, <2>1 DEF Bystander, Idles, Succeeded, OwnDelta, LocalDelta, SpecResult, HasRead
    <2> QED BY <1>2, <1>4, <1>5, <1>8, <2>2 DEF Slots
<1>10. CASE t = s /\ j = i
    <2>1. slot'[s][i] \in {Pending, Failed} \/ (Succeeded(s, i)' /\ slot'[s][i].delta = OwnDelta(s, i)')
        <3>1. CASE slot'[s][i] \in {slot[s][i], Failed}
            BY <1>3, <3>1
        <3>2. CASE slot'[s][i] = Committed(OwnDelta(s, i)) /\ effect_reads' = effect_reads
            <4> DEFINE d == OwnDelta(s, i)
            <4>1. OwnDelta(s, i)' = d
                BY <1>1, <3>2 DEF OwnDelta, LocalDelta, SpecResult
            <4> HIDE DEF d
            <4>2. Committed(d).state \in {"NoOp", "Delta"} /\ Committed(d).delta = d
                BY DEF Committed, NoOp
            <4> QED BY <3>2, <4>1, <4>2 DEF Succeeded, d
        <3> QED BY <1>2, <3>1, <3>2
    <2>2. slot'[s][i] \in {Pending, Failed} => ~Succeeded(s, i)'
        BY DEF Succeeded, Pending, Failed
    <2>3. HasRead(s, i)' => (PrefixSucceeded(s, i) /\ ReadsValues(s, i))'
        <3>1. CASE HasRead(s, i)
            BY <1>8, <1>10, <3>1
        <3>2. CASE ~HasRead(s, i)
            <4> SUFFICES ASSUME HasRead(s, i)' PROVE (PrefixSucceeded(s, i) /\ ReadsValues(s, i))'
                OBVIOUS
            <4> DEFINE r == ApplySlots(s, BaseReads(s, i), MaxPred(i))[MaxPred(i)]
            <4>1. effect_reads'[s][i] = r /\ effect_reads'[s][i] # effect_reads[s][i]
                BY <1>2, <3>2 DEF HasRead
            <4> HIDE DEF r
            <4>2. Materializes(s, i)
                <5>1. Progress(s, i) /\ Moves(s, i)
                    BY <1>1 DEF SpecInv, Local
                <5>2. ~Hears(s, i)
                    BY <3>2, <5>1 DEF Hears, Progress
                <5> QED BY <4>1, <5>1, <5>2 DEF Moves, GivesUp, Sends, FailsNow, Commits, Idles
            <4>3. PrefixSucceeded(s, i) /\ DOMAIN r = LocalReadKeys(batch[i], s)
                BY <4>1, <4>2 DEF Materializes
            <4>4. store[s] = Part(start, s)
                BY <1>3, <1>4, <1>10 DEF Stores, AllSet
            <4>5. \A k \in LocalReadKeys(batch[i], s) : r[k] = Value(s, k, MaxPred(i))
                BY <4>4, MaterializeValues DEF r
            <4>6. \A k \in LocalReadKeys(batch[i], s) : r[k] = Value(s, k, MaxPred(i))'
                BY <1>5, <1>6, <1>10, <4>3, <4>5
            <4> QED BY <1>5, <1>6, <1>10, <4>1, <4>3, <4>6 DEF ReadsValues
        <3> QED BY <3>1, <3>2
    <2>4. i \notin finished'[s]
        BY <1>2, <1>3, <1>4, <1>10 DEF Slots
    <2> QED BY <1>3, <1>5, <1>10, <2>1, <2>2, <2>3, <2>4 DEF Slots
<1> QED BY <1>9, <1>10

\* A worker step keeps the account of the stores.
LEMMA WorkerKeepsStores ==
    ASSUME SpecInv, SlotInv, NEW s \in Shards, NEW i \in Txs, Worker(s, i) \/ FailReadResult(s, i),
           pc' = pc, NEW t \in Shards
    PROVE  Stores(t)'
<1>1. Local(s, i) /\ UNCHANGED <<batch, status, start, store>> /\ batch \in Batches
    BY WorkerIsLocal, WorkerData DEF SpecInv, SpecType
<1>2. \A m \in Txs : slot[t][m] # Pending => slot'[t][m] = slot[t][m]
    BY <1>1, SlotsFinal
<1>3. /\ AllSet(t) => AllSet(t)' /\ FailedIndices(t)' = FailedIndices(t)
      /\ FailedIndices(t) \subseteq FailedIndices(t)'
      /\ FallsBack(t)' = FallsBack(t) /\ Txs' = Txs
    BY <1>1, <1>2 DEF AllSet, FailedIndices, FallsBack, Txs, Failed, Pending
<1>4. AllSet(t) => \A k \in Keys : Value(t, k, Len(batch))' = Value(t, k, Len(batch))
    BY <1>1, ReadValuesKept
<1>5. Stores(t)
    BY DEF SlotInv
<1>6. Installed(t)' => Installed(t) /\ AllSet(t)
    BY <1>1, <1>3, <1>5 DEF Installed, Stores
<1> QED BY <1>1, <1>3, <1>4, <1>5, <1>6 DEF Stores, Part

\* Where the commit sequence stays as it is, so do the accounts of it.
LEMMA SlotsAsBefore ==
    ASSUME SpecInv, UNCHANGED <<batch, start>>, NEW t \in Shards,
           slot'[t] = slot[t], effect_reads'[t] = effect_reads[t]
    PROVE  /\ \A k \in Keys : \A n \in 0 .. Len(batch) : Value(t, k, n)' = Value(t, k, n)
           /\ Len(batch)' = Len(batch) /\ AllSet(t)' = AllSet(t) /\ FailedIndices(t)' = FailedIndices(t)
           /\ \A j \in Txs : /\ Succeeded(t, j)' = Succeeded(t, j) /\ OwnDelta(t, j)' = OwnDelta(t, j)
                             /\ HasRead(t, j)' = HasRead(t, j)
                             /\ Participants(j)' = Participants(j)
                             /\ PrefixSucceeded(t, j)' = PrefixSucceeded(t, j)
                             /\ ReadsValues(t, j) => ReadsValues(t, j)'
<1>1. batch \in Batches
    BY DEF SpecInv, SpecType
<1>2. \A k \in Keys : \A n \in 0 .. Len(batch) : Value(t, k, n)' = Value(t, k, n)
    <2> DEFINE L == Len(batch)
    <2>1. L \in Nat /\ L \in 0 .. L
        BY <1>1, SccAssumption
    <2> QED BY <1>1, <2>1, ValueKept
<1>3. /\ Len(batch)' = Len(batch) /\ AllSet(t)' = AllSet(t) /\ FailedIndices(t)' = FailedIndices(t)
    BY DEF AllSet, FailedIndices, Txs
<1>4. ASSUME NEW j \in Txs
      PROVE  /\ Succeeded(t, j)' = Succeeded(t, j) /\ OwnDelta(t, j)' = OwnDelta(t, j)
             /\ HasRead(t, j)' = HasRead(t, j)
             /\ Participants(j)' = Participants(j)
             /\ PrefixSucceeded(t, j)' = PrefixSucceeded(t, j)
             /\ ReadsValues(t, j) => ReadsValues(t, j)'
    <2>1. MaxPred(j)' = MaxPred(j) /\ LocalReadKeys(batch[j], t)' = LocalReadKeys(batch[j], t)
        BY DEF MaxPred, Preds
    <2>2. MaxPred(j) \in 0 .. Len(batch)
        <3>1. Txs = 1 .. Len(batch) /\ Len(batch) \in Nat
            BY <1>1, TxFacts
        <3>2. j \in Nat /\ MaxPred(j) \in 0 .. j - 1
            BY <1>1, PredFacts
        <3> QED BY <3>1, <3>2
    <2>3. LocalReadKeys(batch[j], t) \subseteq ReadSet(batch[j]) /\ ReadSet(batch[j]) \subseteq Keys
        BY <1>1, TxFacts
    <2>4. ReadsValues(t, j) => ReadsValues(t, j)'
        BY <1>2, <2>1, <2>2, <2>3 DEF ReadsValues
    <2> QED BY <2>1, <2>4 DEF Succeeded, OwnDelta, LocalDelta, SpecResult, HasRead, Participants, PrefixSucceeded
<1> QED BY <1>2, <1>3, <1>4

\* ExecuteBatch reaches a shard.
LEMMA StartKeepsSlots ==
    ASSUME SpecInv, PublishInv, SlotInv, NEW s \in Shards, StartBatch(s), pc' = pc
    PROVE  SlotInv'
<1> DEFINE sl == [i \in Txs |-> IF s \in Participants(i) THEN Pending ELSE NoOp]
           fin == {i \in Txs : s \notin Participants(i)}
<1>1. /\ status[s] = "idle" /\ status' = [status EXCEPT ![s] = "speculating"]
      /\ slot' = [slot EXCEPT ![s] = sl]
      /\ finished' = [finished EXCEPT ![s] = fin]
      /\ UNCHANGED <<batch, start, store, effect_reads>>
    BY DEF StartBatch, history
<1>2. fin \subseteq Txs
    OBVIOUS
<1> HIDE DEF sl, fin
<1>3. /\ slot'[s] = sl /\ finished'[s] = fin /\ status'[s] = "speculating"
      /\ finished' \in [Shards -> SUBSET Txs]
      /\ \A t \in Shards : t # s => slot'[t] = slot[t] /\ finished'[t] = finished[t] /\ status'[t] = status[t]
    BY <1>1, <1>2 DEF SpecInv, SpecType, SlotInv, Grid
<1>4. Txs' = Txs /\ \A j \in Txs : Participants(j)' = Participants(j)
    BY <1>1 DEF Txs, Participants
<1>5. ASSUME NEW j \in Txs PROVE Slots(s, j)'
    <2>1. Progress(s, j)
        BY DEF SpecInv
    <2>2. ~HasRead(s, j)'
        BY <1>1, <2>1 DEF Progress, HasRead
    <2>3. /\ slot'[s][j] = IF s \in Participants(j) THEN Pending ELSE NoOp
          /\ j \in fin <=> s \notin Participants(j)
        BY <1>3 DEF sl, fin
    <2>4. Pending # NoOp /\ Pending.state \notin {"NoOp", "Delta"} /\ NoOp.state \in {"NoOp", "Delta"}
        BY DEF Pending, NoOp
    <2> QED BY <1>3, <1>4, <2>2, <2>3, <2>4 DEF Slots, Succeeded
<1>6. Stores(s)'
    <2>1. Stores(s) /\ \A i \in Txs : pc[s][i] = "none"
        BY <1>1 DEF SlotInv, PublishInv, Publication
    <2> QED BY <1>1, <1>3, <1>4, <2>1 DEF Stores, Installed, FallsBack, Part
<1>7. ASSUME NEW t \in Shards, t # s PROVE Stores(t)' /\ \A j \in Txs : Slots(t, j)'
    <2>1. Stores(t) /\ \A j \in Txs : Slots(t, j)
        BY DEF SlotInv
    <2>2. slot'[t] = slot[t] /\ effect_reads'[t] = effect_reads[t] /\ finished'[t] = finished[t] /\ status'[t] = status[t]
        BY <1>1, <1>3, <1>7
    <2>3. FallsBack(t)' = FallsBack(t) /\ Part(start, t)' = Part(start, t) /\ Installed(t)' = Installed(t)
        BY <1>1, <1>4, <2>2, SlotsAsBefore DEF FallsBack, Part, Installed
    <2>4. Len(batch) \in 0 .. Len(batch)
        BY SccAssumption DEF SpecInv, SpecType
    <2>5. Stores(t)'
        BY <1>1, <2>1, <2>2, <2>3, <2>4, SlotsAsBefore DEF Stores
    <2>6. \A j \in Txs : Slots(t, j)'
        BY <1>1, <2>1, <2>2, SlotsAsBefore DEF Slots
    <2> QED BY <2>5, <2>6
<1> QED BY <1>1, <1>3, <1>4, <1>5, <1>6, <1>7 DEF SlotInv

\* Steps that leave the commit sequences alone: what they do to the executors,
\* the outcomes that have been taken and the stores.
LEMMA OthersKeepSlots ==
    ASSUME SpecInv, SlotInv, UNCHANGED <<batch, start, slot, effect_reads>>,
           finished' \in [Shards -> SUBSET Txs], DOMAIN store' = Shards,
           \A t \in Shards, j \in Txs : j \in finished'[t] => slot[t][j] # Pending,
           \A t \in Shards :
              /\ ~AllSet(t) \/ status'[t] \in {"idle", "speculating"} => store'[t] = Part(start, t)
              /\ status'[t] \in {"waiting", "running", "done"} \/ FallsBack(t)' => AllSet(t)
              /\ status'[t] \in {"waiting", "running"} => FailedIndices(t) # {}
              /\ status'[t] = "waiting" \/ (status'[t] = "done" /\ FailedIndices(t) = {}) =>
                    \A k \in Keys : store'[t][k] = Value(t, k, Len(batch))
    PROVE  SlotInv'
<1>1. Txs' = Txs
    BY DEF Txs
<1>2. ASSUME NEW t \in Shards PROVE Stores(t)' /\ \A j \in Txs : Slots(t, j)'
    <2>1. slot'[t] = slot[t] /\ effect_reads'[t] = effect_reads[t] /\ \A j \in Txs : Slots(t, j)
        BY DEF SlotInv
    <2>2. Len(batch) \in 0 .. Len(batch)
        BY SccAssumption DEF SpecInv, SpecType
    <2>3. /\ Part(start, t)' = Part(start, t)
          /\ Installed(t)' <=> status'[t] = "waiting" \/ (status'[t] = "done" /\ FailedIndices(t) = {})
        BY <2>1, SlotsAsBefore DEF Part, Installed
    <2>4. Stores(t)'
        BY <2>1, <2>2, <2>3, SlotsAsBefore DEF Stores
    <2>5. \A j \in Txs : Slots(t, j)'
        BY <2>1, SlotsAsBefore DEF Slots
    <2> QED BY <2>4, <2>5
<1> QED BY <1>1, <1>2 DEF SlotInv

\* One outcome is taken.
LEMMA CollectKeepsSlots ==
    ASSUME SpecInv, SlotInv, NEW s \in Shards, NEW i \in Txs, CollectOutcome(s, i), pc' = pc
    PROVE  SlotInv'
<1>1. /\ UNCHANGED <<batch, start, slot, effect_reads, store>>
      /\ status[s] = "speculating" /\ worker[s][i] \in {"ok", "err"}
      /\ \/ worker[s][i] = "err" /\ status' = [status EXCEPT ![s] = "failed"] /\ finished' = finished
         \/ /\ worker[s][i] # "err" /\ status' = status
            /\ finished' = [finished EXCEPT ![s] = finished[s] \cup {i}]
    BY DEF CollectOutcome, Ended, history, workerVars
<1>2. worker[s][i] # "err" => slot[s][i] # Pending
    <2>1. Progress(s, i)
        BY DEF SpecInv
    <2> QED BY <1>1, <2>1 DEF Progress, Succeeded, Pending, Failed
<1>3. /\ finished' \in [Shards -> SUBSET Txs]
      /\ \A t \in Shards, j \in Txs : j \in finished'[t] =>
            j \in finished[t] \/ (t = s /\ j = i /\ worker[s][i] # "err")
      /\ \A t \in Shards : status'[t] = status[t] \/ (t = s /\ status'[t] = "failed")
    <2>0. /\ finished \in [Shards -> SUBSET Txs]
          /\ status \in [Shards -> {"idle", "speculating", "waiting", "running", "done", "failed"}]
        BY DEF SlotInv, SpecInv, SpecType
    <2>1. CASE worker[s][i] = "err"
        BY <1>1, <2>0, <2>1
    <2>2. CASE worker[s][i] # "err"
        <3>1. /\ finished' = [finished EXCEPT ![s] = finished[s] \cup {i}] /\ status' = status
              /\ finished[s] \cup {i} \in SUBSET Txs
            BY <1>1, <2>0, <2>2
        <3> QED BY <2>0, <2>2, <3>1
    <2> QED BY <2>1, <2>2
<1>4. \A t \in Shards, j \in Txs : j \in finished'[t] => slot[t][j] # Pending
    BY <1>2, <1>3 DEF SlotInv, Slots
<1>5. \A t \in Shards : Stores(t) /\ FallsBack(t)' = FallsBack(t)
    BY <1>1 DEF SlotInv, FallsBack, Txs
<1>6. DOMAIN store' = Shards
    BY <1>1 DEF SlotInv
<1>7. ASSUME NEW t \in Shards
      PROVE  /\ ~AllSet(t) \/ status'[t] \in {"idle", "speculating"} => store'[t] = Part(start, t)
             /\ status'[t] \in {"waiting", "running", "done"} \/ FallsBack(t)' => AllSet(t)
             /\ status'[t] \in {"waiting", "running"} => FailedIndices(t) # {}
             /\ status'[t] = "waiting" \/ (status'[t] = "done" /\ FailedIndices(t) = {}) =>
                   \A k \in Keys : store'[t][k] = Value(t, k, Len(batch))
    BY <1>1, <1>3, <1>5 DEF Stores, Installed
<1> QED BY <1>1, <1>3, <1>4, <1>6, <1>7, OthersKeepSlots

\* The slots are installed.
LEMMA InstallKeepsSlots ==
    ASSUME SpecInv, PublishInv, SlotInv, NEW s \in Shards, Install(s), pc' = pc
    PROVE  SlotInv'
<1> DEFINE L == Len(batch)
           bad == Inapplicable(s, store[s], L)
           run == ApplySlots(s, store[s], L)
<1>1. /\ UNCHANGED <<batch, start, slot, effect_reads, finished>>
      /\ status[s] = "speculating" /\ finished[s] = Txs
      /\ \/ /\ store' = [store EXCEPT ![s] = run[L]]
            /\ \/ status' = [status EXCEPT ![s] = "done"] /\ FailedIndices(s) = {}
               \/ status' = [status EXCEPT ![s] = "waiting"] /\ FailedIndices(s) # {}
         \/ /\ store' = [store EXCEPT ![s] = run[Min(bad) - 1]]
            /\ status' = [status EXCEPT ![s] = "failed"]
    BY DEF Install, history, workerVars
<1>2. AllSet(s)
    BY <1>1 DEF SlotInv, Slots, AllSet
<1>3. Stores(s) /\ store[s] = Part(start, s)
    BY <1>1 DEF SlotInv, Stores
<1>4. \A k \in Keys : run[L][k] = Value(s, k, L)
    BY <1>3 DEF Value
<1> HIDE DEF run, bad
<1>5. /\ DOMAIN store' = Shards /\ \A t \in Shards : t # s => store'[t] = store[t] /\ status'[t] = status[t]
      /\ status'[s] \in {"done", "waiting", "failed"}
      /\ status'[s] # "failed" => store'[s] = run[L]
      /\ status'[s] = "waiting" => FailedIndices(s) # {}
    BY <1>1 DEF SlotInv, SpecInv, SpecType
<1>6. ASSUME NEW t \in Shards
      PROVE  /\ ~AllSet(t) \/ status'[t] \in {"idle", "speculating"} => store'[t] = Part(start, t)
             /\ status'[t] \in {"waiting", "running", "done"} \/ FallsBack(t)' => AllSet(t)
             /\ status'[t] \in {"waiting", "running"} => FailedIndices(t) # {}
             /\ status'[t] = "waiting" \/ (status'[t] = "done" /\ FailedIndices(t) = {}) =>
                   \A k \in Keys : store'[t][k] = Value(t, k, Len(batch))
    <2>1. Stores(t) /\ FallsBack(t)' = FallsBack(t)
        BY <1>1 DEF SlotInv, FallsBack, Txs
    <2>2. CASE t = s
        BY <1>2, <1>4, <1>5, <2>2
    <2>3. CASE t # s
        BY <1>5, <2>1, <2>3 DEF Stores, Installed
    <2> QED BY <2>2, <2>3
<1>7. \A t \in Shards, j \in Txs : j \in finished'[t] => slot[t][j] # Pending
    BY <1>1 DEF SlotInv, Slots
<1>8. finished' \in [Shards -> SUBSET Txs]
    BY <1>1 DEF SlotInv
<1> QED BY <1>1, <1>5, <1>6, <1>7, <1>8, OthersKeepSlots

\* The fallback changes the store of a shard where a worker of it executes.
LEMMA FallbackStores ==
    ASSUME DOMAIN store = Shards, FallbackStep
    PROVE  /\ DOMAIN store' = Shards /\ UNCHANGED <<start, finished>>
           /\ \A t \in Shards : store'[t] = store[t] \/ \E i \in Txs : pc[t][i] = "collect"
<1>1. UNCHANGED <<start, finished>>
    BY DEF FallbackStep, history, specVars
<1>2. ASSUME NEW s \in Shards, Fallback!Coordinator(s) PROVE store' = store
    BY <1>2 DEF Fallback!Coordinator, Fallback!StartBatch, Fallback!CollectOutcome, Fallback!FinishBatch
<1>3. ASSUME NEW s \in Shards, NEW i \in Txs, Fallback!Worker(s, i) \/ Fallback!FailReadResult(s, i)
      PROVE  \/ store' = store
             \/ pc[s][i] = "collect" /\ \E st : store' = [store EXCEPT ![s] = st]
    BY <1>3 DEF Fallback!Worker, Fallback!FailReadResult, Fallback!AcquireAndRead,
            Fallback!SendReadResult, Fallback!CollectReadResult, Fallback!ExecuteAndApply,
            Fallback!OrphanFails, Fallback!shardVars
<1>4. \/ \E s \in Shards : Fallback!Coordinator(s)
      \/ \E s \in Shards, i \in Txs : Fallback!Worker(s, i) \/ Fallback!FailReadResult(s, i)
    BY DEF FallbackStep, Fallback!TaskStep, Fallback!Txs, Txs, Fallback!Shards, Shards
<1> QED BY <1>1, <1>2, <1>3, <1>4

\* The fallback begins where everything is installed.
LEMMA FallbackKeepsSlots ==
    ASSUME SpecInv, PublishInv, SlotInv, FallbackStep
    PROVE  SlotInv'
<1>1. /\ UNCHANGED <<batch, slot, effect_reads>>
      /\ \A s \in Shards : FallbackMoves(s)
      /\ \A s \in Shards, i \in Txs : FallbackWorker(s, i)
    BY FallbackEffect DEF SpecInv, PublishInv, PcTable
<1>2. /\ DOMAIN store' = Shards /\ UNCHANGED <<start, finished>>
      /\ \A t \in Shards : store'[t] = store[t] \/ \E i \in Txs : pc[t][i] = "collect"
    BY FallbackStores DEF SlotInv
<1>3. ASSUME NEW t \in Shards
      PROVE  /\ ~AllSet(t) \/ status'[t] \in {"idle", "speculating"} => store'[t] = Part(start, t)
             /\ status'[t] \in {"waiting", "running", "done"} \/ FallsBack(t)' => AllSet(t)
             /\ status'[t] \in {"waiting", "running"} => FailedIndices(t) # {}
             /\ status'[t] = "waiting" \/ (status'[t] = "done" /\ FailedIndices(t) = {}) =>
                   \A k \in Keys : store'[t][k] = Value(t, k, Len(batch))
    <2>1. Stores(t) /\ FallbackMoves(t) /\ \A i \in Txs : FallbackWorker(t, i) /\ Publication(t, i)
        BY <1>1 DEF SlotInv, PublishInv
    <2>2. ~FallsBack(t) => store'[t] = store[t]
        BY <1>2 DEF FallsBack
    <2>3. FallsBack(t)' => FallsBack(t) \/ status[t] = "waiting"
        <3>1. \A i \in Txs : pc'[t][i] # "none" => pc[t][i] # "none" \/ status[t] = "waiting"
            BY <2>1 DEF FallbackWorker
        <3> QED BY <1>1, <3>1 DEF FallsBack, Txs
    <2>4. status[t] \in {"idle", "speculating", "waiting"} => ~FallsBack(t)
        BY <2>1 DEF Publication, FallsBack
    <2>5. FailedIndices(t) = {} => ~FallsBack(t)
        BY <2>1 DEF Publication, FallsBack, FailedIndices
    <2> QED BY <2>1, <2>2, <2>3, <2>4, <2>5 DEF Stores, FallbackMoves, Installed
<1>4. \A t \in Shards, j \in Txs : j \in finished'[t] => slot[t][j] # Pending
    BY <1>2 DEF SlotInv, Slots
<1>5. finished' \in [Shards -> SUBSET Txs]
    BY <1>2 DEF SlotInv
<1> QED BY <1>1, <1>2, <1>3, <1>4, <1>5, OthersKeepSlots

\* Nothing is set, read or installed yet.
LEMMA SlotsInit == SchedulerInit => SlotInv
<1> SUFFICES ASSUME SchedulerInit PROVE SlotInv
    OBVIOUS
<1> USE DEF SchedulerInit, Init
<1>1. ASSUME NEW s \in Shards, NEW i \in Txs PROVE Slots(s, i)
    <2>1. slot[s][i] = Pending /\ finished[s] = {} /\ effect_reads[s][i] = << >>
        OBVIOUS
    <2>2. Pending.state \notin {"NoOp", "Delta"} /\ DOMAIN << >> = {}
        BY DEF Pending
    <2> QED BY <2>1, <2>2 DEF Slots, Succeeded, HasRead
<1>2. ASSUME NEW s \in Shards PROVE Stores(s)
    <2>1. store[s] = Part(start, s) /\ status[s] = "idle" /\ \A i \in Txs : pc[s][i] = "none"
        BY DEF Part
    <2> QED BY <2>1 DEF Stores, Installed, FallsBack
<1> QED BY <1>1, <1>2 DEF SlotInv

\* Every step keeps the account of slots, reads and stores.
LEMMA SlotsStep == SpecInv /\ PublishInv /\ SlotInv /\ [SchedulerNext]_allVars => SlotInv'
<1> SUFFICES ASSUME SpecInv, PublishInv, SlotInv, [SchedulerNext]_allVars PROVE SlotInv'
    OBVIOUS
<1>1. ASSUME NEW s \in Shards, NEW i \in Txs, Worker(s, i) \/ FailReadResult(s, i), UNCHANGED fallbackVars
      PROVE  SlotInv'
    <2>1. UNCHANGED <<batch, start, store, finished, pc>> /\ Txs' = Txs
        BY <1>1, WorkerData, WorkerIsLocal DEF SpecInv, fallbackVars, Txs
    <2> QED BY <1>1, <2>1, WorkerKeepsSlots, WorkerKeepsStores DEF SlotInv
<1>2. ASSUME NEW s \in Shards, Coordinator(s), UNCHANGED fallbackVars PROVE SlotInv'
    BY <1>2, StartKeepsSlots, CollectKeepsSlots, InstallKeepsSlots DEF Coordinator, fallbackVars
<1>3. CASE FallbackStep
    BY <1>3, FallbackKeepsSlots
<1>4. CASE UNCHANGED allVars
    <2>1. UNCHANGED <<batch, start, slot, effect_reads, status, store, finished, pc>>
        BY <1>4 DEF allVars, vars, fallbackVars, history, shardVars, workerVars
    <2>2. finished' \in [Shards -> SUBSET Txs] /\ DOMAIN store' = Shards
        BY <2>1 DEF SlotInv
    <2>3. \A t \in Shards, j \in Txs : j \in finished'[t] => slot[t][j] # Pending
        BY <2>1 DEF SlotInv, Slots
    <2>4. \A t \in Shards : FallsBack(t)' = FallsBack(t) /\ Stores(t)
        BY <2>1 DEF SlotInv, FallsBack, Txs
    <2>5. ASSUME NEW t \in Shards
          PROVE  /\ ~AllSet(t) \/ status'[t] \in {"idle", "speculating"} => store'[t] = Part(start, t)
                 /\ status'[t] \in {"waiting", "running", "done"} \/ FallsBack(t)' => AllSet(t)
                 /\ status'[t] \in {"waiting", "running"} => FailedIndices(t) # {}
                 /\ status'[t] = "waiting" \/ (status'[t] = "done" /\ FailedIndices(t) = {}) =>
                       \A k \in Keys : store'[t][k] = Value(t, k, Len(batch))
        BY <2>1, <2>4 DEF Stores, Installed
    <2> QED BY <2>1, <2>2, <2>3, <2>5, OthersKeepSlots
<1>5. FallBack => FallbackStep
    BY DEF FallBack, FallbackStep
<1>6. RpcFails => FallbackStep \/ \E s \in Shards, i \in Txs : FailReadResult(s, i) /\ UNCHANGED fallbackVars
    BY DEF RpcFails, FallbackStep
<1> QED BY <1>1, <1>2, <1>3, <1>4, <1>5, <1>6 DEF SchedulerNext, Speculate, TaskStep

-----------------------------------------------------------------------------
(* Commit slots and serial executions *)

\* The batches find trees with exact counts, and no rename moves a directory
\* below itself: exec_rename lets that through (NamespaceRename.cfg), and the
\* tables of SccSemantics rely on counts that say which directories are empty.
OnTrees ==
    /\ \A st \in InitialStates : IsTree(st)
    /\ \A b \in Batches : \A i \in DOMAIN b : SafeRename(b[i].op)

\* The serial execution of the transactions in S.
Run(S) == ExecuteIndices(start, batch, S)

\* Shard t and S agree on which of the first n transactions took place.
Decides(S, t, n) == \A m \in 1 .. n : t \in Participants(m) => (m \in S <=> Succeeded(t, m))

\* A shard that agrees with S has the slots to show for it.
Describes(S, n) ==
    \A t \in Shards : Decides(S, t, n) =>
        \A k \in Keys : Owner[k] = t => Run(S)[n][k] = Value(t, k, n)

\* Along with a transaction that has committed, S has what it waited for.
Closed(S) ==
    \A m \in S \cap Txs : \A t \in Participants(m) : Succeeded(t, m) =>
        \A u \in Participants(m) : \A j \in 1 .. MaxPred(m) : u \in Participants(j) => j \in S

\* It goes from tree to tree.
LEMMA RunFacts ==
    ASSUME SpecInv, SlotInv, OnTrees, NEW S
    PROVE  /\ Txs = 1 .. Len(batch) /\ Len(batch) \in Nat
           /\ Run(S)[0] = start
           /\ \A n \in 0 .. Len(batch) : IsTree(Run(S)[n])
           /\ \A n \in 1 .. Len(batch) :
                 /\ batch[n].op \in FsOp /\ SafeRename(batch[n].op)
                 /\ Run(S)[n] = IF n \in S THEN ApplyReferenceTx(Run(S)[n - 1], batch[n].op)
                                ELSE Run(S)[n - 1]
<1> DEFINE L == Len(batch)
           X == Run(S)
<1>1. batch \in Batches /\ start \in InitialStates /\ batch \in Seq(OrderedTx)
    BY SccAssumption DEF SpecInv, SpecType, SlotInv
<1>2. Txs = 1 .. L /\ L \in Nat
    BY <1>1 DEF Txs
<1>3. \A n \in 1 .. L : batch[n].op \in FsOp /\ SafeRename(batch[n].op)
    BY <1>1, <1>2, TxFacts DEF OnTrees, Txs
<1>4. start \in State /\ IsTree(start)
    BY <1>1, SccAssumption DEF OnTrees
<1>5. /\ X[0] = start
      /\ \A n \in 1 .. L : X[n] = IF n \in S THEN ApplyReferenceTx(X[n - 1], batch[n].op)
                                  ELSE X[n - 1]
    BY <1>2, <1>3, <1>4, ExecuteIndicesSteps DEF Run
<1> HIDE DEF X, L
<1>6. \A n \in 0 .. L : IsTree(X[n])
    <2> DEFINE bad == {n \in 0 .. L : ~IsTree(X[n])}
    <2> SUFFICES ASSUME bad # {} PROVE FALSE
        OBVIOUS
    <2>1. PICK n \in bad : \A y \in bad : n <= y
        <3>1. bad \subseteq Nat
            OBVIOUS
        <3> QED BY <3>1, NatMin
    <2>2. n \in 1 .. L /\ n - 1 \in 0 .. L /\ n - 1 \notin bad
        <3>1. n \in 0 .. L /\ n # 0
            BY <1>4, <1>5
        <3> HIDE DEF bad
        <3> QED BY <1>2, <2>1, <3>1
    <2>3. IsTree(X[n - 1])
        BY <2>2
    <2>4. IsTree(X[n])
        <3> DEFINE st == X[n - 1]
                   op == batch[n].op
        <3>1. IsTree(st) /\ op \in FsOp /\ SafeRename(op)
            BY <1>3, <2>2, <2>3
        <3> HIDE DEF st, op
        <3>2. IsTree(ApplyReferenceTx(st, op))
            BY <3>1, OpKeepsTree
        <3> QED BY <1>5, <2>2, <3>1, <3>2 DEF st, op
    <2> QED BY <2>1, <2>4
<1> QED BY <1>2, <1>3, <1>5, <1>6 DEF X, L

\* A transaction that has committed executed on the reads that the serial
\* execution has after its last predecessor, wherever they come from.
LEMMA CommittedReads ==
    ASSUME SpecInv, SlotInv, OnTrees, NEW S, Closed(S), NEW m \in S \cap Txs, NEW t \in Participants(m),
           Succeeded(t, m), Describes(S, MaxPred(m)), NEW st, st = Run(S)[MaxPred(m)]
    PROVE  /\ AnswersOk(batch[m].op, st)
           /\ slot[t][m].delta = LocalDelta(t, m, DeltaOf(batch[m].op, st))
<1> DEFINE op == batch[m].op
           r == effect_reads[t][m]
           p == MaxPred(m)
<1>0. batch \in Batches
    BY DEF SpecInv, SpecType
<1>1. /\ op \in FsOp /\ Participants(m) \subseteq Shards /\ ReadSet(batch[m]) \subseteq Keys
      /\ Participants(m) = {Owner[k] : k \in ReadSet(batch[m])}
    <2>1. op \in FsOp /\ Participants(m) \subseteq Shards /\ ReadSet(batch[m]) \subseteq Keys
        BY <1>0, TxFacts
    <2>2. WriteSet(batch[m]) \subseteq ReadSet(batch[m])
        BY <2>1, SetsInKeys DEF ReadSet, WriteSet
    <2>3. ReadSet(batch[m]) \cup WriteSet(batch[m]) = ReadSet(batch[m])
        BY <2>2
    <2> QED BY <2>1, <2>3 DEF Participants, AllParticipants, OwnersOf
<1>2. Progress(t, m) /\ Knowledge(t, m) /\ Slots(t, m) /\ worker[t][m] \in WorkerStates
    BY <1>1 DEF SpecInv, SpecType, SlotInv
<1>3. WhyCommitted(t, m)
    BY <1>2 DEF Progress, WorkerStates, Succeeded, Pending, Failed
<1>4. ASSUME NEW u \in Participants(m)
      PROVE  Decides(S, u, p) /\ ReadsValues(u, m)
    <2>1. HasRead(u, m)
        BY <1>2, <1>3 DEF WhyCommitted, Knowledge, Others
    <2>2. PrefixSucceeded(u, m) /\ ReadsValues(u, m)
        BY <1>1, <2>1 DEF SlotInv, Slots
    <2>3. \A j \in 1 .. p : u \in Participants(j) => j \in S /\ Succeeded(u, j)
        BY <2>2 DEF Closed, PrefixSucceeded
    <2> QED BY <2>2, <2>3 DEF Decides
<1>5. \A k \in ReadSet(batch[m]) : r[k] = st[k]
    <2> SUFFICES ASSUME NEW k \in ReadSet(batch[m]) PROVE r[k] = st[k]
        OBVIOUS
    <2> DEFINE u == Owner[k]
    <2>1. u \in Participants(m) /\ u \in Shards /\ k \in Keys /\ k \in LocalReadKeys(batch[m], u)
        BY <1>1 DEF LocalReadKeys
    <2>2. k \in DOMAIN r /\ r[k] = effect_reads[u][m][k]
        BY <1>2, <1>3 DEF WhyCommitted, ReadsAll, Knowledge, FromOwner
    <2>3. effect_reads[u][m][k] = Value(u, k, p)
        BY <1>4, <2>1 DEF ReadsValues
    <2>4. Run(S)[p][k] = Value(u, k, p)
        BY <1>4, <2>1 DEF Describes
    <2> QED BY <2>2, <2>3, <2>4
<1>6. r = ReadFrom(st, op)
    <2>1. IsMap(r) /\ DOMAIN r = DeriveReadSet(op)
        BY <1>2, <1>3 DEF Knowledge, WhyCommitted, ReadsAll, ReadSet
    <2> QED BY <1>5, <2>1 DEF IsMap, ReadFrom, ReadSet
<1>7. SpecResult(t, m) = ReferenceOutput(st, op)
    BY <1>6 DEF SpecResult, ReferenceOutput
<1>8. AnswersOk(op, st)
    BY <1>3, <1>7 DEF WhyCommitted, OnPredictedPath, AnswersOk
<1>9. slot[t][m].delta = LocalDelta(t, m, DeltaOf(op, st))
    BY <1>2, <1>6, <1>7 DEF Slots, OwnDelta, DeltaOf
<1> QED BY <1>8, <1>9

\* What comes between the last predecessor and the transaction does not change
\* its answer or its delta.
LEMMA DeltaCarries ==
    ASSUME SpecInv, SlotInv, OnTrees, NEW S, NEW m \in Txs,
           AnswersOk(batch[m].op, Run(S)[MaxPred(m)])
    PROVE  \A j \in MaxPred(m) .. m - 1 :
              /\ AnswersOk(batch[m].op, Run(S)[j])
              /\ DeltaOf(batch[m].op, Run(S)[j]) = DeltaOf(batch[m].op, Run(S)[MaxPred(m)])
<1> DEFINE op == batch[m].op
           p == MaxPred(m)
           X == Run(S)
           L == Len(batch)
           Same(j) == AnswersOk(op, X[j]) /\ DeltaOf(op, X[j]) = DeltaOf(op, X[p])
           bad == {j \in p .. m - 1 : ~Same(j)}
<1>1. /\ Txs = 1 .. L /\ L \in Nat
      /\ \A n \in 0 .. L : IsTree(X[n])
      /\ \A n \in 1 .. L : /\ batch[n].op \in FsOp
                           /\ X[n] = IF n \in S THEN ApplyReferenceTx(X[n - 1], batch[n].op) ELSE X[n - 1]
    BY RunFacts
<1>2. m \in Nat /\ p \in 0 .. m - 1 /\ m \in 1 .. L
    BY <1>1, PredFacts DEF SpecInv, SpecType
<1>3. \A j \in 1 .. m - 1 : j > p => ~HasConflict(batch[j].op, op)
    <2>1. Preds(m) \subseteq 1 .. p
        BY PredFacts DEF SpecInv, SpecType
    <2> QED BY <1>2, <2>1 DEF Preds
<1> SUFFICES ASSUME bad # {} PROVE FALSE
    OBVIOUS
<1> HIDE DEF X, L, p
<1>4. Same(p)
    BY DEF X, p
<1>5. PICK j \in bad : \A y \in bad : j <= y
    <2>1. bad \subseteq Nat
        BY <1>2
    <2> QED BY <2>1, NatMin
<1>6. j \in p + 1 .. m - 1 /\ j \in Nat /\ j - 1 \in p .. m - 1 /\ j - 1 \notin bad
    <2>1. j \in p .. m - 1 /\ j # p
        BY <1>4
    <2> HIDE DEF bad
    <2> QED BY <1>2, <1>5, <2>1
<1>7. Same(j - 1)
    BY <1>6
<1> HIDE DEF bad
<1>8. j \in 1 .. L /\ j \in 1 .. m - 1 /\ j > p /\ j - 1 \in 0 .. L
    BY <1>1, <1>2, <1>6
<1>9. Same(j)
    <2> DEFINE st == X[j - 1]
               lhs == batch[j].op
    <2>1. /\ IsTree(st) /\ lhs \in FsOp /\ op \in FsOp /\ ~HasConflict(lhs, op)
          /\ X[j] = IF j \in S THEN ApplyReferenceTx(st, lhs) ELSE st
        BY <1>1, <1>2, <1>3, <1>8
    <2>2. AnswersOk(op, st) /\ DeltaOf(op, st) = DeltaOf(op, X[p])
        BY <1>7
    <2> HIDE DEF st, lhs, op
    <2>3. CASE j \in S
        <3>1. /\ AnswersOk(op, st) <=> AnswersOk(op, X[j])
              /\ AnswersOk(op, st) => DeltaOf(op, X[j]) = DeltaOf(op, st)
            BY <2>1, <2>3, SameDelta
        <3> QED BY <2>2, <3>1
    <2>4. CASE j \notin S
        BY <2>1, <2>2, <2>4
    <2> QED BY <2>3, <2>4
<1> QED BY <1>5, <1>9 DEF bad

\* What a committed slot does on its shard is what the transaction does in the
\* serial execution, and it applies there.
LEMMA CommittedSlot ==
    ASSUME SpecInv, SlotInv, OnTrees, NEW S, Closed(S), NEW m \in S \cap Txs, NEW t \in Participants(m),
           Succeeded(t, m), Describes(S, MaxPred(m)), NEW k \in Keys, Owner[k] = t
    PROVE  /\ AnswersOk(batch[m].op, Run(S)[m - 1])
           /\ Run(S)[m][k] = DeltaAt(Run(S)[m - 1][k], slot[t][m].delta, k)
           /\ k \in DOMAIN slot[t][m].delta /\ slot[t][m].delta[k].kind = "add" =>
                 /\ Run(S)[m - 1][k].kind = "dir"
                 /\ Run(S)[m - 1][k].child_count + slot[t][m].delta[k].by >= 0
<1> DEFINE op == batch[m].op
           p == MaxPred(m)
           X == Run(S)
           L == Len(batch)
<1>1. /\ Txs = 1 .. L /\ L \in Nat
      /\ \A n \in 0 .. L : IsTree(X[n])
      /\ \A n \in 1 .. L : /\ batch[n].op \in FsOp
                           /\ X[n] = IF n \in S THEN ApplyReferenceTx(X[n - 1], batch[n].op) ELSE X[n - 1]
    BY RunFacts
<1>2. m \in Nat /\ p \in 0 .. m - 1 /\ m \in 1 .. L /\ m - 1 \in p .. m - 1 /\ m - 1 \in 0 .. L
    BY <1>1, PredFacts DEF SpecInv, SpecType
<1>3. AnswersOk(op, X[p]) /\ slot[t][m].delta = LocalDelta(t, m, DeltaOf(op, X[p]))
    BY CommittedReads
<1>4. AnswersOk(op, X[m - 1]) /\ DeltaOf(op, X[m - 1]) = DeltaOf(op, X[p])
    BY <1>2, <1>3, DeltaCarries
<1> DEFINE st == X[m - 1]
           delta == DeltaOf(op, st)
<1>5. st \in State /\ op \in FsOp /\ X[m] = ApplyReferenceTx(st, op)
    BY <1>1, <1>2 DEF IsTree
<1>6. slot[t][m].delta = FilterDeltaToKeys(delta, LocalWriteKeys(batch[m], t))
    BY <1>3, <1>4 DEF LocalDelta
<1> HIDE DEF st
<1>7. /\ DeltaAt(st[k], delta, k) = ApplyReferenceTx(st, op)[k]
      /\ DOMAIN delta \subseteq DeriveWriteSet(op)
      /\ k \in DOMAIN delta /\ delta[k].kind = "add" =>
            st[k].kind = "dir" /\ st[k].child_count + delta[k].by >= 0
    BY <1>5, DeltaIsChange
<1> HIDE DEF delta
<1>8. /\ k \in DOMAIN slot[t][m].delta <=> k \in DOMAIN delta
      /\ k \in DOMAIN slot[t][m].delta => slot[t][m].delta[k] = delta[k]
    BY <1>6, <1>7 DEF FilterDeltaToKeys, LocalWriteKeys, WriteSet
<1>9. DeltaAt(st[k], slot[t][m].delta, k) = X[m][k]
    BY <1>5, <1>7, <1>8 DEF DeltaAt
<1> QED BY <1>4, <1>7, <1>8, <1>9 DEF st

\* A slot that is not committed, or is none of the shard's business, changes
\* nothing.
LEMMA EmptySlots ==
    ASSUME SlotInv, NEW t \in Shards, NEW m \in Txs, t \notin Participants(m) \/ ~Succeeded(t, m)
    PROVE  DOMAIN slot[t][m].delta = {}
<1>1. slot[t][m] \in {Pending, Failed, NoOp}
    BY DEF SlotInv, Slots
<1>2. DOMAIN NoDelta = {}
    BY DEF NoDelta
<1> QED BY <1>1, <1>2 DEF Pending, Failed, NoOp

\* The slots of every shard describe the serial execution of any closed set of
\* transactions that the shard agrees with.
LEMMA SlotsDescribe ==
    ASSUME SpecInv, SlotInv, OnTrees, NEW S, Closed(S)
    PROVE  \A n \in 0 .. Len(batch) : Describes(S, n)
<1> DEFINE L == Len(batch)
           X == Run(S)
           bad == {n \in 0 .. L : ~Describes(S, n)}
<1>0. /\ Txs = 1 .. L /\ L \in Nat /\ X[0] = start
      /\ \A n \in 0 .. L : IsTree(X[n])
      /\ \A n \in 1 .. L : /\ batch[n].op \in FsOp
                           /\ X[n] = IF n \in S THEN ApplyReferenceTx(X[n - 1], batch[n].op) ELSE X[n - 1]
    BY RunFacts
<1>1. \A t \in Shards, k \in Keys :
          /\ Value(t, k, 0) = Part(start, t)[k]
          /\ \A m \in 1 .. L : Value(t, k, m) = DeltaAt(Value(t, k, m - 1), slot[t][m].delta, k)
    BY ValueSteps DEF ValueChain, SpecInv, SpecType
<1> SUFFICES ASSUME bad # {} PROVE FALSE
    OBVIOUS
<1>2. PICK n \in bad : \A y \in bad : n <= y
    <2>1. bad \subseteq Nat
        OBVIOUS
    <2> QED BY <2>1, NatMin
<1>3. n # 0
    BY <1>0, <1>1 DEF Describes, Part
<1>4. n \in 1 .. L /\ n \in Txs /\ n - 1 \in 0 .. L
    BY <1>0, <1>3
<1>5. \A m \in 0 .. n - 1 : Describes(S, m)
    <2> SUFFICES ASSUME NEW m \in 0 .. n - 1 PROVE Describes(S, m)
        OBVIOUS
    <2>1. m \in 0 .. L /\ ~(n <= m)
        BY <1>0, <1>4
    <2>2. m \notin bad
        <3> HIDE DEF bad
        <3> QED BY <1>2, <2>1
    <2> QED BY <2>1, <2>2
<1>6. n - 1 \in 0 .. n - 1
    BY <1>0, <1>4
<1> HIDE DEF bad
<1>7. ASSUME NEW t \in Shards, Decides(S, t, n), NEW k \in Keys, Owner[k] = t
      PROVE  X[n][k] = Value(t, k, n)
    <2>1. X[n - 1][k] = Value(t, k, n - 1)
        <3>1. Decides(S, t, n - 1)
            BY <1>0, <1>4, <1>7 DEF Decides
        <3> QED BY <1>5, <1>6, <1>7, <3>1 DEF Describes
    <2>2. Value(t, k, n) = DeltaAt(Value(t, k, n - 1), slot[t][n].delta, k)
        BY <1>1, <1>4
    <2>3. n \in 1 .. n
        BY <1>0, <1>4
    <2>4. CASE t \in Participants(n) /\ n \in S
        <3>1. Succeeded(t, n)
            BY <1>7, <2>3, <2>4 DEF Decides
        <3>2. Describes(S, MaxPred(n))
            <4>1. MaxPred(n) \in 0 .. n - 1
                BY <1>4, PredFacts DEF SpecInv, SpecType
            <4> QED BY <1>5, <4>1
        <3>3. X[n][k] = DeltaAt(X[n - 1][k], slot[t][n].delta, k)
            BY <1>4, <1>7, <2>4, <3>1, <3>2, CommittedSlot
        <3> QED BY <2>1, <2>2, <3>3
    <2>5. CASE t \notin Participants(n) \/ n \notin S
        <3>1. DOMAIN slot[t][n].delta = {}
            BY <1>4, <1>7, <2>3, <2>5, EmptySlots DEF Decides
        <3>2. Value(t, k, n) = Value(t, k, n - 1)
            BY <2>2, <3>1 DEF DeltaAt
        <3>3. X[n][k] = X[n - 1][k]
            <4>1. CASE n \notin S
                BY <1>0, <1>4, <4>1
            <4>2. CASE n \in S /\ t \notin Participants(n)
                <5> DEFINE st == X[n - 1]
                           op == batch[n].op
                <5>1. st \in State /\ op \in FsOp /\ X[n] = ApplyReferenceTx(st, op)
                    BY <1>0, <1>4, <4>2 DEF IsTree
                <5>2. k \notin DeriveWriteSet(op)
                    BY <1>7, <4>2 DEF Participants, AllParticipants, OwnersOf, WriteSet
                <5> HIDE DEF st, op
                <5>3. PICK delta : delta = DeltaOf(op, st)
                    OBVIOUS
                <5>4. /\ DeltaAt(st[k], delta, k) = ApplyReferenceTx(st, op)[k]
                      /\ DOMAIN delta \subseteq DeriveWriteSet(op)
                    BY <5>1, <5>3, DeltaIsChange
                <5>5. DeltaAt(st[k], delta, k) = st[k]
                    BY <5>2, <5>4 DEF DeltaAt
                <5> QED BY <5>1, <5>4, <5>5 DEF st
            <4> QED BY <2>5, <4>1, <4>2
        <3> QED BY <2>1, <3>2, <3>3
    <2> QED BY <2>4, <2>5
<1>8. Describes(S, n)
    BY <1>7 DEF Describes
<1> QED BY <1>2, <1>8 DEF bad

\* Wherever a transaction has committed, its participants have read the slots
\* of what it waited for.
LEMMA CommittedPrefix ==
    ASSUME SpecInv, SlotInv, NEW m \in Txs, NEW t \in Participants(m), Succeeded(t, m),
           NEW u \in Participants(m)
    PROVE  u \in Shards /\ \A j \in 1 .. MaxPred(m) : j \in Txs /\ Succeeded(u, j)
<1>1. t \in Shards /\ u \in Shards /\ 1 .. MaxPred(m) \subseteq Txs
    BY TxFacts, PredFacts DEF SpecInv, SpecType
<1>2. Progress(t, m) /\ Knowledge(t, m) /\ worker[t][m] \in WorkerStates
    BY <1>1 DEF SpecInv, SpecType
<1>3. WhyCommitted(t, m)
    BY <1>2 DEF Progress, WorkerStates, Succeeded, Pending, Failed
<1>4. HasRead(u, m)
    BY <1>2, <1>3 DEF WhyCommitted, Knowledge, Others
<1> QED BY <1>1, <1>4 DEF SlotInv, Slots, PrefixSucceeded

\* The transactions that may be counted among the failed ones: those that some
\* shard has failed, and none that a participant has committed.
MayFail(D) ==
    /\ AllFailed \subseteq D
    /\ \A i \in D \cap Txs : \A t \in Participants(i) : ~Succeeded(t, i)

LEMMA SuccessesClosed ==
    ASSUME SpecInv, SlotInv, NEW D, MayFail(D)
    PROVE  Closed(Txs \ D)
<1> SUFFICES ASSUME NEW m \in Txs, NEW t \in Participants(m), Succeeded(t, m),
                    NEW u \in Participants(m), NEW j \in 1 .. MaxPred(m), u \in Participants(j)
             PROVE  j \in Txs \ D
    BY DEF Closed
<1>1. j \in Txs /\ Succeeded(u, j)
    BY CommittedPrefix
<1> QED BY <1>1 DEF MayFail

\* A shard whose slots are all set agrees with it.
LEMMA SetShardDecides ==
    ASSUME SpecInv, SlotInv, NEW D, MayFail(D), NEW s \in Shards, AllSet(s)
    PROVE  Decides(Txs \ D, s, Len(batch))
<1>1. Txs = 1 .. Len(batch)
    BY SccAssumption DEF SpecInv, SpecType, Txs
<1>2. ASSUME NEW m \in Txs, s \in Participants(m) PROVE m \in Txs \ D <=> Succeeded(s, m)
    <2>1. Slots(s, m) /\ slot[s][m] # Pending
        BY DEF SlotInv, AllSet
    <2>2. slot[s][m] = Failed => m \in D
        BY DEF MayFail, AllFailed, FailedIndices
    <2> QED BY <1>2, <2>1, <2>2 DEF Slots, MayFail
<1> QED BY <1>1, <1>2 DEF Decides

\* The failed transactions so far are a possible outcome.
LEMMA FailedMayFail == SpecInv /\ SlotInv => MayFail(AllFailed)
<1> SUFFICES ASSUME SpecInv, SlotInv, NEW i \in AllFailed, NEW t \in Participants(i), Succeeded(t, i)
             PROVE  FALSE
    BY DEF MayFail
<1>1. PICK s \in Shards : i \in Txs /\ slot[s][i] = Failed
    BY DEF AllFailed, FailedIndices
<1>2. s \in Participants(i)
    BY <1>1 DEF SlotInv, Slots, Failed, Pending, NoOp
<1> QED BY <1>1, <1>2, Agreement DEF SpeculationAgrees

\* A shard's slots say nothing of the inodes of other shards.
LEMMA OwnSlots ==
    ASSUME SpecInv, SlotInv, NEW s \in Shards, NEW m \in Txs, NEW k \in DOMAIN slot[s][m].delta
    PROVE  k \in Keys /\ Owner[k] = s
<1>1. s \in Participants(m) /\ Succeeded(s, m)
    BY EmptySlots
<1>2. slot[s][m].delta = OwnDelta(s, m)
    BY <1>1 DEF SlotInv, Slots
<1>3. k \in LocalWriteKeys(batch[m], s)
    BY <1>2 DEF OwnDelta, LocalDelta, FilterDeltaToKeys
<1>4. batch[m].op \in FsOp
    BY TxFacts DEF SpecInv, SpecType
<1> QED BY <1>3, <1>4, SetsInKeys DEF LocalWriteKeys, WriteSet

LEMMA ForeignValue ==
    ASSUME SpecInv, SlotInv, NEW s \in Shards, NEW k \in Keys, Owner[k] # s
    PROVE  \A n \in 0 .. Len(batch) : Value(s, k, n) = Missing
<1> DEFINE L == Len(batch)
           bad == {n \in 0 .. L : Value(s, k, n) # Missing}
<1>1. L \in Nat /\ Txs = 1 .. L
    BY SccAssumption DEF SpecInv, SpecType, Txs
<1>2. /\ Value(s, k, 0) = Missing
      /\ \A m \in 1 .. L : Value(s, k, m) = DeltaAt(Value(s, k, m - 1), slot[s][m].delta, k)
    BY ValueSteps DEF ValueChain, Part, SpecInv, SpecType
<1> SUFFICES ASSUME bad # {} PROVE FALSE
    OBVIOUS
<1>3. PICK n \in bad : \A y \in bad : n <= y
    <2>1. bad \subseteq Nat
        OBVIOUS
    <2> QED BY <2>1, NatMin
<1>4. n \in 1 .. L /\ n - 1 \in 0 .. L /\ n - 1 \notin bad
    <2>1. n \in 0 .. L /\ n # 0
        BY <1>2
    <2> HIDE DEF bad
    <2> QED BY <1>1, <1>3, <2>1
<1>5. Value(s, k, n - 1) = Missing
    BY <1>4
<1>6. k \notin DOMAIN slot[s][n].delta
    BY <1>1, <1>4, OwnSlots
<1> QED BY <1>2, <1>3, <1>4, <1>5, <1>6 DEF DeltaAt

\* The invariants, with the account of slots and stores.
LEMMA SlotsInvariant == SchedulerSpec => [](SpecInv /\ PublishInv /\ SlotInv)
    BY SpecInit, SlotsInit, SpecStep, SlotsStep, PTL DEF SchedulerSpec

\* An Ok of the speculation is never executed again, on any shard: the shard that
\* publishes it has committed, so no participant has failed it, and a shard hands
\* to the fallback what it has failed itself (failed_indices_from_snapshot).
THEOREM PublishedIsExecutedOnceAlways == SchedulerSpec => []PublishedIsExecutedOnce
<1>1. SpecInv /\ PublishInv /\ SlotInv => PublishedIsExecutedOnce
    <2> SUFFICES ASSUME SpecInv, PublishInv, SlotInv, NEW s \in Shards, NEW t \in Shards, NEW i \in Txs,
                        results[s][i] = "Ok", Succeeded(s, i)
                 PROVE  slot[t][i] # Failed /\ pc[t][i] = "none"
        BY DEF PublishedIsExecutedOnce
    <2>1. Publication(s, i) /\ Publication(t, i) /\ Progress(s, i) /\ Progress(t, i)
        BY DEF PublishInv, SpecInv
    <2>2. slot[s][i] # Failed
        BY DEF Succeeded, Failed
    <2>3. worker[s][i] = "ok"
        BY <2>1, <2>2 DEF Publication, TxResult
    <2>4. s \in Participants(i)
        BY <2>1, <2>3 DEF Progress
    <2>5. t \in Participants(i) => slot[t][i] # Failed
        BY <2>4, Agreement DEF SpeculationAgrees
    <2>6. t \notin Participants(i) => slot[t][i] # Failed
        <3>1. t \notin Participants(i) => slot[t][i] \in {Pending, NoOp}
            BY DEF SlotInv, Slots
        <3>2. Failed.state # NoOp.state /\ Failed.state # Pending.state
            BY DEF Pending, NoOp, Failed
        <3> QED BY <3>1, <3>2
    <2> QED BY <2>1, <2>5, <2>6 DEF Publication
<1> QED BY <1>1, SlotsInvariant, PTL

LEMMA InstalledSerially ==
    ASSUME OnTrees, SpecInv, SlotInv, NEW s \in Shards, Installed(s), NEW k \in Keys
    PROVE  store[s][k] = IF Owner[k] = s THEN SuccessState(start, batch, AllFailed)[k] ELSE Missing
<1> DEFINE S == Txs \ AllFailed
           L == Len(batch)
<1>1. L \in Nat /\ L \in 0 .. L /\ Txs = 1 .. L
    BY RunFacts
<1>2. AllSet(s) /\ store[s][k] = Value(s, k, L)
    BY DEF SlotInv, Stores, Installed
<1>3. MayFail(AllFailed)
    BY FailedMayFail
<1>4. Decides(S, s, L) /\ Describes(S, L)
    BY <1>1, <1>2, <1>3, SetShardDecides, SuccessesClosed, SlotsDescribe
<1>5. CASE Owner[k] = s
    <2>1. Run(S)[L][k] = Value(s, k, L)
        BY <1>4, <1>5 DEF Describes
    <2> QED BY <1>2, <1>5, <2>1 DEF Run, SuccessState, SuccessRun, SpeculativeSuccesses, Txs
<1>6. CASE Owner[k] # s
    BY <1>1, <1>2, <1>6, ForeignValue
<1> QED BY <1>5, <1>6

\* A shard that has installed holds its part of the serial execution of what did
\* not fail, as it is after every batch that finds a tree.
THEOREM InstalledIsSerialAlways == OnTrees => (SchedulerSpec => []InstalledIsSerial)
<1> SUFFICES ASSUME OnTrees PROVE SchedulerSpec => []InstalledIsSerial
    OBVIOUS
<1>1. SpecInv /\ SlotInv => InstalledIsSerial
    BY InstalledSerially DEF InstalledIsSerial, Installed
<1> QED BY <1>1, SlotsInvariant, PTL

-----------------------------------------------------------------------------
(* The deltas apply *)

\* What has succeeded somewhere, and shard s has committed or has waited for
\* something behind it.
Witnessed(s) ==
    {i \in Txs : /\ \E t \in Participants(i) : Succeeded(t, i)
                 /\ \/ s \in Participants(i) /\ Succeeded(s, i)
                    \/ \E j \in Txs : s \in Participants(j) /\ Succeeded(s, j) /\ i <= MaxPred(j)}

LEMMA WitnessedClosed ==
    ASSUME SpecInv, SlotInv, NEW s \in Shards
    PROVE  Closed(Witnessed(s)) /\ Decides(Witnessed(s), s, Len(batch))
<1>0. batch \in Batches /\ Txs = 1 .. Len(batch) /\ Len(batch) \in Nat
    BY SccAssumption DEF SpecInv, SpecType, Txs
<1>1. \A m \in Txs : m \in Nat /\ MaxPred(m) \in 0 .. m - 1
    BY <1>0, PredFacts
<1>2. Closed(Witnessed(s))
    <2> SUFFICES ASSUME NEW m \in Witnessed(s), NEW t \in Participants(m), Succeeded(t, m),
                        NEW u \in Participants(m), NEW j \in 1 .. MaxPred(m), u \in Participants(j)
                 PROVE  j \in Witnessed(s)
        BY DEF Closed
    <2>1. m \in Txs /\ j \in Txs /\ Succeeded(u, j)
        BY CommittedPrefix DEF Witnessed
    <2>2. PICK n \in Txs : s \in Participants(n) /\ Succeeded(s, n) /\ (m = n \/ m <= MaxPred(n))
        BY DEF Witnessed
    <2>3. j <= MaxPred(n)
        BY <1>1, <2>1, <2>2
    <2> QED BY <2>1, <2>2, <2>3 DEF Witnessed
<1>3. ASSUME NEW m \in Txs, s \in Participants(m) PROVE m \in Witnessed(s) <=> Succeeded(s, m)
    <2>1. ASSUME NEW j \in Txs, s \in Participants(j), Succeeded(s, j), m <= MaxPred(j)
          PROVE  Succeeded(s, m)
        <3>1. m \in 1 .. MaxPred(j)
            BY <1>0, <1>1, <2>1
        <3> QED BY <2>1, <3>1, CommittedPrefix
    <2> QED BY <1>3, <2>1 DEF Witnessed
<1>4. Decides(Witnessed(s), s, Len(batch))
    BY <1>0, <1>3 DEF Decides
<1> QED BY <1>2, <1>4

LEMMA SlotApplies ==
    ASSUME OnTrees, SpecInv, SlotInv, NEW s \in Shards, NEW m \in Txs, NEW k \in DOMAIN slot[s][m].delta,
           slot[s][m].delta[k].kind = "add"
    PROVE  Value(s, k, m - 1).kind = "dir" /\ Value(s, k, m - 1).child_count + slot[s][m].delta[k].by >= 0
<1> DEFINE S == Witnessed(s)
           L == Len(batch)
<1>1. k \in Keys /\ Owner[k] = s
    BY OwnSlots
<1>2. s \in Participants(m) /\ Succeeded(s, m) /\ m \in S
    BY EmptySlots DEF Witnessed
<1>3. Closed(S) /\ Decides(S, s, L)
    BY WitnessedClosed
<1> HIDE DEF S
<1>4. \A n \in 0 .. L : Describes(S, n)
    BY <1>3, SlotsDescribe
<1>5. m \in 1 .. L /\ L \in Nat /\ m - 1 \in 0 .. L /\ MaxPred(m) \in 0 .. L
    <2>1. L \in Nat /\ Txs = 1 .. L /\ batch \in Batches
        BY SccAssumption DEF SpecInv, SpecType, Txs
    <2>2. m \in Nat /\ MaxPred(m) \in 0 .. m - 1
        BY <2>1, PredFacts
    <2> QED BY <2>1, <2>2
<1>6. Run(S)[m - 1][k] = Value(s, k, m - 1)
    <2>1. Decides(S, s, m - 1)
        BY <1>3, <1>5 DEF Decides
    <2> QED BY <1>1, <1>4, <1>5, <2>1 DEF Describes
<1>7. /\ Run(S)[m - 1][k].kind = "dir"
      /\ Run(S)[m - 1][k].child_count + slot[s][m].delta[k].by >= 0
    <2>1. Describes(S, MaxPred(m)) /\ m \in S \cap Txs
        BY <1>2, <1>4, <1>5
    <2> QED BY <1>1, <1>2, <1>3, <2>1, CommittedSlot
<1> QED BY <1>6, <1>7

\* While a shard speculates, the deltas in its slots apply one after the other
\* to its store, as they do when the batch finds a tree.
THEOREM DeltasApplyAlways == OnTrees => (SchedulerSpec => []DeltasApply)
<1> SUFFICES ASSUME OnTrees PROVE SchedulerSpec => []DeltasApply
    OBVIOUS
<1>1. SpecInv /\ SlotInv => DeltasApply
    <2> SUFFICES ASSUME SpecInv, SlotInv, NEW s \in Shards, status[s] = "speculating",
                        NEW m \in 1 .. Len(batch)
                 PROVE  CanApply(ApplySlots(s, store[s], Len(batch))[m - 1],
                                 FilterDeltaToKeys(slot[s][m].delta, DOMAIN store[s]))
        BY DEF DeltasApply, Inapplicable
    <2>1. store[s] = Part(start, s)
        BY DEF SlotInv, Stores
    <2>2. m \in Txs
        BY SccAssumption DEF SpecInv, SpecType, Txs
    <2>3. \A k \in DOMAIN slot[s][m].delta : slot[s][m].delta[k].kind = "add" =>
             /\ Value(s, k, m - 1).kind = "dir"
             /\ Value(s, k, m - 1).child_count + slot[s][m].delta[k].by >= 0
        BY <2>2, SlotApplies
    <2> DEFINE d == FilterDeltaToKeys(slot[s][m].delta, DOMAIN store[s])
    <2>4. \A k \in DOMAIN d : k \in DOMAIN slot[s][m].delta /\ d[k] = slot[s][m].delta[k]
        BY DEF FilterDeltaToKeys
    <2> HIDE DEF d
    <2>5. CanApply(ApplySlots(s, store[s], Len(batch))[m - 1], d)
        BY <2>1, <2>3, <2>4 DEF CanApply, Value
    <2> QED BY <2>5 DEF d
<1> QED BY <1>1, SlotsInvariant, PTL

-----------------------------------------------------------------------------
(* Types *)

Typed(f) == \A k \in DOMAIN f : f[k] \in ReadValue

DeltaOps == [kind : {"set", "add"}, value : ReadValue, by : Int]

\* What SpeculationTypeOK says of stores, results and deltas rests on the types of
\* what is read, in both phases.
TypeInv ==
    /\ store \in [Shards -> State]
    /\ results \in [Shards -> [Txs -> {"absent", "Pending", "NotResponsible"} \cup TxResult]]
    /\ effect_stray \subseteq Shards
    /\ \A s \in Shards, i \in Txs : Typed(effect_reads[s][i])
    /\ Grid(reads, Txs) /\ Grid(mail, Txs)
    /\ \A s \in Shards, i \in Txs : Typed(reads[s][i]) /\ \A m \in mail[s][i] : Typed(m.reads)

\* A delta that can be applied makes inodes of inodes.
LEMMA ApplyTyped ==
    ASSUME NEW st, Typed(st), NEW d, \A k \in DOMAIN d : d[k] \in DeltaOps,
           \A k \in DOMAIN d : d[k].kind = "add" =>
               st[k].kind = "dir" /\ st[k].child_count + d[k].by >= 0
    PROVE  Typed(ApplyDelta(st, d))
<1> SUFFICES ASSUME NEW k \in DOMAIN st PROVE ApplyDelta(st, d)[k] \in ReadValue
    BY DEF Typed, ApplyDelta
<1>1. st[k] \in ReadValue
    BY DEF Typed
<1>2. CASE k \in DOMAIN d /\ d[k].kind # "set"
    <2>1. d[k].by \in Int /\ d[k].kind = "add"
        BY <1>2 DEF DeltaOps
    <2>2. st[k].kind = "dir" /\ st[k].child_count + d[k].by >= 0
        BY <1>2, <2>1
    <2>3. st[k] \in Inode
        BY <1>1, <2>2 DEF ReadValue, Missing
    <2>4. st[k].child_count + d[k].by \in Nat
        BY <2>1, <2>2, <2>3 DEF Inode
    <2>5. [st[k] EXCEPT !.child_count = @ + d[k].by] \in Inode
        BY <2>3, <2>4 DEF Inode
    <2> QED BY <1>2, <2>5 DEF ApplyDelta, ReadValue
<1>3. CASE k \in DOMAIN d /\ d[k].kind = "set"
    BY <1>3 DEF ApplyDelta, DeltaOps
<1>4. CASE k \notin DOMAIN d
    BY <1>1, <1>4 DEF ApplyDelta
<1> QED BY <1>2, <1>3, <1>4

\* So do the slots of a shard, up to the first that cannot be applied.
LEMMA SlotsTyped ==
    ASSUME NEW s, NEW base, IsMap(base), Typed(base), NEW L \in Nat,
           \A m \in 1 .. L : \A k \in DOMAIN slot[s][m].delta : slot[s][m].delta[k] \in DeltaOps,
           NEW n \in 0 .. L, \A m \in 1 .. n : m \notin Inapplicable(s, base, L)
    PROVE  Typed(ApplySlots(s, base, L)[n])
<1> DEFINE run == ApplySlots(s, base, L)
           d(m) == FilterDeltaToKeys(slot[s][m].delta, DOMAIN base)
           bad == {m \in 0 .. n : ~Typed(run[m])}
<1>1. run[0] = base /\ \A m \in 1 .. L : run[m] = ApplyDelta(run[m - 1], d(m))
    BY ApplySlotsSteps
<1>2. \A m \in 1 .. n : CanApply(run[m - 1], d(m))
    BY DEF Inapplicable
<1>3. \A m \in 1 .. L : \A k \in DOMAIN d(m) : d(m)[k] \in DeltaOps
    BY DEF FilterDeltaToKeys
<1> HIDE DEF run, d
<1>4. SUFFICES ASSUME bad # {} PROVE FALSE
    BY DEF run
<1>5. PICK m \in bad : \A y \in bad : m <= y
    <2>1. bad \subseteq Nat
        OBVIOUS
    <2> QED BY <1>4, <2>1, NatMin
<1>6. m \in 1 .. n /\ m \in 1 .. L /\ m - 1 \in 0 .. n /\ m - 1 \notin bad
    <2>1. m \in 0 .. n /\ m # 0
        BY <1>1
    <2> HIDE DEF bad
    <2> QED BY <1>5, <2>1
<1>7. Typed(run[m - 1])
    BY <1>6
<1> DEFINE st == run[m - 1]
           dm == d(m)
<1>8. /\ \A k \in DOMAIN dm : dm[k] \in DeltaOps
      /\ \A k \in DOMAIN dm : dm[k].kind = "add" => st[k].kind = "dir" /\ st[k].child_count + dm[k].by >= 0
    BY <1>2, <1>3, <1>6 DEF CanApply
<1> HIDE DEF st, dm
<1>9. Typed(ApplyDelta(st, dm))
    BY <1>7, <1>8, ApplyTyped DEF st
<1> QED BY <1>1, <1>5, <1>6, <1>9 DEF st, dm

\* The delta of a worker that has its reads.
LEMMA OwnDeltaType ==
    ASSUME SpecInv, NEW s \in Shards, NEW i \in Txs, ReadsAll(s, i), Typed(effect_reads[s][i])
    PROVE  /\ \A k \in DOMAIN OwnDelta(s, i) : OwnDelta(s, i)[k] \in DeltaOps
           /\ SpecResult(s, i).result \in TxResult
<1> DEFINE op == batch[i].op
           r == effect_reads[s][i]
           st == [k \in Keys |-> IF k \in DOMAIN r THEN r[k] ELSE Missing]
<1>1. op \in FsOp /\ DOMAIN r = DeriveReadSet(op) /\ DeriveReadSet(op) \subseteq Keys /\ IsMap(r)
    BY TxFacts DEF SpecInv, SpecType, ReadsAll, ReadSet, Knowledge
<1>2. st \in State
    BY InodeTypes DEF Typed, State
<1>3. ReadFrom(st, op) = r
    BY <1>1 DEF ReadFrom, IsMap
<1>4. SpecResult(s, i) = ReferenceOutput(st, op)
    BY <1>3 DEF ReferenceOutput, SpecResult
<1> HIDE DEF st
<1>5. PICK delta : delta = DeltaOf(op, st)
    OBVIOUS
<1>6. OwnDelta(s, i) = FilterDeltaToKeys(delta, LocalWriteKeys(batch[i], s))
    BY <1>3, <1>4, <1>5 DEF OwnDelta, LocalDelta, DeltaOf
<1>7. PICK after : after = ApplyReferenceTx(st, op)
    OBVIOUS
<1> HIDE DEF op
<1>8. /\ after \in State
      /\ delta = [k \in {k \in DeriveWriteSet(op) : after[k] # st[k]} |-> DeltaOp(st[k], after[k])]
    BY <1>1, <1>2, <1>5, <1>7, DeltaValue
<1>9. DeriveWriteSet(op) \subseteq Keys
    BY <1>1, SetsInKeys
<1>10. \A k \in Keys : DeltaOp(st[k], after[k]) \in DeltaOps
    <2> SUFFICES ASSUME NEW k \in Keys PROVE DeltaOp(st[k], after[k]) \in DeltaOps
        OBVIOUS
    <2>1. st[k] \in ReadValue /\ after[k] \in ReadValue
        BY <1>2, <1>8 DEF State
    <2>2. st[k].child_count \in Int /\ after[k].child_count \in Int
        BY <2>1 DEF ReadValue, Inode, Missing
    <2> QED BY <2>1, <2>2, InodeTypes DEF DeltaOp, SetTo, AddTo, DeltaOps
<1>11. \A k \in DOMAIN delta : delta[k] \in DeltaOps
    BY <1>8, <1>9, <1>10
<1>12. \A k \in DOMAIN OwnDelta(s, i) : OwnDelta(s, i)[k] \in DeltaOps
    BY <1>6, <1>11 DEF FilterDeltaToKeys
<1>13. SpecResult(s, i).result \in TxResult
    BY <1>1, <1>2, <1>4, ReferenceType DEF Outcome
<1> QED BY <1>12, <1>13

\* What slots hold.
LEMMA SlotType ==
    ASSUME SpecInv, SlotInv, TypeInv, NEW s \in Shards, NEW m \in Txs
    PROVE  /\ slot[s][m].state \in {"Pending", "NoOp", "Delta", "Failed"}
           /\ \A k \in DOMAIN slot[s][m].delta : slot[s][m].delta[k] \in DeltaOps
           /\ IsDelta(s, slot[s][m].delta)
<1>1. slot[s][m].state \in {"Pending", "NoOp", "Delta", "Failed"}
    BY DEF SlotInv, Slots, Pending, Failed, Succeeded
<1>2. ASSUME NEW k \in DOMAIN slot[s][m].delta PROVE slot[s][m].delta[k] \in DeltaOps
    <2>1. s \in Participants(m) /\ Succeeded(s, m)
        BY EmptySlots
    <2>2. Progress(s, m) /\ worker[s][m] \in WorkerStates /\ Slots(s, m)
        BY DEF SpecInv, SpecType, SlotInv
    <2>3. WhyCommitted(s, m) /\ slot[s][m].delta = OwnDelta(s, m)
        BY <2>1, <2>2 DEF Progress, WorkerStates, Succeeded, Pending, Failed, Slots
    <2> QED BY <2>3, OwnDeltaType DEF WhyCommitted, TypeInv
<1>3. \A k \in DOMAIN slot[s][m].delta : k \in Keys /\ Owner[k] = s
    BY OwnSlots
<1> QED BY <1>1, <1>2, <1>3 DEF IsDelta, DeltaOps

-----------------------------------------------------------------------------
(* Types: the steps *)

\* Reads are typed at the beginning, since there are none.
LEMMA TypesInit == SchedulerInit => TypeInv
<1> SUFFICES ASSUME SchedulerInit PROVE TypeInv
    OBVIOUS
<1> USE DEF SchedulerInit, Init
<1>1. start \in State
    BY SccAssumption
<1>2. store \in [Shards -> State]
    BY <1>1, InodeTypes DEF State
<1>3. results \in [Shards -> [Txs -> {"absent", "Pending", "NotResponsible"} \cup TxResult]]
    OBVIOUS
<1>4. Typed(<< >>)
    BY DEF Typed
<1>5. /\ \A s \in Shards, i \in Txs : effect_reads[s][i] = << >> /\ reads[s][i] = << >> /\ mail[s][i] = {}
      /\ Grid(reads, Txs) /\ Grid(mail, Txs) /\ effect_stray = {}
    BY DEF Grid
<1> QED BY <1>2, <1>3, <1>4, <1>5 DEF TypeInv

\* A worker reads inodes: its own from the store and the slots, the others from
\* their owners.
LEMMA WorkerReadsTyped ==
    ASSUME SpecInv, SlotInv, TypeInv, NEW s \in Shards, NEW i \in Txs,
           Worker(s, i) \/ FailReadResult(s, i)
    PROVE  \A t \in Shards, j \in Txs : Typed(effect_reads'[t][j])
<1>1. Local(s, i) /\ Progress(s, i) /\ Knowledge(s, i) /\ Grid(effect_reads, Txs)
    BY WorkerIsLocal DEF SpecInv, SpecType
<1>2. \A t \in Shards, j \in Txs : (t # s \/ j # i) => effect_reads'[t][j] = effect_reads[t][j]
    BY <1>1 DEF Local, Bystander, Idles
<1>3. Typed(effect_reads[s][i])
    BY DEF TypeInv
<1>4. CASE effect_reads'[s][i] = effect_reads[s][i]
    BY <1>2, <1>4 DEF TypeInv
<1>5. CASE Materializes(s, i) /\ effect_reads'[s][i] # effect_reads[s][i]
    <2> DEFINE base == BaseReads(s, i)
               L == MaxPred(i)
    <2>1. MaterializeReads(s, i)
        <3>1. worker[s][i] = "ready"
            BY <1>5 DEF Materializes
        <3> QED BY <1>5, <3>1 DEF Worker, FailReadResult, MaterializeFails, SendReadResult, Sending,
                    FailAfterStatus, CollectReadResult, ExecuteAndCommit, OrphanFails
    <2>2. /\ Inapplicable(s, base, L) = {}
          /\ effect_reads' = [effect_reads EXCEPT ![s][i] = ApplySlots(s, base, L)[L]]
        BY <1>5, <2>1 DEF MaterializeReads
    <2>3. batch \in Batches
        BY DEF SpecInv, SpecType
    <2>4. /\ Txs = 1 .. Len(batch) /\ Len(batch) \in Nat /\ i \in Nat /\ L \in 0 .. i - 1
          /\ LocalReadKeys(batch[i], s) \subseteq Keys
        BY <2>3, TxFacts, PredFacts
    <2>5. L \in Nat /\ L \in 0 .. L /\ \A m \in 1 .. L : m \in Txs
        BY <2>4
    <2>6. IsMap(base) /\ Typed(base)
        BY <2>4 DEF IsMap, Typed, BaseReads, TypeInv, State
    <2>7. \A m \in 1 .. L : \A k \in DOMAIN slot[s][m].delta : slot[s][m].delta[k] \in DeltaOps
        BY <2>5, SlotType
    <2> HIDE DEF base, L
    <2>8. Typed(ApplySlots(s, base, L)[L])
        BY <2>2, <2>5, <2>6, <2>7, SlotsTyped
    <2>9. PICK r : r = ApplySlots(s, base, L)[L]
        OBVIOUS
    <2>10. effect_reads'[s][i] = r
        BY <1>1, <2>2, <2>9 DEF Grid
    <2> QED BY <1>2, <2>8, <2>9, <2>10 DEF TypeInv
<1>6. CASE Hears(s, i)
    <2>1. PICK m \in effect_mail[s][i] :
             /\ m.status # "SpeculationFailed"
             /\ effect_reads'[s][i] = MergeReads(effect_reads[s][i], m.reads)
        BY <1>6 DEF Hears
    <2>2. FromOwner(i, m.reads)
        BY <1>1, <2>1 DEF Knowledge, Truthful
    <2>3. Typed(m.reads)
        <3>1. \A k \in Keys : Owner[k] \in Shards
            BY RouterAssumption
        <3> QED BY <2>2, <3>1 DEF FromOwner, TypeInv, Typed
    <2>4. Typed(MergeReads(effect_reads[s][i], m.reads))
        BY <1>3, <2>3 DEF Typed, MergeReads
    <2> QED BY <1>2, <2>1, <2>4 DEF TypeInv
<1>7. Moves(s, i)
    BY <1>1 DEF Local
<1> QED BY <1>4, <1>5, <1>6, <1>7 DEF Moves, GivesUp, Sends, FailsNow, Commits, Idles

\* A worker step keeps everything typed.
LEMMA WorkerKeepsTypes ==
    ASSUME SpecInv, SlotInv, TypeInv, NEW s \in Shards, NEW i \in Txs,
           Worker(s, i) \/ FailReadResult(s, i), UNCHANGED fallbackVars
    PROVE  TypeInv'
<1>1. Txs' = Txs /\ UNCHANGED <<store, reads, mail>>
    BY WorkerIsLocal, WorkerData DEF SpecInv, Txs, fallbackVars
<1>2. \A t \in Shards, j \in Txs : Typed(effect_reads'[t][j])
    BY WorkerReadsTyped
<1>3. results' \in [Shards -> [Txs -> {"absent", "Pending", "NotResponsible"} \cup TxResult]]
    <2>1. results' = results \/ results' = [results EXCEPT ![s][i] = "Ok"]
        BY DEF Worker, FailReadResult, MaterializeReads, MaterializeFails, SendReadResult,
               FailAfterStatus, CollectReadResult, OrphanFails, ExecuteAndCommit, shardVars
    <2>2. "Ok" \in TxResult
        BY DEF TxResult
    <2> QED BY <2>1, <2>2 DEF TypeInv
<1>4. effect_stray' \subseteq Shards
    <2>1. CASE effect_stray' = effect_stray
        BY <2>1 DEF TypeInv
    <2>2. CASE effect_stray' # effect_stray
        <3> DEFINE t == Min(targets[s][i])
        <3>1. targets[s][i] # {} /\ effect_stray' = effect_stray \cup {t}
            BY <2>2 DEF Worker, FailReadResult, MaterializeReads, MaterializeFails, SendReadResult,
               FailAfterStatus, CollectReadResult, OrphanFails, ExecuteAndCommit, netVars, Sending, Route
        <3>2. targets[s][i] \subseteq Shards
            BY DEF SpecInv, SpecType
        <3>3. t \in targets[s][i]
            BY <3>1, <3>2, MinIsLeast, RouterAssumption DEF Shards
        <3> QED BY <3>1, <3>2, <3>3 DEF TypeInv
    <2> QED BY <2>1, <2>2
<1> QED BY <1>1, <1>2, <1>3, <1>4 DEF TypeInv, Grid

\* What is installed are inodes, also when a delta cannot be applied and the
\* installation stops before it.
LEMMA InstallTyped ==
    ASSUME SpecInv, SlotInv, TypeInv, NEW s \in Shards, Install(s)
    PROVE  store' \in [Shards -> State]
<1> DEFINE base == store[s]
           L == Len(batch)
           bad == Inapplicable(s, base, L)
<1>1. Txs = 1 .. L /\ L \in Nat
    BY SccAssumption DEF SpecInv, SpecType, Txs
<1>2. base \in State
    BY DEF TypeInv
<1>3. IsMap(base) /\ Typed(base) /\ DOMAIN base = Keys
    BY <1>2 DEF IsMap, Typed, State
<1>4. \A m \in 1 .. L : \A k \in DOMAIN slot[s][m].delta : slot[s][m].delta[k] \in DeltaOps
    BY <1>1, SlotType
<1>5. PICK n \in 0 .. L : /\ store' = [store EXCEPT ![s] = ApplySlots(s, base, L)[n]]
                          /\ \A m \in 1 .. n : m \notin bad
    <2>1. CASE bad = {}
        <3>1. store' = [store EXCEPT ![s] = ApplySlots(s, base, L)[L]]
            BY <2>1 DEF Install
        <3>2. L \in 0 .. L
            BY <1>1
        <3> QED BY <2>1, <3>1, <3>2
    <2>2. CASE bad # {}
        <3>1. store' = [store EXCEPT ![s] = ApplySlots(s, base, L)[Min(bad) - 1]]
            BY <2>2 DEF Install
        <3>2. bad \subseteq 1 .. L
            BY DEF Inapplicable
        <3> HIDE DEF bad, base, L
        <3>3. bad \subseteq Nat
            BY <1>1, <3>2
        <3>4. PICK least \in bad : least = Min(bad) /\ \A m \in bad : least <= m
            BY <2>2, <3>3, MinIsLeast
        <3>5. least - 1 \in 0 .. L /\ \A m \in 1 .. least - 1 : m \notin bad
            BY <1>1, <3>2, <3>4
        <3> QED BY <3>1, <3>4, <3>5
    <2> QED BY <2>1, <2>2
<1> DEFINE after == ApplySlots(s, base, L)[n]
<1> HIDE DEF base, L
<1>6. Typed(after)
    BY <1>1, <1>3, <1>4, <1>5, SlotsTyped
<1>7. DOMAIN after = Keys /\ IsMap(after)
    BY <1>1, <1>3, <1>5, ApplySlotsDomain
<1> HIDE DEF after
<1>8. after \in State
    BY <1>6, <1>7 DEF Typed, IsMap, State
<1> QED BY <1>5, <1>8 DEF TypeInv, after

\* So does the coordinator.
LEMMA CoordinatorKeepsTypes ==
    ASSUME SpecInv, SlotInv, TypeInv, NEW s \in Shards, Coordinator(s), UNCHANGED fallbackVars
    PROVE  TypeInv'
<1>1. UNCHANGED <<batch, effect_reads, effect_stray, reads, mail>> /\ Txs' = Txs
    BY DEF Coordinator, StartBatch, CollectOutcome, Install, history, workerVars, netVars, fallbackVars, Txs
<1>2. store' \in [Shards -> State]
    BY InstallTyped DEF TypeInv, Coordinator, StartBatch, CollectOutcome
<1>3. results' \in [Shards -> [Txs -> {"absent", "Pending", "NotResponsible"} \cup TxResult]]
    <2> DEFINE reg == [i \in Txs |-> IF result_shard(batch[i]) = s THEN "Pending" ELSE "NotResponsible"]
    <2>1. results' = results \/ results' = [results EXCEPT ![s] = reg]
        BY DEF Coordinator, StartBatch, CollectOutcome, Install
    <2>2. reg \in [Txs -> {"absent", "Pending", "NotResponsible"} \cup TxResult]
        OBVIOUS
    <2> HIDE DEF reg
    <2> QED BY <2>1, <2>2 DEF TypeInv
<1> QED BY <1>1, <1>2, <1>3 DEF TypeInv, Grid

-----------------------------------------------------------------------------
(* Types: the fallback *)

\* The vocabulary of LockingBatch means the same in both phases.
LEMMA FallbackSets ==
    /\ Fallback!Shards = Shards /\ Fallback!Txs = Txs
    /\ \A tx : Fallback!ReadSet(tx) = ReadSet(tx)
    /\ \A tx, s : Fallback!LocalReadKeys(tx, s) = LocalReadKeys(tx, s)
<1>1. Fallback!Shards = Shards /\ Fallback!Txs = Txs
    BY DEF Fallback!Shards, Shards, Fallback!Txs, Txs
<1>2. \A tx : Fallback!ReadSet(tx) = ReadSet(tx)
    BY DEF Fallback!ReadSet, ReadSet, Fallback!DeriveReadSet, DeriveReadSet,
           Fallback!DegenerateRename, DegenerateRename, Fallback!Parent, Parent, Fallback!Root, Root
<1> QED BY <1>1, <1>2 DEF Fallback!LocalReadKeys, LocalReadKeys

LEMMA FallbackLogic ==
    /\ \A op, r : Fallback!ExecuteDeterministic(op, r) = ExecuteDeterministic(op, r)
    /\ \A st, ws, K : Fallback!ApplyWrites(st, ws, K) = ApplyWrites(st, ws, K)
<1>1. \A op, r : Fallback!ExecuteDeterministic(op, r) = ExecuteDeterministic(op, r)
    BY DEF Fallback!ExecuteDeterministic, Fallback!DeriveReadSet, Fallback!exec_mkdir,
           Fallback!exec_create, Fallback!exec_stat, Fallback!exec_unlink, Fallback!exec_rmdir,
           Fallback!exec_rename, Fallback!RenameChecks, Fallback!RenameWrites,
           Fallback!ParentChecks, Fallback!FirstFailure, Fallback!Output, Fallback!NoWrites,
           Fallback!Put, Fallback!Delete, Fallback!Present, Fallback!IsDir,
           Fallback!MoreChildren, Fallback!FewerChildren, Fallback!DegenerateRename,
           Fallback!Parent, Fallback!Root, Fallback!Missing, Fallback!directory, Fallback!file,
           ExecuteDeterministic, DeriveReadSet, exec_mkdir, exec_create, exec_stat, exec_unlink,
           exec_rmdir, exec_rename, RenameChecks, RenameWrites, ParentChecks, FirstFailure,
           Output, NoWrites, Put, Delete, Present, IsDir, MoreChildren, FewerChildren,
           DegenerateRename, Parent, Root, Missing, directory, file, Min, Fallback!Min
<1>2. \A st, ws, K : Fallback!ApplyWrites(st, ws, K) = ApplyWrites(st, ws, K)
    BY DEF Fallback!ApplyWrites, ApplyWrites, Fallback!Max, Max
<1> QED BY <1>1, <1>2

\* What a step of the fallback does to the data: a shard reads its store, a
\* message carries the reads of its sender, reads are merged, and writes applied.
Replaced(f, g, s, i, v) ==
    /\ Grid(g, Txs) /\ g[s][i] = v
    /\ \A t \in Shards, j \in Txs : (t # s \/ j # i) => g[t][j] = f[t][j]

FallbackReads(s, i) ==
    /\ UNCHANGED <<store, results, mail>>
    /\ Replaced(reads, reads', s, i, [k \in LocalReadKeys(batch[i], s) |-> store[s][k]])

FallbackSends(s, i) ==
    /\ UNCHANGED <<store, results, reads>> /\ Grid(mail', Txs)
    /\ \A t \in Shards, j \in Txs : \A m \in mail'[t][j] : m \in mail[t][j] \/ m.reads = reads[s][i]

FallbackCollects(s, i) ==
    /\ UNCHANGED <<store, results>> /\ Grid(mail', Txs)
    /\ \A t \in Shards, j \in Txs : mail'[t][j] \subseteq mail[t][j]
    /\ \/ UNCHANGED reads
       \/ \E m \in mail[s][i] : Replaced(reads, reads', s, i, MergeReads(reads[s][i], m.reads))

FallbackExecutes(s, i) ==
    LET output == ExecuteDeterministic(batch[i].op, reads[s][i])
    IN  /\ UNCHANGED <<reads, mail>>
        /\ DOMAIN reads[s][i] = ReadSet(batch[i])
        /\ \E kept \in SUBSET DOMAIN output.writes :
              store' = [store EXCEPT ![s] = ApplyWrites(store[s], output.writes, kept)]
        /\ results' = results \/ results' = [results EXCEPT ![s][i] = output.result]

\* Updating one entry of a grid.
LEMMA GridUpdate ==
    ASSUME NEW f, Grid(f, Txs), NEW s \in Shards, NEW i \in Txs, NEW v
    PROVE  Replaced(f, [f EXCEPT ![s][i] = v], s, i, v)
BY DEF Grid, Replaced

\* Every worker of the fallback takes one of these steps, or leaves the data alone.
LEMMA FallbackData ==
    ASSUME SpecInv, TypeInv, NEW s \in Shards, NEW i \in Txs,
           Fallback!Worker(s, i) \/ Fallback!FailReadResult(s, i)
    PROVE  \/ UNCHANGED <<store, results, reads, mail>>
           \/ FallbackReads(s, i) \/ FallbackSends(s, i)
           \/ FallbackCollects(s, i) \/ FallbackExecutes(s, i)
<1>0. Grid(reads, Txs) /\ Grid(mail, Txs) /\ store \in [Shards -> State]
    BY DEF TypeInv
<1>1. CASE Fallback!AcquireAndRead(s, i)
    <2> DEFINE v == [k \in LocalReadKeys(batch[i], s) |-> store[s][k]]
    <2>1. UNCHANGED <<store, results, mail>> /\ reads' = [reads EXCEPT ![s][i] = v]
        BY <1>1, FallbackSets DEF Fallback!AcquireAndRead, Fallback!shardVars, Fallback!netVars
    <2> HIDE DEF v
    <2>2. Replaced(reads, reads', s, i, v)
        BY <1>0, <2>1, GridUpdate
    <2> QED BY <2>1, <2>2 DEF FallbackReads, v
<1>2. CASE Fallback!SendReadResult(s, i) \/ Fallback!FailReadResult(s, i)
    <2> DEFINE msg == [from |-> s, reads |-> reads[s][i]]
    <2>1. /\ UNCHANGED <<store, results, reads>>
          /\ mail' = mail \/ \E t : mail' = [mail EXCEPT ![t][i] = @ \cup {msg}]
        BY <1>2 DEF Fallback!SendReadResult, Fallback!FailReadResult, Fallback!Route, Fallback!shardVars
    <2>2. Grid(mail', Txs)
        BY <1>0, <2>1 DEF Grid
    <2>3. msg.reads = reads[s][i]
        OBVIOUS
    <2> HIDE DEF msg
    <2>4. ASSUME NEW t \in Shards, NEW j \in Txs, NEW m \in mail'[t][j]
          PROVE  m \in mail[t][j] \/ m = msg
        BY <1>0, <2>1, <2>4 DEF Grid
    <2> QED BY <2>1, <2>2, <2>3, <2>4 DEF FallbackSends
<1>3. CASE Fallback!CollectReadResult(s, i)
    <2>1. UNCHANGED <<store, results>>
        BY <1>3 DEF Fallback!CollectReadResult, Fallback!shardVars
    <2>2. PICK m \in mail[s][i] :
             /\ mail' = [mail EXCEPT ![s][i] = @ \ {m}]
             /\ \/ UNCHANGED reads
                \/ reads' = [reads EXCEPT ![s][i] = Fallback!MergeReads(@, m.reads)]
        BY <1>3 DEF Fallback!CollectReadResult
    <2>3. Grid(mail', Txs) /\ \A t \in Shards, j \in Txs : mail'[t][j] \subseteq mail[t][j]
        BY <1>0, <2>2 DEF Grid
    <2>4. CASE reads' # reads
        <3> DEFINE v == MergeReads(reads[s][i], m.reads)
        <3>1. Fallback!MergeReads(reads[s][i], m.reads) = v
            BY DEF Fallback!MergeReads, MergeReads
        <3> HIDE DEF v
        <3>2. reads' = [reads EXCEPT ![s][i] = v]
            BY <1>0, <2>2, <2>4, <3>1 DEF Grid
        <3>3. Replaced(reads, reads', s, i, v)
            BY <1>0, <3>2, GridUpdate
        <3> QED BY <2>1, <2>3, <3>3 DEF FallbackCollects, v
    <2> QED BY <2>1, <2>3, <2>4 DEF FallbackCollects
<1>4. CASE Fallback!ExecuteAndApply(s, i)
    <2> DEFINE output == ExecuteDeterministic(batch[i].op, reads[s][i])
               kept == Fallback!FilterLocalWrites(output.writes, s)
    <2>1. UNCHANGED <<reads, mail>>
        BY <1>4 DEF Fallback!ExecuteAndApply, Fallback!netVars
    <2>2. \/ UNCHANGED <<store, results>>
          \/ /\ DOMAIN reads[s][i] = ReadSet(batch[i])
             /\ store' = [store EXCEPT ![s] = ApplyWrites(@, output.writes, kept)]
             /\ results' = results \/ results' = [results EXCEPT ![s][i] = output.result]
        BY <1>4, FallbackSets, FallbackLogic DEF Fallback!ExecuteAndApply
    <2>3. kept \in SUBSET DOMAIN output.writes
        BY DEF Fallback!FilterLocalWrites
    <2>4. CASE DOMAIN reads[s][i] = ReadSet(batch[i]) /\ ~UNCHANGED <<store, results>>
        <3>1. store' = [store EXCEPT ![s] = ApplyWrites(store[s], output.writes, kept)]
            <4> HIDE DEF output, kept
            <4> QED BY <2>2, <2>4
        <3> QED BY <2>1, <2>2, <2>3, <2>4, <3>1 DEF FallbackExecutes
    <2> QED BY <2>1, <2>2, <2>4
<1>5. CASE Fallback!OrphanFails(s, i)
    BY <1>5 DEF Fallback!OrphanFails, Fallback!shardVars, Fallback!netVars
<1> QED BY <1>1, <1>2, <1>3, <1>4, <1>5 DEF Fallback!Worker

\* So the fallback keeps everything typed.
LEMMA FallbackKeepsTypes ==
    ASSUME SpecInv, PublishInv, TypeInv, FallbackStep
    PROVE  TypeInv'
<1>1. UNCHANGED <<batch, slot, effect_reads, effect_stray>> /\ Txs' = Txs
    BY DEF FallbackStep, history, specVars, workerVars, Txs
<1> DEFINE R == {"absent", "Pending", "NotResponsible"} \cup TxResult
           Data == /\ store' \in [Shards -> State] /\ results' \in [Shards -> [Txs -> R]]
                   /\ Grid(reads', Txs) /\ Grid(mail', Txs)
                   /\ \A t \in Shards, j \in Txs : Typed(reads'[t][j]) /\ \A m \in mail'[t][j] : Typed(m.reads)
<1>2. /\ store \in [Shards -> State] /\ results \in [Shards -> [Txs -> R]]
      /\ Grid(reads, Txs) /\ Grid(mail, Txs)
      /\ \A t \in Shards, j \in Txs : Typed(reads[t][j]) /\ \A m \in mail[t][j] : Typed(m.reads)
    BY DEF TypeInv
<1>3. ASSUME UNCHANGED <<store, results, reads, mail>> PROVE Data
    BY <1>2, <1>3
<1>4. ASSUME NEW s \in Shards, Fallback!Coordinator(s) PROVE Data
    <2>1. UNCHANGED <<store, reads, mail>>
        BY <1>4 DEF Fallback!Coordinator, Fallback!StartBatch, Fallback!CollectOutcome,
                    Fallback!FinishBatch, Fallback!netVars, Fallback!workVars
    <2>2. results' = results \/ results' = [results EXCEPT ![s] = Fallback!RegisterResults(s)]
        BY <1>4 DEF Fallback!Coordinator, Fallback!StartBatch, Fallback!CollectOutcome, Fallback!FinishBatch
    <2>3. Fallback!RegisterResults(s) \in [Txs -> R]
        BY <1>2, FallbackSets DEF Fallback!RegisterResults, Fallback!Registered
    <2>4. results' \in [Shards -> [Txs -> R]]
        <3> HIDE DEF R
        <3> QED BY <1>2, <2>2, <2>3
    <2> QED BY <1>2, <2>1, <2>4
<1>5. ASSUME NEW s \in Shards, NEW i \in Txs, Fallback!Worker(s, i) \/ Fallback!FailReadResult(s, i)
      PROVE  Data
    <2>0. /\ batch[i].op \in FsOp /\ LocalReadKeys(batch[i], s) \subseteq Keys
        BY TxFacts DEF SpecInv, SpecType
    <2>1. CASE FallbackReads(s, i)
        <3>1. Typed([k \in LocalReadKeys(batch[i], s) |-> store[s][k]])
            BY <1>2, <2>0 DEF Typed, State
        <3> QED BY <1>2, <2>1, <3>1 DEF FallbackReads, Replaced
    <2>2. CASE FallbackSends(s, i)
        BY <1>2, <2>2 DEF FallbackSends
    <2>3. CASE FallbackCollects(s, i)
        <3>1. CASE UNCHANGED reads
            BY <1>2, <2>3, <3>1 DEF FallbackCollects
        <3>2. ASSUME NEW m \in mail[s][i],
                     Replaced(reads, reads', s, i, MergeReads(reads[s][i], m.reads))
              PROVE  Data
            <4>1. Typed(MergeReads(reads[s][i], m.reads))
                BY <1>2 DEF Typed, MergeReads
            <4> QED BY <1>2, <2>3, <3>2, <4>1 DEF FallbackCollects, Replaced
        <3> QED BY <2>3, <3>1, <3>2 DEF FallbackCollects
    <2>4. CASE FallbackExecutes(s, i)
        <3> DEFINE output == ExecuteDeterministic(batch[i].op, reads[s][i])
        <3>1. /\ DOMAIN reads[s][i] = DeriveReadSet(batch[i].op)
              /\ \A k \in DeriveReadSet(batch[i].op) : reads[s][i][k] \in ReadValue
            BY <1>2, <2>4 DEF FallbackExecutes, ReadSet, Typed
        <3>2. output \in Outcome(DeriveWriteSet(batch[i].op))
            BY <2>0, <3>1, WritesStayInWriteSet
        <3>3. output.result \in R /\ output.writes \in Writes(DeriveWriteSet(batch[i].op))
            BY <3>2 DEF Outcome
        <3>4. /\ UNCHANGED <<reads, mail>>
              /\ \E kept \in SUBSET DOMAIN output.writes :
                    store' = [store EXCEPT ![s] = ApplyWrites(store[s], output.writes, kept)]
              /\ results' = results \/ results' = [results EXCEPT ![s][i] = output.result]
            BY <2>4 DEF FallbackExecutes
        <3> HIDE DEF output, R
        <3>5. PICK kept \in SUBSET DOMAIN output.writes :
                 store' = [store EXCEPT ![s] = ApplyWrites(store[s], output.writes, kept)]
            BY <3>4
        <3>6. store[s] \in State
            BY <1>2
        <3>7. ApplyWrites(store[s], output.writes, kept) \in State
            BY <3>3, <3>6, ApplyWritesType
        <3>8. store' \in [Shards -> State]
            BY <1>2, <3>5, <3>7
        <3>9. results' \in [Shards -> [Txs -> R]]
            <4>1. PICK r \in R : r = output.result
                BY <3>3
            <4>2. results \in [Shards -> [Txs -> R]]
                BY <1>2
            <4>3. [results EXCEPT ![s][i] = r] \in [Shards -> [Txs -> R]]
                BY <4>2, TypedUpdate
            <4> QED BY <3>4, <4>1, <4>2, <4>3
        <3> QED BY <1>2, <3>4, <3>8, <3>9
    <2> QED BY <1>3, <1>5, <2>1, <2>2, <2>3, <2>4, FallbackData
<1>6. \/ \E s \in Shards : Fallback!Coordinator(s)
      \/ \E s \in Shards, i \in Txs : Fallback!Worker(s, i) \/ Fallback!FailReadResult(s, i)
    BY DEF FallbackStep, Fallback!TaskStep, Fallback!Txs, Txs, Fallback!Shards, Shards
<1>7. Data
    BY <1>4, <1>5, <1>6
<1> QED BY <1>1, <1>7 DEF TypeInv, Grid

\* Every step keeps everything typed.
LEMMA TypesStep ==
    SpecInv /\ PublishInv /\ SlotInv /\ TypeInv /\ [SchedulerNext]_allVars => TypeInv'
<1> SUFFICES ASSUME SpecInv, PublishInv, SlotInv, TypeInv, [SchedulerNext]_allVars PROVE TypeInv'
    OBVIOUS
<1>1. CASE UNCHANGED allVars
    <2>1. UNCHANGED <<batch, store, results, effect_stray, effect_reads, reads, mail>>
        BY <1>1 DEF allVars, vars, fallbackVars, history, shardVars, workerVars, netVars
    <2> QED BY <2>1 DEF TypeInv, Grid, Txs
<1>2. CASE FallbackStep
    BY <1>2, FallbackKeepsTypes
<1>3. FallBack => FallbackStep
    BY DEF FallBack, FallbackStep
<1>4. RpcFails => FallbackStep \/ \E s \in Shards, i \in Txs : FailReadResult(s, i) /\ UNCHANGED fallbackVars
    BY DEF RpcFails, FallbackStep
<1>5. ASSUME NEW s \in Shards, NEW i \in Txs, Worker(s, i) \/ FailReadResult(s, i), UNCHANGED fallbackVars
      PROVE  TypeInv'
    BY <1>5, WorkerKeepsTypes
<1>6. ASSUME NEW s \in Shards, Coordinator(s), UNCHANGED fallbackVars PROVE TypeInv'
    BY <1>6, CoordinatorKeepsTypes
<1> QED BY <1>1, <1>2, <1>3, <1>4, <1>5, <1>6 DEF SchedulerNext, Speculate, TaskStep

\* The state of the SCC scheduler is well formed in both phases: deltas never make
\* anything but inodes of inodes, also where apply_delta_to_state stops the
\* installation, and every slot holds a delta of keys of its own shard.
THEOREM SpeculationTypeCorrect == SchedulerSpec => []SpeculationTypeOK
<1>1. SpecInv /\ SlotInv /\ TypeInv => SpeculationTypeOK
    <2> SUFFICES ASSUME SpecInv, SlotInv, TypeInv PROVE SpeculationTypeOK
        OBVIOUS
    <2>1. \A s \in Shards, m \in Txs :
             /\ slot[s][m].state \in {"Pending", "NoOp", "Delta", "Failed"}
             /\ IsDelta(s, slot[s][m].delta)
        BY SlotType
    <2> QED BY <2>1 DEF SpeculationTypeOK, SpecInv, SpecType, WorkerStates, SlotInv, TypeInv
<1> QED BY <1>1, TypesInit, TypesStep, SlotsInvariant, PTL DEF SchedulerSpec

-----------------------------------------------------------------------------
(* The fallback as a batch of its own.  The shards enter it one by one while *)
(* others still speculate, so the set of transactions that it executes is    *)
(* known only at the end.  Doomed is a guess at it, whatever it be: as long  *)
(* as the guess may still come true, the fallback is LockingBatch on the     *)
(* transactions of Doomed and on the state that the others lead to.  A shard *)
(* that has not entered the fallback, or has no part in it, is one to which  *)
(* that batch has not come yet.                                              *)

CONSTANT Doomed     \* a set of transactions of the batch

Foreseen == Doomed \subseteq Txs /\ MayFail(Doomed)

\* The shard is in the fallback or has done its part of it; the store holds what the
\* speculation leaves.
InFallback(s)   == status[s] = "running" \/ (status[s] = "done" /\ FailedIndices(s) # {})
HasInstalled(s) == status[s] \in {"waiting", "running", "done"} \/ FallsBack(s)

FResult(s, i) ==
    IF i \notin Doomed THEN "absent"
    ELSE IF s # result_shard(batch[i]) THEN "NotResponsible"
    ELSE IF results[s][i] \in TxResult THEN results[s][i] ELSE "Pending"

FStatus  == [s \in Shards |-> IF InFallback(s) \/ status[s] = "failed" THEN status[s] ELSE "waiting"]
FStore   == [s \in Shards |-> IF HasInstalled(s) THEN store[s]
                              ELSE Part(SuccessState(start, batch, Doomed), s)]
FResults == [s \in Shards |-> [i \in Txs |-> FResult(s, i)]]
FMembers == [s \in Shards |-> Doomed]
FSerial  == FallbackRun(start, batch, Doomed)

F == INSTANCE LockingBatchSerial_proofs WITH
         Scheduler <- "CalvinLocking", members <- FMembers, serial <- FSerial,
         status <- FStatus, store <- FStore, results <- FResults

FallsBackSerially == Foreseen => F!LockingInv

\* A transaction that has committed has been answered Ok by its result shard.
PublishesOk ==
    \A s \in Shards, i \in Txs :
        s = result_shard(batch[i]) /\ s \in Participants(i) /\ Succeeded(s, i) =>
            results[s][i] = "Ok"

-----------------------------------------------------------------------------
\* The assumptions of LockingBatch are those of this module.
LEMMA FallbackAssumptions == F!KeysAssumption /\ F!RouterAssumption /\ F!BatchAssumption
<1>1. F!KeysAssumption
    BY KeysAssumption DEF F!Parent, F!Root, Parent, Root
<1>2. F!RouterAssumption
    BY RouterAssumption DEF F!Shards, Shards
<1>3. F!BatchAssumption
    BY SccAssumption DEF F!BatchAssumption, F!OrderedTx, OrderedTx, F!FsOp, FsOp, F!State, State,
                         F!ReadValue, ReadValue, F!Inode, Inode, F!Missing, Missing
<1> QED BY <1>1, <1>2, <1>3

\* The vocabulary of LockingBatch means the same in the three places.
LEMMA SameSets ==
    /\ F!Shards = Shards /\ Fallback!Shards = Shards
    /\ F!Txs = Txs /\ Fallback!Txs = Txs
    /\ F!State = State /\ F!Missing = Missing /\ F!TxResult = TxResult
    /\ \A tx : F!ReadSet(tx) = ReadSet(tx) /\ Fallback!ReadSet(tx) = ReadSet(tx)
    /\ \A tx : F!WriteSet(tx) = WriteSet(tx) /\ Fallback!WriteSet(tx) = WriteSet(tx)
<1>1. F!Shards = Shards /\ Fallback!Shards = Shards
    BY DEF F!Shards, Fallback!Shards, Shards
<1>2. F!Txs = Txs /\ Fallback!Txs = Txs
    BY DEF F!Txs, Fallback!Txs, Txs
<1>3. F!State = State /\ F!Missing = Missing /\ F!TxResult = TxResult
    BY DEF F!State, State, F!ReadValue, ReadValue, F!Inode, Inode, F!Missing, Missing,
           F!TxResult, TxResult
<1>4. \A tx : F!ReadSet(tx) = ReadSet(tx) /\ Fallback!ReadSet(tx) = ReadSet(tx)
    BY DEF F!ReadSet, Fallback!ReadSet, ReadSet, F!DeriveReadSet, Fallback!DeriveReadSet,
           DeriveReadSet, F!DegenerateRename, Fallback!DegenerateRename, DegenerateRename,
           F!Parent, Fallback!Parent, Parent, F!Root, Fallback!Root, Root
<1>5. \A tx : F!WriteSet(tx) = WriteSet(tx) /\ Fallback!WriteSet(tx) = WriteSet(tx)
    BY <1>4 DEF F!WriteSet, Fallback!WriteSet, WriteSet, F!DeriveWriteSet, Fallback!DeriveWriteSet,
                DeriveWriteSet, F!ReadSet, Fallback!ReadSet, ReadSet
<1> QED BY <1>1, <1>2, <1>3, <1>4, <1>5

LEMMA SameLogic ==
    /\ \A op, r : F!ExecuteDeterministic(op, r) = ExecuteDeterministic(op, r)
    /\ \A st, ws, K : F!ApplyWrites(st, ws, K) = ApplyWrites(st, ws, K)
    /\ \A st, op : F!ReferenceOutput(st, op) = ReferenceOutput(st, op)
    /\ \A st, op : F!ApplyReferenceTx(st, op) = ApplyReferenceTx(st, op)
<1>1. \A op, r : F!ExecuteDeterministic(op, r) = ExecuteDeterministic(op, r)
    BY DEF F!ExecuteDeterministic, F!DeriveReadSet, F!exec_mkdir, F!exec_create, F!exec_stat,
           F!exec_unlink, F!exec_rmdir, F!exec_rename, F!RenameChecks, F!RenameWrites,
           F!ParentChecks, F!FirstFailure, F!Output, F!NoWrites, F!Put, F!Delete, F!Present,
           F!IsDir, F!MoreChildren, F!FewerChildren, F!DegenerateRename, F!Parent, F!Root,
           F!Missing, F!directory, F!file, ExecuteDeterministic, DeriveReadSet, exec_mkdir,
           exec_create, exec_stat, exec_unlink, exec_rmdir, exec_rename, RenameChecks,
           RenameWrites, ParentChecks, FirstFailure, Output, NoWrites, Put, Delete, Present,
           IsDir, MoreChildren, FewerChildren, DegenerateRename, Parent, Root, Missing,
           directory, file, Min, F!Min
<1>2. \A st, ws, K : F!ApplyWrites(st, ws, K) = ApplyWrites(st, ws, K)
    BY DEF F!ApplyWrites, ApplyWrites, F!Max, Max
<1>3. \A st, op : F!ReadFrom(st, op) = ReadFrom(st, op)
    BY DEF F!ReadFrom, ReadFrom, F!DeriveReadSet, DeriveReadSet, F!DegenerateRename,
           DegenerateRename, F!Parent, Parent, F!Root, Root
<1>4. \A st, op : F!ReferenceOutput(st, op) = ReferenceOutput(st, op)
    BY <1>1, <1>3 DEF F!ReferenceOutput, ReferenceOutput
<1>5. \A st, op : F!ApplyReferenceTx(st, op) = ApplyReferenceTx(st, op)
    BY <1>2, <1>4 DEF F!ApplyReferenceTx, ApplyReferenceTx
<1> QED BY <1>1, <1>2, <1>4, <1>5

\* Who takes part in the fallback of a transaction, and with what.
LEMMA SameParts ==
    /\ \A i : F!Active(i) = Fallback!Active(i)
    /\ \A i : F!ReadSources(i) = Fallback!ReadSources(i)
    /\ \A i : F!ResultShard(i) = result_shard(batch[i])
    /\ \A s, i : F!Expected(s, i) = Fallback!Expected(s, i)
    /\ \A s, i : F!AfterSend(s, i) = Fallback!AfterSend(s, i)
    /\ \A tx, s : F!LocalReadKeys(tx, s) = Fallback!LocalReadKeys(tx, s)
    /\ \A tx, s : F!LocalWriteKeys(tx, s) = Fallback!LocalWriteKeys(tx, s)
    /\ \A tx, s : F!LocalLockKeys(tx, s) = Fallback!LocalLockKeys(tx, s)
    /\ \A ws, s : F!FilterLocalWrites(ws, s) = Fallback!FilterLocalWrites(ws, s)
<1>0. /\ \A S : F!OwnersOf(S) = OwnersOf(S) /\ Fallback!OwnersOf(S) = OwnersOf(S)
      /\ \A S : F!Min(S) = Min(S) /\ Fallback!Min(S) = Min(S)
    BY DEF F!OwnersOf, Fallback!OwnersOf, OwnersOf, F!Min, Fallback!Min, Min
<1>1. \A tx : /\ F!ActiveParticipants(tx) = ActiveParticipants(tx)
              /\ Fallback!ActiveParticipants(tx) = ActiveParticipants(tx)
              /\ F!AllParticipants(tx) = AllParticipants(tx)
              /\ Fallback!AllParticipants(tx) = AllParticipants(tx)
    BY <1>0, SameSets DEF F!ActiveParticipants, Fallback!ActiveParticipants, ActiveParticipants,
           F!ReadOnlyCoordinator, Fallback!ReadOnlyCoordinator, ReadOnlyCoordinator,
           F!AllParticipants, Fallback!AllParticipants, AllParticipants
<1>2. \A i : F!Active(i) = Fallback!Active(i) /\ F!ReadSources(i) = Fallback!ReadSources(i)
    BY <1>1 DEF F!Active, Fallback!Active, F!ReadSources, Fallback!ReadSources
<1>3. \A i : F!ResultShard(i) = result_shard(batch[i])
    BY <1>0, <1>1 DEF F!ResultShard, F!result_shard, result_shard
<1>4. \A s, i : F!Expected(s, i) = Fallback!Expected(s, i)
    BY <1>2 DEF F!Expected, Fallback!Expected
<1>5. \A s, i : F!AfterSend(s, i) = Fallback!AfterSend(s, i)
    BY <1>2 DEF F!AfterSend, Fallback!AfterSend
<1>6. \A tx, s : F!LocalReadKeys(tx, s) = Fallback!LocalReadKeys(tx, s)
    BY SameSets DEF F!LocalReadKeys, Fallback!LocalReadKeys
<1>7. \A tx, s : F!LocalWriteKeys(tx, s) = Fallback!LocalWriteKeys(tx, s)
    BY SameSets DEF F!LocalWriteKeys, Fallback!LocalWriteKeys
<1>8. \A tx, s : F!LocalLockKeys(tx, s) = Fallback!LocalLockKeys(tx, s)
    BY SameSets DEF F!LocalLockKeys, Fallback!LocalLockKeys
<1>9. \A ws, s : F!FilterLocalWrites(ws, s) = Fallback!FilterLocalWrites(ws, s)
    BY DEF F!FilterLocalWrites, Fallback!FilterLocalWrites
<1> QED BY <1>2, <1>3, <1>4, <1>5, <1>6, <1>7, <1>8, <1>9

\* Only participants of a transaction take part in its fallback, its result shard
\* among them.
LEMMA ActiveParticipate ==
    ASSUME batch \in Batches, NEW i \in Txs
    PROVE  /\ Fallback!Active(i) \subseteq Participants(i)
           /\ result_shard(batch[i]) \in Fallback!Active(i)
           /\ Participants(i) \subseteq Shards
           /\ \A s : s \notin Participants(i) => Fallback!LocalLockKeys(batch[i], s) = {}
<1>1. /\ batch[i].op \in FsOp /\ Participants(i) \subseteq Shards
      /\ ReadSet(batch[i]) \subseteq Keys
    BY TxFacts
<1>2. WriteSet(batch[i]) \subseteq ReadSet(batch[i]) /\ ReadSet(batch[i]) # {}
    BY <1>1, SetsInKeys DEF ReadSet, WriteSet, DeriveReadSet
<1>3. Participants(i) = OwnersOf(ReadSet(batch[i])) /\ Participants(i) # {}
    <2>1. ReadSet(batch[i]) \cup WriteSet(batch[i]) = ReadSet(batch[i])
        BY <1>2
    <2> QED BY <1>2, <2>1 DEF Participants, AllParticipants, OwnersOf
<1>4. \A S \in SUBSET Shards : S # {} => Min(S) \in S
    <2> SUFFICES ASSUME NEW S \in SUBSET Shards, S # {} PROVE Min(S) \in S
        OBVIOUS
    <2>1. S \subseteq Nat
        BY RouterAssumption DEF Shards
    <2> QED BY <2>1, NatMin DEF Min
<1>5. /\ \A tx : /\ Fallback!ActiveParticipants(tx) = ActiveParticipants(tx)
                 /\ Fallback!AllParticipants(tx) = AllParticipants(tx)
    BY SameSets DEF Fallback!ActiveParticipants, ActiveParticipants,
           Fallback!ReadOnlyCoordinator, ReadOnlyCoordinator,
           Fallback!AllParticipants, AllParticipants, Fallback!OwnersOf, OwnersOf
<1>6. Fallback!Active(i) = ActiveParticipants(batch[i])
    BY <1>5 DEF Fallback!Active
<1>7. ActiveParticipants(batch[i]) \subseteq Participants(i) /\ ActiveParticipants(batch[i]) # {}
    BY <1>2, <1>3 DEF ActiveParticipants, ReadOnlyCoordinator, OwnersOf
<1>8. result_shard(batch[i]) \in ActiveParticipants(batch[i])
    BY <1>1, <1>4, <1>7 DEF result_shard
<1>9. ASSUME NEW s, s \notin Participants(i) PROVE Fallback!LocalLockKeys(batch[i], s) = {}
    BY <1>9, SameSets DEF Fallback!LocalLockKeys, Participants, AllParticipants, OwnersOf
<1> QED BY <1>1, <1>6, <1>7, <1>8, <1>9

-----------------------------------------------------------------------------
(* What the guess comes to *)

\* Only participants fail a transaction.
LEMMA FailedParticipate ==
    ASSUME SlotInv, NEW s \in Shards, NEW i \in FailedIndices(s)
    PROVE  i \in Txs /\ s \in Participants(i)
BY DEF SlotInv, Slots, FailedIndices, Failed, Pending, NoOp

\* On a shard whose slots are all set it has come true.
LEMMA DoomedHere ==
    ASSUME SpecInv, SlotInv, Foreseen, NEW s \in Shards, AllSet(s)
    PROVE  /\ \A i \in Txs : s \in Participants(i) => (i \in Doomed <=> i \in FailedIndices(s))
           /\ FailedIndices(s) \subseteq Doomed
<1>1. ASSUME NEW i \in Txs, s \in Participants(i) PROVE i \in Doomed <=> i \in FailedIndices(s)
    <2>1. Slots(s, i) /\ slot[s][i] # Pending
        BY DEF SlotInv, AllSet
    <2>2. slot[s][i] = Failed => i \in Doomed /\ ~Succeeded(s, i)
        BY DEF Foreseen, MayFail, AllFailed, FailedIndices, Succeeded, Failed
    <2>3. Succeeded(s, i) => i \notin Doomed
        BY <1>1 DEF Foreseen, MayFail
    <2> QED BY <2>1, <2>2, <2>3 DEF Slots, FailedIndices
<1>2. FailedIndices(s) \subseteq Doomed
    BY DEF Foreseen, MayFail, AllFailed
<1> QED BY <1>1, <1>2

\* So the lock table of such a shard is that of F.
LEMMA SameLocks ==
    ASSUME SpecInv, SlotInv, Foreseen, NEW s \in Shards, AllSet(s)
    PROVE  /\ \A i : F!LockKeys(s, i) = Fallback!LockKeys(s, i)
           /\ \A i : F!Relevant(s, i) = Fallback!Relevant(s, i)
           /\ \A k : F!LockRequests(s, k) = Fallback!LockRequests(s, k)
           /\ \A i : F!InitialGrants(s, i) = Fallback!InitialGrants(s, i)
           /\ \A i : F!Unlock(s, i) = Fallback!Unlock(s, i)
           /\ \A i : F!GrantNext(s, i) = Fallback!GrantNext(s, i)
           /\ F!AllCollected(s) = Fallback!AllCollected(s)
           /\ \A i, q : F!IsFront(i, q) = Fallback!IsFront(i, q)
<1>0. /\ \A i : i \in FMembers[s] <=> i \in Doomed
      /\ \A i : i \in FallbackMembers[s] <=> i \in FailedIndices(s)
      /\ Doomed \subseteq Txs /\ FailedIndices(s) \subseteq Txs /\ batch \in Batches
    BY DEF FMembers, FallbackMembers, Foreseen, FailedIndices, SpecInv, SpecType
<1>1. \A i : F!LockKeys(s, i) = Fallback!LockKeys(s, i)
    <2> SUFFICES ASSUME NEW i PROVE F!LockKeys(s, i) = Fallback!LockKeys(s, i)
        OBVIOUS
    <2>1. CASE i \in Txs /\ s \in Participants(i)
        BY <1>0, <2>1, DoomedHere, SameParts DEF F!LockKeys, Fallback!LockKeys
    <2>2. CASE i \in Txs /\ s \notin Participants(i)
        BY <1>0, <2>2, ActiveParticipate, SameParts DEF F!LockKeys, Fallback!LockKeys
    <2>3. CASE i \notin Txs
        BY <1>0, <2>3 DEF F!LockKeys, Fallback!LockKeys
    <2> QED BY <2>1, <2>2, <2>3
<1>2. \A i : F!Relevant(s, i) = Fallback!Relevant(s, i)
    <2> SUFFICES ASSUME NEW i PROVE F!Relevant(s, i) = Fallback!Relevant(s, i)
        OBVIOUS
    <2>1. CASE i \in Txs /\ s \in Participants(i)
        BY <1>0, <1>1, <2>1, DoomedHere, SameParts DEF F!Relevant, Fallback!Relevant
    <2>2. CASE i \in Txs /\ s \notin Participants(i)
        <3>1. Fallback!LockKeys(s, i) = {} /\ s \notin Fallback!Active(i)
            BY <1>0, <2>2, ActiveParticipate DEF Fallback!LockKeys
        <3> QED BY <1>1, <3>1, SameParts DEF F!Relevant, Fallback!Relevant
    <2>3. CASE i \notin Txs
        BY <1>0, <2>3 DEF F!Relevant, Fallback!Relevant
    <2> QED BY <2>1, <2>2, <2>3
<1>3. \A k : F!LockRequests(s, k) = Fallback!LockRequests(s, k)
    BY <1>1, SameSets DEF F!LockRequests, Fallback!LockRequests
<1>4. \A i, q : F!IsFront(i, q) = Fallback!IsFront(i, q)
    BY DEF F!IsFront, Fallback!IsFront
<1>5. \A i : F!InitialGrants(s, i) = Fallback!InitialGrants(s, i)
    BY <1>3, <1>4 DEF F!InitialGrants, Fallback!InitialGrants
<1>6. \A i : F!Unlock(s, i) = Fallback!Unlock(s, i)
    BY <1>1 DEF F!Unlock, Fallback!Unlock
<1>7. \A i : F!GrantNext(s, i) = Fallback!GrantNext(s, i)
    BY <1>1, <1>4, SameSets DEF F!GrantNext, Fallback!GrantNext
<1>8. F!AllCollected(s) = Fallback!AllCollected(s)
    BY <1>2, SameSets DEF F!AllCollected, Fallback!AllCollected
<1> QED BY <1>1, <1>2, <1>3, <1>4, <1>5, <1>6, <1>7, <1>8

\* A slot that is set stays as it is, whatever the step, and the reference stays.
LEMMA SlotsStay ==
    ASSUME SpecInv, PublishInv, [SchedulerNext]_allVars
    PROVE  /\ UNCHANGED <<batch, start>> /\ Txs' = Txs
           /\ \A t \in Shards, j \in Txs : slot[t][j] # Pending => slot'[t][j] = slot[t][j]
<1> SUFFICES /\ UNCHANGED <<batch, start>>
             /\ \A t \in Shards, j \in Txs : slot[t][j] # Pending => slot'[t][j] = slot[t][j]
    BY DEF Txs
<1>1. CASE FallbackStep \/ UNCHANGED allVars
    <2>1. UNCHANGED <<batch, start, slot>>
        BY <1>1 DEF FallbackStep, allVars, vars, history, specVars, workerVars
    <2> QED BY <2>1
<1>2. ASSUME NEW s \in Shards, NEW i \in Txs, Worker(s, i) \/ FailReadResult(s, i)
      PROVE  /\ UNCHANGED <<batch, start>>
             /\ \A t \in Shards, j \in Txs : slot[t][j] # Pending => slot'[t][j] = slot[t][j]
    BY <1>2, WorkerData, WorkerIsLocal, SlotsFinal DEF SpecInv
<1>3. ASSUME NEW s \in Shards, Coordinator(s)
      PROVE  /\ UNCHANGED <<batch, start>>
             /\ \A t \in Shards, j \in Txs : slot[t][j] # Pending => slot'[t][j] = slot[t][j]
    <2>1. CASE StartBatch(s)
        <3>1. \A j \in Txs : slot[s][j] = Pending
            BY <2>1 DEF StartBatch, SpecInv, Progress
        <3>2. UNCHANGED <<batch, start>> /\ \A t \in Shards : t # s => slot'[t] = slot[t]
            BY <2>1 DEF StartBatch, history, SpecInv, SpecType, Grid
        <3> QED BY <3>1, <3>2
    <2>2. CASE Install(s) \/ \E i \in Txs : CollectOutcome(s, i)
        BY <2>2 DEF Install, CollectOutcome, history, workerVars
    <2> QED BY <1>3, <2>1, <2>2 DEF Coordinator
<1> QED BY <1>1, <1>2, <1>3
        DEF SchedulerNext, Speculate, TaskStep, FallBack, RpcFails, FallbackStep

\* A guess that may still come true might have before.
LEMMA ForeseenBefore ==
    ASSUME SpecInv, PublishInv, [SchedulerNext]_allVars, Foreseen'
    PROVE  Foreseen
<1>1. /\ batch' = batch /\ Txs' = Txs
      /\ \A t \in Shards, j \in Txs : slot[t][j] # Pending => slot'[t][j] = slot[t][j]
    BY SlotsStay
<1>2. \A t \in Shards : FailedIndices(t) \subseteq FailedIndices(t)'
    BY <1>1 DEF FailedIndices, Failed, Pending
<1>3. AllFailed \subseteq AllFailed'
    BY <1>2 DEF AllFailed
<1>4. ASSUME NEW i \in Doomed \cap Txs, NEW t \in Participants(i) PROVE ~Succeeded(t, i)
    <2>1. t \in Shards /\ t \in Participants(i)'
        BY <1>1, <1>4, ActiveParticipate DEF Participants, SpecInv, SpecType
    <2>2. ~Succeeded(t, i)'
        BY <1>1, <1>4, <2>1 DEF Foreseen, MayFail
    <2> QED BY <1>1, <2>1, <2>2 DEF Succeeded, Pending
<1> QED BY <1>1, <1>3, <1>4 DEF Foreseen, MayFail

-----------------------------------------------------------------------------
(* Before the fallback *)

\* The reference execution: the successes lead to a state, and the run of the failed
\* transactions goes on from there.
LEMMA ReorderedRuns ==
    ASSUME batch \in Batches, start \in State, NEW f
    PROVE  /\ Len(batch) \in Nat /\ Txs = 1 .. Len(batch)
           /\ SuccessState(start, batch, f) \in State
           /\ \A s \in Shards : Part(SuccessState(start, batch, f), s) \in State
           /\ FallbackRun(start, batch, f) \in [0 .. Len(batch) -> State]
           /\ FallbackRun(start, batch, f)[0] = SuccessState(start, batch, f)
           /\ \A n \in 1 .. Len(batch) : FallbackRun(start, batch, f)[n] =
                 IF n \in f THEN ApplyReferenceTx(FallbackRun(start, batch, f)[n - 1], batch[n].op)
                 ELSE FallbackRun(start, batch, f)[n - 1]
<1> DEFINE L    == Len(batch)
           ok   == SpeculativeSuccesses(batch, f)
           base == SuccessState(start, batch, f)
<1>1. L \in Nat /\ Txs = 1 .. L
    BY SccAssumption DEF Txs
<1>2. \A n \in 1 .. L : batch[n].op \in FsOp
    BY <1>1, TxFacts
<1>3. base \in State
    <2>1. base = ExecuteIndices(start, batch, ok)[L]
        BY DEF SuccessState, SuccessRun
    <2> HIDE DEF base, ok
    <2>2. \A n \in 0 .. L : ExecuteIndices(start, batch, ok)[n] \in State
        BY <1>1, <1>2, ExecuteIndicesSteps
    <2> QED BY <1>1, <2>1, <2>2
<1>4. \A s \in Shards : Part(base, s) \in State
    <2> HIDE DEF base
    <2> QED BY <1>3, InodeTypes DEF Part, State
<1>5. FallbackRun(start, batch, f) = ExecuteIndices(base, batch, f)
    BY DEF FallbackRun
<1>6. /\ ExecuteIndices(base, batch, f)[0] = base
      /\ ExecuteIndices(base, batch, f) \in [0 .. L -> State]
      /\ \A n \in 1 .. L : ExecuteIndices(base, batch, f)[n] =
            IF n \in f THEN ApplyReferenceTx(ExecuteIndices(base, batch, f)[n - 1], batch[n].op)
            ELSE ExecuteIndices(base, batch, f)[n - 1]
    <2> HIDE DEF base
    <2> QED BY <1>1, <1>2, <1>3, ExecuteIndicesSteps
<1> QED BY <1>1, <1>3, <1>4, <1>5, <1>6

\* All shards execute the same transactions.
LEMMA FallbackHasMembers == F!Members = Doomed /\ F!SameMembers
<1>1. 0 \in Shards
    BY RouterAssumption DEF Shards
<1>2. F!Members = Doomed
    BY <1>1, SameSets DEF F!Members, FMembers
<1> QED BY <1>2, SameSets DEF F!SameMembers, FMembers

\* The fallback begins as a batch of its own does.
LEMMA FallbackIsFresh ==
    ASSUME SchedulerInit, Foreseen
    PROVE  F!Fresh
<1> DEFINE base == SuccessState(start, batch, Doomed)
<1>0. batch \in Batches /\ start \in State /\ Doomed \subseteq Txs
    BY SccAssumption DEF SchedulerInit, Init, Foreseen
<1>1. /\ Len(batch) \in Nat /\ Txs = 1 .. Len(batch)
      /\ base \in State
      /\ \A s \in Shards : Part(base, s) \in State
      /\ FSerial \in [0 .. Len(batch) -> State]
      /\ FSerial[0] = base
      /\ \A n \in 1 .. Len(batch) : FSerial[n] =
            IF n \in Doomed THEN ApplyReferenceTx(FSerial[n - 1], batch[n].op)
            ELSE FSerial[n - 1]
    BY <1>0, ReorderedRuns DEF FSerial
<1>2. \A s \in Shards : FStatus[s] = "waiting"
    BY DEF FStatus, SchedulerInit, Init, InFallback
<1>3. F!FreshLocks
    <2>1. FStatus \in [Shards -> {"waiting", "failed"}]
        BY <1>2 DEF FStatus
    <2>2. FMembers \in [Shards -> SUBSET Txs]
        BY <1>0 DEF FMembers
    <2> QED BY <1>0, <2>1, <2>2, SameSets DEF F!FreshLocks, SchedulerInit
<1>4. \A s \in Shards : FStore[s] = Part(base, s)
    BY DEF FStore, HasInstalled, FallsBack, SchedulerInit, Init
<1>5. F!FreshData
    <2>1. FStore \in [Shards -> State]
        BY <1>1, <1>4 DEF FStore
    <2>2. FResults \in [Shards -> [Txs -> {"absent", "Pending", "NotResponsible"}]]
        BY DEF FResults, FResult, SchedulerInit, Init, TxResult
    <2>3. rpcFailures \in 0 .. MaxRpcFailures
        BY SccAssumption DEF SchedulerInit, Init
    <2> QED BY <1>0, <1>1, <2>1, <2>2, <2>3, SameSets DEF F!FreshData, SchedulerInit
<1>6. F!HistoryInv
    BY <1>1, FallbackHasMembers, SameLogic DEF F!HistoryInv
<1>7. \A s \in Shards, k \in Keys : FStore[s][k] = IF Owner[k] = s THEN FSerial[0][k] ELSE Missing
    <2> SUFFICES ASSUME NEW s \in Shards, NEW k \in Keys
                 PROVE  FStore[s][k] = IF Owner[k] = s THEN FSerial[0][k] ELSE Missing
        OBVIOUS
    <2>1. FStore[s] = Part(base, s) /\ FSerial[0] = base
        BY <1>1, <1>4
    <2> HIDE DEF base
    <2> QED BY <2>1 DEF Part
<1> QED BY <1>3, <1>5, <1>6, <1>7, FallbackHasMembers, SameSets DEF F!Fresh

LEMMA FallsBackInit == SchedulerInit => FallsBackSerially
BY FallbackIsFresh, F!LockingFresh, FallbackAssumptions DEF FallsBackSerially

\* A shard that has installed holds its part of what the others lead to, whatever
\* the guess.
StoresForeseen ==
    \A s \in Shards : Installed(s) => store[s] = Part(SuccessState(start, batch, Doomed), s)

LEMMA InstalledForeseen ==
    ASSUME OnTrees, SpecInv, SlotInv, TypeInv, Foreseen
    PROVE  StoresForeseen
<1> SUFFICES ASSUME NEW s \in Shards, Installed(s)
             PROVE  store[s] = Part(SuccessState(start, batch, Doomed), s)
    BY DEF StoresForeseen
<1> DEFINE S == Txs \ Doomed
           L == Len(batch)
<1>1. L \in Nat /\ L \in 0 .. L /\ Txs = 1 .. L
    BY RunFacts
<1>2. AllSet(s) /\ \A k \in Keys : store[s][k] = Value(s, k, L)
    BY DEF SlotInv, Stores, Installed
<1>3. MayFail(Doomed)
    BY DEF Foreseen
<1>4. Decides(S, s, L) /\ Describes(S, L)
    BY <1>1, <1>2, <1>3, SetShardDecides, SuccessesClosed, SlotsDescribe
<1>5. Run(S)[L] = SuccessState(start, batch, Doomed)
    BY DEF Run, SuccessState, SuccessRun, SpeculativeSuccesses, Txs
<1>6. ASSUME NEW k \in Keys
      PROVE  store[s][k] = IF Owner[k] = s THEN SuccessState(start, batch, Doomed)[k] ELSE Missing
    <2>1. CASE Owner[k] = s
        <3>1. Run(S)[L][k] = Value(s, k, L)
            BY <1>4, <1>6, <2>1 DEF Describes
        <3> QED BY <1>2, <1>5, <2>1, <3>1
    <2>2. CASE Owner[k] # s
        BY <1>1, <1>2, <2>2, ForeignValue
    <2> QED BY <2>1, <2>2
<1>7. store[s] = [k \in Keys |-> store[s][k]]
    BY DEF TypeInv, State
<1> QED BY <1>6, <1>7 DEF Part

LEMMA InstalledForeseenNext ==
    OnTrees => (SpecInv' /\ SlotInv' /\ TypeInv' /\ Foreseen' => StoresForeseen')
<1> SUFFICES ASSUME OnTrees PROVE SpecInv' /\ SlotInv' /\ TypeInv' /\ Foreseen' => StoresForeseen'
    OBVIOUS
<1>1. SpecInv /\ SlotInv /\ TypeInv /\ Foreseen => StoresForeseen
    BY InstalledForeseen
<1> QED BY <1>1, PTL

-----------------------------------------------------------------------------
(* The steps of the fallback *)

\* A shard that fails in the fallback has had workers there, and they stay.
LEMMA WorkersStay ==
    ASSUME SpecInv, PublishInv, FallbackStep, NEW t \in Shards
    PROVE  /\ FallbackMoves(t)
           /\ FallsBack(t) => FallsBack(t)'
           /\ FallsBack(t)' => FallsBack(t) \/ status[t] = "waiting"
           /\ status[t] = "waiting" => ~FallsBack(t)
           /\ status[t] = "running" /\ status'[t] = "failed" => FallsBack(t)
<1>1. /\ batch' = batch /\ FallbackMoves(t) /\ \A i \in Txs : FallbackWorker(t, i)
    BY FallbackEffect DEF SpecInv, PublishInv, PcTable
<1>2. \A i \in Txs : Publication(t, i)
    BY DEF PublishInv
<1>3. /\ FallsBack(t) => FallsBack(t)'
      /\ FallsBack(t)' => FallsBack(t) \/ status[t] = "waiting"
      /\ status[t] = "waiting" => ~FallsBack(t)
    BY <1>1, <1>2 DEF FallsBack, Txs, FallbackWorker, Publication
<1>4. ASSUME NEW s \in Shards, Fallback!StartBatch(s) \/ Fallback!FinishBatch(s),
             status[t] = "running", status'[t] = "failed"
      PROVE  FALSE
    BY <1>4 DEF Fallback!StartBatch, Fallback!FinishBatch, SpecInv, SpecType
<1>5. ASSUME NEW s \in Shards, NEW i \in Txs, Fallback!CollectOutcome(s, i),
             status[t] = "running", status'[t] = "failed"
      PROVE  FallsBack(t)
    <2>1. pc[s][i] # "none"
        BY <1>5 DEF Fallback!CollectOutcome, Fallback!Ended
    <2>2. t = s
        BY <1>5 DEF Fallback!CollectOutcome, SpecInv, SpecType
    <2> QED BY <2>1, <2>2 DEF FallsBack
<1>6. ASSUME NEW s \in Shards, NEW i \in Txs, Fallback!Worker(s, i) \/ Fallback!FailReadResult(s, i)
      PROVE  status' = status
    BY <1>6 DEF Fallback!Worker, Fallback!FailReadResult, Fallback!AcquireAndRead,
            Fallback!SendReadResult, Fallback!CollectReadResult, Fallback!ExecuteAndApply,
            Fallback!OrphanFails, Fallback!shardVars
<1>7. \/ \E s \in Shards : Fallback!Coordinator(s)
      \/ \E s \in Shards, i \in Txs : Fallback!Worker(s, i) \/ Fallback!FailReadResult(s, i)
    BY DEF FallbackStep, Fallback!TaskStep, Fallback!Txs, Txs, Fallback!Shards, Shards
<1>8. status[t] = "running" /\ status'[t] = "failed" => FallsBack(t)
    BY <1>4, <1>5, <1>6, <1>7 DEF Fallback!Coordinator, Fallback!Txs, Txs
<1> QED BY <1>1, <1>3, <1>8

\* What such a step leaves alone.
LEMMA FallbackFrame ==
    ASSUME SpecInv, PublishInv, FallbackStep
    PROVE  /\ UNCHANGED <<batch, start, FMembers, FSerial>> /\ Txs' = Txs
           /\ \A t \in Shards : FailedIndices(t)' = FailedIndices(t)
           /\ \A t \in Shards : HasInstalled(t)' = HasInstalled(t)
           /\ \A t \in Shards : ~HasInstalled(t) => FStore'[t] = FStore[t]
<1>1. UNCHANGED <<batch, start, slot>>
    BY DEF FallbackStep, history, specVars, workerVars
<1>2. /\ Txs' = Txs /\ FMembers' = FMembers /\ FSerial' = FSerial
      /\ \A t \in Shards : FailedIndices(t)' = FailedIndices(t)
    BY <1>1 DEF Txs, FMembers, FSerial, FailedIndices
<1>3. ASSUME NEW t \in Shards PROVE HasInstalled(t)' = HasInstalled(t)
    <2>1. /\ FallbackMoves(t)
          /\ FallsBack(t) => FallsBack(t)'
          /\ FallsBack(t)' => FallsBack(t) \/ status[t] = "waiting"
          /\ status[t] = "running" /\ status'[t] = "failed" => FallsBack(t)
        BY WorkersStay
    <2> QED BY <2>1 DEF FallbackMoves, HasInstalled
<1>4. ASSUME NEW t \in Shards, ~HasInstalled(t) PROVE FStore'[t] = FStore[t]
    BY <1>1, <1>3, <1>4 DEF FStore, Part
<1> QED BY <1>1, <1>2, <1>3, <1>4

\* One entry of a table changes.
LEMMA EntryUpdate ==
    ASSUME NEW S, NEW T, NEW f, DOMAIN f = S, f = [t \in S |-> f[t]],
           \A t \in S : DOMAIN f[t] = T /\ f[t] = [j \in T |-> f[t][j]],
           NEW s \in S, NEW i \in T, NEW x
    PROVE  [f EXCEPT ![s][i] = x] =
               [t \in S |-> [j \in T |-> IF t = s /\ j = i THEN x ELSE f[t][j]]]
<1> DEFINE row == [f[s] EXCEPT ![i] = x]
<1>1. row = [j \in T |-> IF j = i THEN x ELSE f[s][j]]
    OBVIOUS
<1>2. [f EXCEPT ![s][i] = x] = [t \in S |-> IF t = s THEN row ELSE f[t]]
    OBVIOUS
<1> HIDE DEF row
<1>3. \A t \in S : (IF t = s THEN row ELSE f[t]) = [j \in T |-> IF t = s /\ j = i THEN x ELSE f[t][j]]
    BY <1>1
<1> QED BY <1>2, <1>3

\* What a step does to the executors, the stores and the results it does to those
\* of F.
LEMMA FallbackUpdates ==
    ASSUME SpecInv, PublishInv, TypeInv, FallbackStep, NEW s \in Shards
    PROVE  /\ status' = status => FStatus' = FStatus
           /\ \A x \in {"running", "done", "failed"} :
                 FailedIndices(s) # {} /\ status' = [status EXCEPT ![s] = x] =>
                    FStatus' = [FStatus EXCEPT ![s] = x]
           /\ store' = store => FStore' = FStore
           /\ HasInstalled(s) => FStore[s] = store[s]
           /\ \A x : HasInstalled(s) /\ store' = [store EXCEPT ![s] = x] =>
                 FStore' = [FStore EXCEPT ![s] = x]
           /\ results' = results => FResults' = FResults
           /\ \A i \in Doomed \cap Txs : \A x \in TxResult :
                 s = result_shard(batch[i]) /\ results' = [results EXCEPT ![s][i] = x] =>
                    FResults' = [FResults EXCEPT ![s][i] = x]
<1>1. /\ UNCHANGED batch /\ Txs' = Txs
      /\ \A t \in Shards : FailedIndices(t)' = FailedIndices(t)
      /\ \A t \in Shards : HasInstalled(t)' = HasInstalled(t)
      /\ \A t \in Shards : ~HasInstalled(t) => FStore'[t] = FStore[t]
    BY FallbackFrame
<1>2. /\ DOMAIN status = Shards /\ DOMAIN store = Shards /\ DOMAIN results = Shards
      /\ \A t \in Shards : DOMAIN results[t] = Txs
    BY DEF SpecInv, SpecType, TypeInv
<1>3. FStatus = [t \in Shards |-> FStatus[t]] /\ FStatus' = [t \in Shards |-> FStatus'[t]]
    BY DEF FStatus
<1>4. ASSUME status' = status PROVE FStatus' = FStatus
    BY <1>1, <1>4 DEF FStatus, InFallback
<1>5. ASSUME NEW x \in {"running", "done", "failed"}, FailedIndices(s) # {},
             status' = [status EXCEPT ![s] = x]
      PROVE  FStatus' = [FStatus EXCEPT ![s] = x]
    <2>1. \A t \in Shards : FStatus'[t] = IF t = s THEN x ELSE FStatus[t]
        BY <1>1, <1>2, <1>5 DEF FStatus, InFallback
    <2> QED BY <1>3, <2>1
<1>6. FStore = [t \in Shards |-> FStore[t]] /\ FStore' = [t \in Shards |-> FStore'[t]]
    BY DEF FStore
<1>7. \A t \in Shards : HasInstalled(t) => FStore[t] = store[t] /\ FStore'[t] = store'[t]
    BY <1>1 DEF FStore
<1>8. ASSUME store' = store PROVE FStore' = FStore
    BY <1>1, <1>6, <1>7, <1>8
<1>9. ASSUME NEW x, HasInstalled(s), store' = [store EXCEPT ![s] = x]
      PROVE  FStore' = [FStore EXCEPT ![s] = x]
    <2>1. \A t \in Shards : FStore'[t] = IF t = s THEN x ELSE FStore[t]
        BY <1>1, <1>2, <1>7, <1>9
    <2> QED BY <1>6, <2>1
<1>10. ASSUME results' = results PROVE FResults' = FResults
    BY <1>1, <1>10 DEF FResults, FResult
<1>11. ASSUME NEW i \in Doomed \cap Txs, NEW x \in TxResult,
              s = result_shard(batch[i]), results' = [results EXCEPT ![s][i] = x]
       PROVE  FResults' = [FResults EXCEPT ![s][i] = x]
    <2>1. \A t \in Shards, j \in Txs : results'[t][j] = IF t = s /\ j = i THEN x ELSE results[t][j]
        BY <1>2, <1>11
    <2>2. FResults' = [t \in Shards |-> [j \in Txs |-> FResult(t, j)']]
        BY <1>1 DEF FResults
    <2>3. \A t \in Shards, j \in Txs : FResult(t, j)' = IF t = s /\ j = i THEN x ELSE FResults[t][j]
        BY <1>1, <1>11, <2>1 DEF FResults, FResult
    <2>4. FResults' = [t \in Shards |-> [j \in Txs |-> IF t = s /\ j = i THEN x ELSE FResults[t][j]]]
        BY <2>2, <2>3
    <2>5. FResults = [t \in Shards |-> FResults[t]]
          /\ \A t \in Shards : DOMAIN FResults[t] = Txs /\ FResults[t] = [j \in Txs |-> FResults[t][j]]
        BY DEF FResults
    <2> QED BY <2>4, <2>5, EntryUpdate
<1> QED BY <1>4, <1>5, <1>7, <1>8, <1>9, <1>10, <1>11

\* Who takes a step of the fallback has its slots set, and has failed transactions.
LEMMA FallbackActs ==
    ASSUME SpecInv, PublishInv, SlotInv, Foreseen, NEW s \in Shards
    PROVE  /\ status[s] \in {"waiting", "running"} => AllSet(s) /\ FailedIndices(s) # {}
           /\ \A i \in Txs : pc[s][i] # "none" =>
                 AllSet(s) /\ HasInstalled(s) /\ i \in FailedIndices(s) /\ i \in Doomed
<1>1. Stores(s)
    BY DEF SlotInv
<1>2. ASSUME NEW i \in Txs, pc[s][i] # "none"
      PROVE  AllSet(s) /\ HasInstalled(s) /\ i \in FailedIndices(s) /\ i \in Doomed
    <2>1. FallsBack(s) /\ slot[s][i] = Failed
        BY <1>2 DEF FallsBack, PublishInv, Publication
    <2>2. AllSet(s) /\ HasInstalled(s) /\ i \in FailedIndices(s)
        BY <1>1, <2>1 DEF Stores, HasInstalled, FailedIndices
    <2> QED BY <2>2, DoomedHere
<1> QED BY <1>1, <1>2 DEF Stores

\* A shard that awaits the reads of the worker is where that of F is.
LEMMA SentAlike ==
    ASSUME SpecInv, PublishInv, SlotInv, Foreseen, F!LockingInv, NEW s \in Shards, NEW i \in Txs,
           pc[s][i] # "none", NEW t \in todo[s][i]
    PROVE  /\ t \in Shards
           /\ F!MailboxClosed(t, i) = Fallback!MailboxClosed(t, i)
           /\ \A msg : F!Route(t, i, msg) = Fallback!Route(t, i, msg)
<1>1. todo[s][i] \subseteq F!Active(i)
    BY SameSets DEF F!LockingInv, F!MailInv, F!MailOnce
<1>2. t \in Participants(i) /\ t \in Shards /\ i \in Doomed
    BY <1>1, SameParts, ActiveParticipate, FallbackActs DEF SpecInv, SpecType
<1>3. status[t] = "done" => FailedIndices(t) # {}
    <2>1. status[t] = "done" => AllSet(t)
        BY <1>2 DEF SlotInv, Stores
    <2> QED BY <1>2, <2>1, DoomedHere
<1>4. FStatus[t] = IF status[t] \in {"running", "done", "failed"} THEN status[t] ELSE "waiting"
    BY <1>2, <1>3 DEF FStatus, InFallback
<1> QED BY <1>2, <1>4 DEF F!MailboxClosed, Fallback!MailboxClosed, F!Route, Fallback!Route,
                          F!Ended, Fallback!Ended

\* A step of the fallback is a step of F.
LEMMA FallbackIsNext ==
    ASSUME SpecInv, PublishInv, SlotInv, TypeInv, Foreseen, F!LockingInv, FallbackStep
    PROVE  F!Next
<1>1. UNCHANGED <<batch, FMembers, FSerial>> /\ Txs' = Txs
    BY FallbackFrame
<1>2. UNCHANGED F!history
    BY <1>1 DEF F!history
<1>3. ASSUME NEW s \in Shards, status[s] \in {"waiting", "running"}
      PROVE  AllSet(s) /\ FailedIndices(s) # {}
    BY <1>3, FallbackActs
<1>4. ASSUME NEW s \in Shards, NEW i \in Txs, pc[s][i] # "none"
      PROVE  AllSet(s) /\ HasInstalled(s) /\ i \in FailedIndices(s) /\ i \in Doomed
    BY <1>4, FallbackActs
<1>5. ASSUME NEW s \in Shards, Fallback!StartBatch(s) PROVE F!StartBatch(s)
    <2>1. /\ status[s] = "waiting" /\ status' = [status EXCEPT ![s] = "running"] /\ store' = store
          /\ results' = [results EXCEPT ![s] = Fallback!RegisterResults(s)]
        BY <1>5 DEF Fallback!StartBatch
    <2>2. AllSet(s) /\ FailedIndices(s) # {}
        BY <1>3, <2>1
    <2>3. /\ FStatus[s] = "waiting" /\ FStatus' = [FStatus EXCEPT ![s] = "running"]
          /\ FStore' = FStore
        BY <2>1, <2>2, FallbackUpdates DEF FStatus, InFallback
    <2>4. FResults' = FResults
        <3>1. \A i \in Txs : i \in Doomed /\ s = result_shard(batch[i]) =>
                 /\ Fallback!RegisterResults(s)[i] \in TxResult <=> results[s][i] \in TxResult
                 /\ results[s][i] \in TxResult => Fallback!RegisterResults(s)[i] = results[s][i]
            BY SameSets, FallbackResultShard
               DEF Fallback!RegisterResults, Fallback!Registered, TxResult
        <3>2. \A t \in Shards, i \in Txs : i \in Doomed /\ t = result_shard(batch[i]) =>
                 /\ results'[t][i] \in TxResult <=> results[t][i] \in TxResult
                 /\ results[t][i] \in TxResult => results'[t][i] = results[t][i]
            <4> DEFINE r == Fallback!RegisterResults(s)
            <4>1. \A t \in Shards : results'[t] = IF t = s THEN r ELSE results[t]
                BY <2>1 DEF TypeInv
            <4> HIDE DEF r
            <4> QED BY <3>1, <4>1 DEF r
        <3>3. \A t \in Shards, i \in Txs : FResult(t, i)' = FResult(t, i)
            BY <1>1, <3>2 DEF FResult
        <3> QED BY <1>1, <3>3 DEF FResults
    <2>5. FResults' = [FResults EXCEPT ![s] = F!RegisterResults(s)]
        <3>1. \A i \in Txs : FResults[s][i] = IF i \in FMembers[s]
                                              THEN F!Registered(s, i, FResults[s][i])
                                              ELSE FResults[s][i]
            BY SameParts DEF F!Registered, FMembers, FResults, FResult, TxResult
        <3>2. F!RegisterResults(s) = FResults[s]
            BY <3>1, SameSets DEF F!RegisterResults, FResults
        <3> QED BY <2>4, <3>2 DEF FResults
    <2>6. /\ queue' = [queue EXCEPT ![s] = [k \in Keys |-> F!LockRequests(s, k)]]
          /\ granted' = [granted EXCEPT ![s] = [i \in Txs |-> F!InitialGrants(s, i)]]
          /\ pc' = [pc EXCEPT ![s] = [i \in Txs |-> IF F!Relevant(s, i) THEN "locks" ELSE "none"]]
        BY <1>5, <2>2, SameLocks, SameSets DEF Fallback!StartBatch
    <2>7. UNCHANGED <<released, todo, reads, received, outcome, F!netVars>>
        BY <1>5 DEF Fallback!StartBatch, Fallback!netVars, F!netVars
    <2> QED BY <1>2, <2>3, <2>5, <2>6, <2>7, SameSets DEF F!StartBatch
<1>6. ASSUME NEW s \in Shards, NEW i \in Txs, Fallback!CollectOutcome(s, i)
      PROVE  F!CollectOutcome(s, i)
    <2>1. /\ status[s] = "running" /\ results' = results /\ store' = store
          /\ UNCHANGED <<F!workVars, F!netVars>>
        BY <1>6 DEF Fallback!CollectOutcome, Fallback!workVars, Fallback!netVars, F!workVars, F!netVars
    <2>2. FStatus[s] = "running" /\ FResults' = FResults /\ FStore' = FStore
        BY <2>1, FallbackUpdates DEF FStatus, InFallback
    <2>3. AllSet(s) /\ FailedIndices(s) # {}
        BY <1>3, <2>1
    <2>4. /\ F!Ended(s, i) /\ i \notin released[s]
          /\ released' = [released EXCEPT ![s] = @ \cup {i}]
        BY <1>6 DEF Fallback!CollectOutcome, Fallback!Ended, F!Ended
    <2>5. F!BatchFails(s, i) = Fallback!BatchFails(s, i)
        BY DEF F!BatchFails, Fallback!BatchFails
    <2>6. (\A k \in F!LockKeys(s, i) : F!IsFront(i, queue[s][k])) <=>
              \A k \in Fallback!LockKeys(s, i) : Fallback!IsFront(i, queue[s][k])
        BY <2>3, SameLocks
    <2>7. CASE \A k \in Fallback!LockKeys(s, i) : Fallback!IsFront(i, queue[s][k])
        <3>1. /\ queue' = [queue EXCEPT ![s] = F!Unlock(s, i)]
              /\ granted' = [granted EXCEPT ![s] = F!GrantNext(s, i)]
            BY <1>6, <2>3, <2>7, SameLocks DEF Fallback!CollectOutcome
        <3>2. FStatus' = IF F!BatchFails(s, i) THEN [FStatus EXCEPT ![s] = "failed"] ELSE FStatus
            BY <1>6, <2>3, <2>5, <2>7, FallbackUpdates DEF Fallback!CollectOutcome
        <3> QED BY <1>2, <2>1, <2>2, <2>4, <2>6, <2>7, <3>1, <3>2 DEF F!CollectOutcome
    <2>8. CASE ~\A k \in Fallback!LockKeys(s, i) : Fallback!IsFront(i, queue[s][k])
        <3>1. status' = [status EXCEPT ![s] = "failed"] /\ UNCHANGED <<queue, granted>>
            BY <1>6, <2>8 DEF Fallback!CollectOutcome
        <3>2. FStatus' = [FStatus EXCEPT ![s] = "failed"]
            BY <2>3, <3>1, FallbackUpdates
        <3> QED BY <1>2, <2>1, <2>2, <2>4, <2>6, <2>8, <3>1, <3>2 DEF F!CollectOutcome
    <2> QED BY <2>7, <2>8
<1>7. ASSUME NEW s \in Shards, Fallback!FinishBatch(s) PROVE F!FinishBatch(s)
    <2>1. /\ status[s] = "running" /\ status' = [status EXCEPT ![s] = "done"]
          /\ results' = results /\ store' = store
          /\ UNCHANGED <<queue, granted, released, F!workVars, F!netVars>>
        BY <1>7 DEF Fallback!FinishBatch, Fallback!workVars, Fallback!netVars, F!workVars, F!netVars
    <2>2. AllSet(s) /\ FailedIndices(s) # {}
        BY <1>3, <2>1
    <2>3. /\ FStatus[s] = "running" /\ FStatus' = [FStatus EXCEPT ![s] = "done"]
          /\ FResults' = FResults /\ FStore' = FStore
        BY <2>1, <2>2, FallbackUpdates DEF FStatus, InFallback
    <2>4. F!AllCollected(s)
        BY <1>7, <2>2, SameLocks DEF Fallback!FinishBatch
    <2> QED BY <1>2, <2>1, <2>3, <2>4 DEF F!FinishBatch
<1>8. ASSUME NEW s \in Shards, NEW i \in Txs, Fallback!Worker(s, i) \/ Fallback!FailReadResult(s, i)
      PROVE  F!Worker(s, i) \/ F!FailReadResult(s, i)
    <2>1. /\ pc[s][i] # "none" /\ status' = status
          /\ AllSet(s) /\ HasInstalled(s) /\ i \in Doomed /\ i \in Doomed \cap Txs
        <3>1. pc[s][i] # "none" /\ status' = status
            BY <1>8 DEF Fallback!Worker, Fallback!FailReadResult, Fallback!AcquireAndRead,
                    Fallback!SendReadResult, Fallback!CollectReadResult, Fallback!ExecuteAndApply,
                    Fallback!OrphanFails, Fallback!shardVars
        <3> QED BY <1>4, <3>1
    <2>2. FStatus' = FStatus
        BY <2>1, FallbackUpdates
    <2>3. UNCHANGED <<store, results, queue, granted, released>> => UNCHANGED F!shardVars
        BY <2>2, FallbackUpdates DEF F!shardVars
    <2>4. CASE Fallback!AcquireAndRead(s, i)
        <3>1. UNCHANGED F!shardVars /\ UNCHANGED <<received, outcome, F!netVars>>
            BY <2>3, <2>4 DEF Fallback!AcquireAndRead, Fallback!shardVars, Fallback!netVars, F!netVars
        <3>2. granted[s][i] = F!LockKeys(s, i)
            BY <2>1, <2>4, SameLocks DEF Fallback!AcquireAndRead
        <3>3. reads' = [reads EXCEPT ![s][i] = [k \in F!LocalReadKeys(batch[i], s) |-> FStore[s][k]]]
            <4>1. FStore[s] = store[s]
                BY <2>1, FallbackUpdates
            <4> QED BY <2>4, <4>1, SameParts DEF Fallback!AcquireAndRead
        <3> DEFINE goes == IF s \in F!ReadSources(i) THEN F!Active(i) \ {s} ELSE {}
        <3>4. /\ todo' = [todo EXCEPT ![s][i] = goes]
              /\ F!Goto(s, i, IF goes = {} THEN F!AfterSend(s, i) ELSE "send")
            BY <2>4, SameParts DEF Fallback!AcquireAndRead, Fallback!Goto, F!Goto
        <3>5. pc[s][i] = "locks"
            BY <2>4 DEF Fallback!AcquireAndRead
        <3> QED BY <1>2, <3>1, <3>2, <3>3, <3>4, <3>5 DEF F!AcquireAndRead, F!Worker
    <2>5. \A t \in todo[s][i] : /\ t \in Shards
                                /\ F!MailboxClosed(t, i) = Fallback!MailboxClosed(t, i)
                                /\ \A msg : F!Route(t, i, msg) = Fallback!Route(t, i, msg)
        BY <2>1, SentAlike
    <2>6. CASE Fallback!SendReadResult(s, i)
        <3>1. UNCHANGED F!shardVars /\ UNCHANGED <<reads, received, outcome, rpcFailures>>
            BY <2>3, <2>6 DEF Fallback!SendReadResult, Fallback!shardVars
        <3>2. PICK t \in todo[s][i] :
                /\ \A u \in todo[s][i] : t <= u
                /\ todo' = [todo EXCEPT ![s][i] = @ \ {t}]
                /\ IF Fallback!MailboxClosed(t, i)
                   THEN Fallback!Goto(s, i, "err") /\ UNCHANGED <<mail, stray>>
                   ELSE /\ Fallback!Route(t, i, [from |-> s, reads |-> reads[s][i]])
                        /\ Fallback!Goto(s, i, IF todo[s][i] = {t} THEN Fallback!AfterSend(s, i) ELSE "send")
            BY <2>6 DEF Fallback!SendReadResult
        <3>3. IF F!MailboxClosed(t, i)
              THEN F!Goto(s, i, "err") /\ UNCHANGED <<mail, stray>>
              ELSE /\ F!Route(t, i, [from |-> s, reads |-> reads[s][i]])
                   /\ F!Goto(s, i, IF todo[s][i] = {t} THEN F!AfterSend(s, i) ELSE "send")
            BY <2>5, <3>2, SameParts DEF Fallback!Goto, F!Goto
        <3>4. pc[s][i] = "send"
            BY <2>6 DEF Fallback!SendReadResult
        <3> QED BY <1>2, <3>1, <3>2, <3>3, <3>4 DEF F!SendReadResult, F!Worker
    <2>8. CASE Fallback!FailReadResult(s, i)
        <3>1. UNCHANGED F!shardVars /\ UNCHANGED <<todo, reads, received, outcome>>
            BY <2>3, <2>8 DEF Fallback!FailReadResult, Fallback!shardVars
        <3>2. PICK t \in todo[s][i] :
                /\ \A u \in todo[s][i] : t <= u
                /\ \/ UNCHANGED <<mail, stray>>
                   \/ /\ ~Fallback!MailboxClosed(t, i)
                      /\ Fallback!Route(t, i, [from |-> s, reads |-> reads[s][i]])
            BY <2>8 DEF Fallback!FailReadResult
        <3>3. \/ UNCHANGED <<mail, stray>>
              \/ ~F!MailboxClosed(t, i) /\ F!Route(t, i, [from |-> s, reads |-> reads[s][i]])
            BY <2>5, <3>2
        <3>4. /\ pc[s][i] = "send" /\ F!Goto(s, i, "err")
              /\ rpcFailures < MaxRpcFailures /\ rpcFailures' = rpcFailures + 1
            BY <2>8 DEF Fallback!FailReadResult, Fallback!Goto, F!Goto
        <3> QED BY <1>2, <3>1, <3>2, <3>3, <3>4 DEF F!FailReadResult
    <2>9. CASE Fallback!CollectReadResult(s, i)
        <3>1. UNCHANGED F!shardVars /\ UNCHANGED <<todo, outcome, stray, rpcFailures>>
            BY <2>3, <2>9 DEF Fallback!CollectReadResult, Fallback!shardVars
        <3>2. \A msg : F!ValidReadResult(s, i, msg) = Fallback!ValidReadResult(s, i, msg)
            BY SameParts DEF F!ValidReadResult, Fallback!ValidReadResult
        <3>3. \A r, n : F!MergeReads(r, n) = Fallback!MergeReads(r, n)
            BY DEF F!MergeReads, Fallback!MergeReads
        <3> QED BY <1>2, <2>9, <3>1, <3>2, <3>3, SameParts
                DEF Fallback!CollectReadResult, F!CollectReadResult, F!Worker, Fallback!Goto, F!Goto
    <2>10. CASE Fallback!OrphanFails(s, i)
        <3>1. UNCHANGED F!shardVars /\ UNCHANGED <<todo, reads, received, outcome, F!netVars>>
            BY <2>3, <2>10 DEF Fallback!OrphanFails, Fallback!shardVars, Fallback!netVars, F!netVars
        <3>2. FStatus[s] = "failed"
            BY <2>10 DEF Fallback!OrphanFails, FStatus
        <3>3. /\ \/ pc[s][i] = "locks" /\ granted[s][i] # F!LockKeys(s, i)
                 \/ pc[s][i] = "collect" /\ received[s][i] # F!Expected(s, i) /\ mail[s][i] = {}
              /\ F!Goto(s, i, "err")
            BY <2>1, <2>10, SameLocks, SameParts DEF Fallback!OrphanFails, Fallback!Goto, F!Goto
        <3> QED BY <1>2, <3>1, <3>2, <3>3 DEF F!OrphanFails, F!Worker
    <2>11. CASE Fallback!ExecuteAndApply(s, i)
        <3>1. UNCHANGED <<FStatus, queue, granted, released, todo, reads, received, F!netVars>>
            BY <2>2, <2>11 DEF Fallback!ExecuteAndApply, Fallback!netVars, F!netVars
        <3> DEFINE out  == ExecuteDeterministic(batch[i].op, reads[s][i])
                   kept == F!FilterLocalWrites(out.writes, s)
        <3>2. /\ F!ExecuteDeterministic(batch[i].op, reads[s][i]) = out
              /\ Fallback!ExecuteDeterministic(batch[i].op, reads[s][i]) = out
              /\ Fallback!FilterLocalWrites(out.writes, s) = kept
              /\ F!ValidLocalWrites(s, i, out.writes, kept) =
                     Fallback!ValidLocalWrites(s, i, out.writes, kept)
            BY SameLogic, FallbackLogic, SameParts DEF F!ValidLocalWrites, Fallback!ValidLocalWrites
        <3>5. DOMAIN reads[s][i] = ReadSet(batch[i]) => out.result \in TxResult
            <4> SUFFICES ASSUME DOMAIN reads[s][i] = ReadSet(batch[i]) PROVE out.result \in TxResult
                OBVIOUS
            <4>1. /\ DOMAIN reads[s][i] = DeriveReadSet(batch[i].op)
                  /\ \A k \in DeriveReadSet(batch[i].op) : reads[s][i][k] \in ReadValue
                BY DEF ReadSet, Typed, TypeInv
            <4>2. batch[i].op \in FsOp
                BY TxFacts DEF SpecInv, SpecType
            <4>3. out \in Outcome(DeriveWriteSet(batch[i].op))
                BY <4>1, <4>2, WritesStayInWriteSet
            <4> QED BY <4>3 DEF Outcome
        <3> HIDE DEF out, kept
        <3>3. CASE /\ DOMAIN reads[s][i] = ReadSet(batch[i])
                   /\ Fallback!ValidLocalWrites(s, i, out.writes, kept)
            <4>1. /\ store' = [store EXCEPT ![s] = ApplyWrites(@, out.writes, kept)]
                  /\ results' = IF result_shard(batch[i]) = s
                                THEN [results EXCEPT ![s][i] = out.result] ELSE results
                  /\ outcome' = [outcome EXCEPT ![s][i] = out.result]
                  /\ F!Goto(s, i, "ok")
                BY <2>11, <3>2, <3>3, FallbackLogic, FallbackResultShard, SameSets
                   DEF Fallback!ExecuteAndApply, Fallback!Goto, F!Goto
            <4>2. FStore' = [FStore EXCEPT ![s] = ApplyWrites(store[s], out.writes, kept)]
                <5> DEFINE x == ApplyWrites(store[s], out.writes, kept)
                <5>1. store' = [store EXCEPT ![s] = x]
                    BY <4>1
                <5> HIDE DEF x
                <5>2. FStore' = [FStore EXCEPT ![s] = x]
                    BY <2>1, <5>1, FallbackUpdates
                <5> QED BY <5>2 DEF x
            <4>3. FStore' = [FStore EXCEPT ![s] = F!ApplyWrites(@, out.writes, kept)]
                BY <2>1, <4>2, FallbackUpdates, SameLogic DEF FStore
            <4>4. FResults' = IF result_shard(batch[i]) = s
                              THEN [FResults EXCEPT ![s][i] = out.result] ELSE FResults
                <5>0. PICK x \in TxResult : x = out.result
                    BY <3>5, <3>3
                <5>1. \/ results' = [results EXCEPT ![s][i] = x] /\ result_shard(batch[i]) = s
                      \/ results' = results /\ result_shard(batch[i]) # s
                    BY <4>1, <5>0
                <5>2. \/ FResults' = [FResults EXCEPT ![s][i] = x] /\ result_shard(batch[i]) = s
                      \/ FResults' = FResults /\ result_shard(batch[i]) # s
                    BY <2>1, <5>1, FallbackUpdates
                <5> QED BY <5>0, <5>2
            <4> QED BY <1>2, <2>11, <3>1, <3>2, <3>3, <4>1, <4>3, <4>4, SameParts, SameSets
                    DEF F!ExecuteAndApply, F!Worker, Fallback!ExecuteAndApply, kept
        <3>4. CASE ~(/\ DOMAIN reads[s][i] = ReadSet(batch[i])
                     /\ Fallback!ValidLocalWrites(s, i, out.writes, kept))
            <4>1. F!Goto(s, i, "err") /\ UNCHANGED <<store, results, outcome>>
                BY <2>11, <3>2, <3>4, SameSets DEF Fallback!ExecuteAndApply, Fallback!Goto, F!Goto
            <4>2. UNCHANGED <<FStore, FResults>>
                BY <4>1, FallbackUpdates
            <4> QED BY <1>2, <2>11, <3>1, <3>2, <3>4, <4>1, <4>2, SameParts, SameSets
                    DEF F!ExecuteAndApply, F!Worker, Fallback!ExecuteAndApply, kept
        <3> QED BY <3>3, <3>4
    <2> QED BY <1>8, <2>4, <2>6, <2>8, <2>9, <2>10, <2>11 DEF Fallback!Worker
<1>9. \/ \E s \in Shards : Fallback!Coordinator(s)
      \/ \E s \in Shards, i \in Txs : Fallback!Worker(s, i) \/ Fallback!FailReadResult(s, i)
    BY DEF FallbackStep, Fallback!TaskStep, Fallback!Txs, Txs, Fallback!Shards, Shards
<1>10. ASSUME NEW s \in Shards, Fallback!Coordinator(s) PROVE F!Coordinator(s)
    BY <1>5, <1>6, <1>7, <1>10, SameSets DEF Fallback!Coordinator, F!Coordinator
<1> QED BY <1>8, <1>9, <1>10, SameSets DEF F!Next

-----------------------------------------------------------------------------
(* The steps of the speculation *)

\* A worker or the coordinator of shard s moves in the speculative phase.
SpeculationStep(s) ==
    /\ UNCHANGED fallbackVars
    /\ Coordinator(s) \/ \E i \in Txs : Worker(s, i) \/ FailReadResult(s, i)

\* What it may do to the executor of the shard.
SpeculationMoves(s) ==
    \/ status'[s] = status[s]
    \/ status[s] = "idle" /\ status'[s] = "speculating"
    \/ status[s] = "speculating" /\ status'[s] \in {"waiting", "failed"}
    \/ status[s] = "speculating" /\ status'[s] = "done" /\ FailedIndices(s)' = {}

LEMMA SpeculationEffect ==
    ASSUME SpecInv, PublishInv, SlotInv, NEW s \in Shards, SpeculationStep(s)
    PROVE  /\ SpeculationMoves(s)
           /\ \A t \in Shards : t # s => status'[t] = status[t]
           /\ \A t \in Shards : store'[t] = store[t] \/ (t = s /\ status[t] = "speculating")
           /\ status' = status \/ (rpcFailures' = rpcFailures /\
                 \E x \in {"speculating", "waiting", "done", "failed"} :
                     status' = [status EXCEPT ![s] = x])
<1>1. CASE \E i \in Txs : Worker(s, i) \/ FailReadResult(s, i)
    BY <1>1, WorkerIsLocal, WorkerData DEF SpeculationMoves, SpecInv
<1>2. CASE StartBatch(s)
    BY <1>2 DEF StartBatch, SpeculationMoves, SpecInv, SpecType, netVars
<1>3. CASE \E i \in Txs : CollectOutcome(s, i)
    BY <1>3 DEF CollectOutcome, SpeculationMoves, SpecInv, SpecType, netVars
<1>4. CASE Install(s)
    <2>1. /\ status[s] = "speculating" /\ rpcFailures' = rpcFailures
          /\ FailedIndices(s)' = FailedIndices(s)
          /\ \/ status' = [status EXCEPT ![s] = "done"] /\ FailedIndices(s) = {}
             \/ status' = [status EXCEPT ![s] = "waiting"]
             \/ status' = [status EXCEPT ![s] = "failed"]
          /\ \E x : store' = [store EXCEPT ![s] = x]
        <3>1. batch' = batch /\ slot' = slot
            BY <1>4 DEF Install, history, workerVars
        <3>2. FailedIndices(s)' = FailedIndices(s)
            BY <3>1 DEF FailedIndices, Txs
        <3> QED BY <1>4, <3>2 DEF Install, netVars
    <2>2. \A t \in Shards : t # s => store'[t] = store[t]
        BY <2>1 DEF SlotInv
    <2> QED BY <2>1, <2>2 DEF SpeculationMoves, SpecInv, SpecType
<1> QED BY <1>1, <1>2, <1>3, <1>4 DEF SpeculationStep, Coordinator

\* It publishes no result of a transaction that is doomed.
LEMMA SpeculationResults ==
    ASSUME SpecInv, PublishInv, Foreseen', UNCHANGED <<batch, start>>, NEW s \in Shards,
           SpeculationStep(s)
    PROVE  FResults' = FResults
<1> SUFFICES \A t \in Shards, i \in Doomed \cap Txs : t = result_shard(batch[i]) =>
                 \/ results'[t][i] = results[t][i]
                 \/ results[t][i] \notin TxResult /\ results'[t][i] \notin TxResult
    BY DEF FResults, FResult, Txs
<1>1. CASE StartBatch(s)
    <2> DEFINE reg == [i \in Txs |-> IF result_shard(batch[i]) = s THEN "Pending" ELSE "NotResponsible"]
    <2>1. status[s] = "idle" /\ results' = [results EXCEPT ![s] = reg]
        BY <1>1 DEF StartBatch
    <2>2. \A i \in Txs : reg[i] \notin TxResult
        BY DEF TxResult
    <2> HIDE DEF reg
    <2>3. \A i \in Txs : results[s][i] \notin TxResult
        <3> SUFFICES ASSUME NEW i \in Txs PROVE results[s][i] \notin TxResult
            OBVIOUS
        <3>1. Publication(s, i) /\ Progress(s, i)
            BY DEF PublishInv, SpecInv
        <3> QED BY <2>1, <3>1 DEF Publication, Progress
    <2>4. results'[s] = reg /\ \A t \in Shards : t # s => results'[t] = results[t]
        BY <2>1 DEF PublishInv, Grid
    <2> QED BY <2>2, <2>3, <2>4
<1>2. CASE Install(s) \/ \E i \in Txs : CollectOutcome(s, i)
    BY <1>2 DEF Install, CollectOutcome
<1>3. ASSUME NEW j \in Txs, Worker(s, j) \/ FailReadResult(s, j)
      PROVE  \A t \in Shards, i \in Doomed \cap Txs : results'[t][i] = results[t][i]
    <2>1. /\ \A t \in Shards, i \in Txs : (t # s \/ i # j) => results'[t][i] = results[t][i]
          /\ \/ results'[s][j] = results[s][j]
             \/ Commits(s, j) /\ s = result_shard(batch[j])
        BY <1>3, WorkerPublishes DEF SpecInv, PublishInv
    <2>2. ASSUME Commits(s, j), s = result_shard(batch[j]) PROVE j \notin Doomed
        <3>1. Succeeded(s, j)'
            BY <2>2 DEF Commits, Succeeded
        <3>2. s \in Participants(j)'
            BY <2>2, ActiveParticipate DEF SpecInv, SpecType, Participants
        <3>3. j \in Txs'
            BY DEF Txs
        <3> QED BY <3>1, <3>2, <3>3 DEF Foreseen, MayFail
    <2> QED BY <2>1, <2>2
<1> QED BY <1>1, <1>2, <1>3 DEF SpeculationStep, Coordinator

\* F sees of the speculation only that a shard gives up, or that an RPC fails.
LEMMA SpeculationIsHidden ==
    ASSUME SpecInv, PublishInv, SlotInv, SlotInv', UNCHANGED <<batch, start>>, Foreseen', StoresForeseen',
           \A t \in Shards, j \in Txs : slot[t][j] # Pending => slot'[t][j] = slot[t][j],
           F!LockingInv, NEW s \in Shards, SpeculationStep(s)
    PROVE  \/ F!GiveUp(s)
           \/ /\ UNCHANGED <<F!history, F!shardVars, F!workVars, mail, stray>>
              /\ rpcFailures' \in 0 .. MaxRpcFailures
<1>1. /\ SpeculationMoves(s)
      /\ \A t \in Shards : t # s => status'[t] = status[t]
      /\ \A t \in Shards : store'[t] = store[t] \/ (t = s /\ status[t] = "speculating")
      /\ status' = status \/ (rpcFailures' = rpcFailures /\
            \E x \in {"speculating", "waiting", "done", "failed"} : status' = [status EXCEPT ![s] = x])
    BY SpeculationEffect
<1>2. /\ Txs' = Txs /\ FResults' = FResults /\ FMembers' = FMembers /\ FSerial' = FSerial
      /\ UNCHANGED fallbackVars
    BY SpeculationResults DEF Txs, FMembers, FSerial, SpeculationStep
<1>3. \A t \in Shards : FallsBack(t)' = FallsBack(t)
    BY <1>2 DEF FallsBack, fallbackVars
<1>4. \A t \in Shards : status[t] = "done" => FailedIndices(t)' = FailedIndices(t)
    <2> SUFFICES ASSUME NEW t \in Shards, status[t] = "done" PROVE FailedIndices(t)' = FailedIndices(t)
        OBVIOUS
    <2>1. AllSet(t)
        BY DEF SlotInv, Stores
    <2> QED BY <1>2, <2>1 DEF AllSet, FailedIndices
<1>5. status[s] = "speculating" => ~FallsBack(s)
    BY DEF PublishInv, Publication, FallsBack
<1>6. rpcFailures' \in 0 .. MaxRpcFailures
    <2>1. rpcFailures \in 0 .. MaxRpcFailures
        BY DEF F!LockingInv, F!DataType
    <2>2. rpcFailures' = rpcFailures \/ (rpcFailures < MaxRpcFailures /\ rpcFailures' = rpcFailures + 1)
        BY DEF SpeculationStep, Coordinator, StartBatch, CollectOutcome, Install, Worker, FailReadResult,
               MaterializeReads, MaterializeFails, SendReadResult, FailAfterStatus, CollectReadResult,
               ExecuteAndCommit, OrphanFails, netVars
    <2> QED BY <2>1, <2>2, SccAssumption
<1>7. FStore' = FStore
    <2>1. \A t \in Shards : Part(SuccessState(start, batch, Doomed), t)' =
                            Part(SuccessState(start, batch, Doomed), t)
        BY DEF Part
    <2>2. ASSUME NEW t \in Shards PROVE FStore'[t] = FStore[t]
        <3>1. CASE status'[t] = status[t] /\ HasInstalled(t)
            <4>1. HasInstalled(t)' /\ store'[t] = store[t]
                BY <1>1, <1>3, <1>5, <3>1 DEF HasInstalled
            <4> QED BY <3>1, <4>1 DEF FStore
        <3>2. CASE t = s /\ status[s] = "speculating" /\ status'[s] \in {"waiting", "done"}
            <4>1. ~HasInstalled(s) /\ HasInstalled(s)' /\ Installed(s)'
                BY <1>1, <1>5, <3>2 DEF HasInstalled, Installed, SpeculationMoves
            <4>2. store'[s] = Part(SuccessState(start, batch, Doomed), s)
                BY <2>1, <4>1 DEF StoresForeseen
            <4> QED BY <3>2, <4>1, <4>2 DEF FStore
        <3>3. CASE ~HasInstalled(t) /\ ~HasInstalled(t)'
            BY <2>1, <3>3 DEF FStore
        <3>4. \/ status'[t] = status[t] /\ HasInstalled(t)
              \/ t = s /\ status[s] = "speculating" /\ status'[s] \in {"waiting", "done"}
              \/ ~HasInstalled(t) /\ ~HasInstalled(t)'
            <4>1. CASE status'[t] = status[t]
                BY <1>3, <4>1 DEF HasInstalled
            <4>2. CASE status'[t] # status[t]
                <5>1. t = s /\ \A i \in Txs : Publication(s, i)
                    BY <1>1, <4>2 DEF PublishInv
                <5> QED BY <1>1, <1>3, <4>2, <5>1
                        DEF HasInstalled, SpeculationMoves, FallsBack, Publication
            <4> QED BY <4>1, <4>2
        <3> QED BY <3>1, <3>2, <3>3, <3>4
    <2>3. FStore = [t \in Shards |-> FStore[t]] /\ FStore' = [t \in Shards |-> FStore'[t]]
        BY DEF FStore
    <2> QED BY <2>2, <2>3
<1>8. FStatus = [t \in Shards |-> FStatus[t]] /\ FStatus' = [t \in Shards |-> FStatus'[t]]
    BY DEF FStatus
<1>9. \A t \in Shards : status'[t] = status[t] => FStatus'[t] = FStatus[t]
    BY <1>4 DEF FStatus, InFallback
<1>10. CASE status'[s] # status[s] /\ status'[s] = "failed"
    <2>1. status[s] = "speculating" /\ rpcFailures' = rpcFailures
        BY <1>1, <1>10 DEF SpeculationMoves
    <2>2. FStatus[s] = "waiting" /\ FStatus'[s] = "failed"
        BY <1>10, <2>1 DEF FStatus, InFallback
    <2>3. FStatus' = [FStatus EXCEPT ![s] = "failed"]
        BY <1>1, <1>8, <1>9, <2>2
    <2> QED BY <1>2, <1>6, <1>7, <2>2, <2>3 DEF F!GiveUp, F!history, F!workVars, fallbackVars
<1>11. CASE status'[s] = status[s] \/ status'[s] # "failed"
    <2>1. FStatus'[s] = FStatus[s]
        BY <1>1, <1>9, <1>11 DEF FStatus, InFallback, SpeculationMoves
    <2>2. FStatus' = FStatus
        BY <1>1, <1>8, <1>9, <2>1
    <2> QED BY <1>2, <1>6, <1>7, <2>2 DEF F!history, F!shardVars, F!workVars, fallbackVars
<1> QED BY <1>10, <1>11

\* A step is one of the fallback, or of the speculation of some shard.
LEMMA StepKinds ==
    ASSUME [SchedulerNext]_allVars
    PROVE  FallbackStep \/ (\E s \in Shards : SpeculationStep(s)) \/ UNCHANGED allVars
BY DEF SchedulerNext, Speculate, TaskStep, FallBack, RpcFails, FallbackStep, SpeculationStep

\* Every step keeps the fallback a batch under deterministic locking.
LEMMA FallsBackStep ==
    ASSUME OnTrees, SpecInv, PublishInv, SlotInv, TypeInv, SpecInv', SlotInv', TypeInv',
           FallsBackSerially, [SchedulerNext]_allVars
    PROVE  FallsBackSerially'
<1> SUFFICES ASSUME Foreseen' PROVE F!LockingInv'
    BY DEF FallsBackSerially
<1>1. Foreseen /\ F!LockingInv
    BY ForeseenBefore DEF FallsBackSerially
<1>2. CASE FallbackStep
    BY <1>1, <1>2, FallbackIsNext, F!LockingStep, FallbackAssumptions
<1>3. ASSUME NEW s \in Shards, SpeculationStep(s) PROVE F!LockingInv'
    <2>1. StoresForeseen'
        BY InstalledForeseenNext
    <2>2. /\ UNCHANGED <<batch, start>>
          /\ \A t \in Shards, j \in Txs : slot[t][j] # Pending => slot'[t][j] = slot[t][j]
        BY SlotsStay
    <2>3. \/ F!GiveUp(s)
          \/ /\ UNCHANGED <<F!history, F!shardVars, F!workVars, mail, stray>>
             /\ rpcFailures' \in 0 .. MaxRpcFailures
        BY <1>1, <1>3, <2>1, <2>2, SpeculationIsHidden
    <2>4. CASE F!GiveUp(s)
        BY <1>1, <2>4, F!GiveUpStep, FallbackAssumptions, SameSets
    <2>5. CASE /\ UNCHANGED <<F!history, F!shardVars, F!workVars, mail, stray>>
               /\ rpcFailures' \in 0 .. MaxRpcFailures
        BY <1>1, <2>5, F!OtherFailureStep, FallbackAssumptions
    <2> QED BY <2>3, <2>4, <2>5
<1>4. CASE UNCHANGED allVars
    <2>1. UNCHANGED <<batch, start, store, results, status, slot, rpcFailures, fallbackVars>>
        BY <1>4 DEF allVars, vars, history, shardVars, workerVars, netVars
    <2>2. /\ Txs' = Txs /\ FMembers' = FMembers /\ FSerial' = FSerial
          /\ \A t : InFallback(t)' = InFallback(t) /\ HasInstalled(t)' = HasInstalled(t)
        BY <2>1 DEF Txs, FMembers, FSerial, InFallback, FailedIndices, HasInstalled, FallsBack, fallbackVars
    <2>3. FStatus' = FStatus
        BY <2>1, <2>2 DEF FStatus
    <2>4. FStore' = FStore
        BY <2>1, <2>2 DEF FStore, Part
    <2>5. FResults' = FResults
        BY <2>1, <2>2 DEF FResults, FResult
    <2>6. UNCHANGED F!vars
        BY <2>1, <2>2, <2>3, <2>4, <2>5
           DEF F!vars, F!history, F!shardVars, F!workVars, F!netVars, fallbackVars
    <2> QED BY <1>1, <2>6, F!LockingStep, FallbackAssumptions
<1> QED BY <1>2, <1>3, <1>4, StepKinds

-----------------------------------------------------------------------------
(* The answers of the speculation *)

\* A participant publishes Ok as it commits.
LEMMA CommitPublishes ==
    ASSUME SpecInv, PublishInv, NEW s \in Shards, NEW i \in Txs, Worker(s, i) \/ FailReadResult(s, i),
           ~Succeeded(s, i), Succeeded(s, i)', s = result_shard(batch[i])
    PROVE  results'[s][i] = "Ok"
<1>1. Grid(slot, Txs) /\ Grid(results, Txs)
    BY DEF SpecInv, SpecType, PublishInv
<1>2. slot'[s][i] # slot[s][i] /\ slot'[s][i] # Failed
    BY DEF Succeeded, Failed
<1>3. ~Fail(s, i)
    BY <1>1, <1>2 DEF Fail, Grid
<1>4. ExecuteAndCommit(s, i)
    BY <1>2, <1>3 DEF Worker, FailReadResult, MaterializeReads, MaterializeFails, SendReadResult,
                      FailAfterStatus, CollectReadResult, OrphanFails
<1>5. results' = [results EXCEPT ![s][i] = "Ok"]
    BY <1>2, <1>3, <1>4 DEF ExecuteAndCommit
<1> QED BY <1>1, <1>5 DEF Grid

LEMMA PublishesOkStep ==
    ASSUME SpecInv, PublishInv, PublishesOk, [SchedulerNext]_allVars
    PROVE  PublishesOk'
<1>1. Final
    BY SpecStep
<1>2. /\ UNCHANGED <<batch, start>> /\ Txs' = Txs
      /\ \A i : Participants(i)' = Participants(i)
    BY SlotsStay DEF Participants
<1>3. SUFFICES ASSUME NEW s \in Shards, NEW i \in Txs, s = result_shard(batch[i]), s \in Participants(i),
                      Succeeded(s, i)'
               PROVE  results'[s][i] = "Ok"
    BY <1>2 DEF PublishesOk
<1>4. CASE Succeeded(s, i)
    <2>1. results[s][i] = "Ok"
        BY <1>3, <1>4 DEF PublishesOk
    <2> QED BY <1>1, <2>1 DEF Final, TxResult
<1>5. CASE ~Succeeded(s, i)
    <2>1. slot'[s][i] # slot[s][i] /\ slot'[s][i] # Pending
        BY <1>3, <1>5 DEF Succeeded, Pending
    <2>2. ~FallbackStep /\ ~UNCHANGED allVars
        BY <2>1 DEF FallbackStep, allVars, vars, specVars, workerVars
    <2>3. PICK t \in Shards : SpeculationStep(t)
        BY <2>2, StepKinds
    <2>4. ~(Install(t) \/ \E j \in Txs : CollectOutcome(t, j))
        BY <2>1 DEF Install, CollectOutcome, workerVars
    <2>5. ~StartBatch(t)
        <3> DEFINE sl == [j \in Txs |-> IF t \in Participants(j) THEN Pending ELSE NoOp]
        <3> SUFFICES ASSUME StartBatch(t) PROVE FALSE
            OBVIOUS
        <3>1. slot' = [slot EXCEPT ![t] = sl] /\ DOMAIN slot = Shards
            BY DEF StartBatch, SpecInv, SpecType, Grid
        <3>2. t = s => sl[i] = Pending
            BY <1>3
        <3> HIDE DEF sl
        <3> QED BY <2>1, <3>1, <3>2
    <2>6. PICK j \in Txs : Worker(t, j) \/ FailReadResult(t, j)
        BY <2>3, <2>4, <2>5 DEF SpeculationStep, Coordinator
    <2>7. t = s /\ j = i
        BY <2>1, <2>6, WorkerIsLocal DEF SpecInv, Local, Bystander, Idles
    <2> QED BY <1>3, <1>5, <2>6, <2>7, CommitPublishes
<1> QED BY <1>4, <1>5

LEMMA PublishesOkInit == SchedulerInit => PublishesOk
BY DEF SchedulerInit, Init, PublishesOk, Succeeded, Pending

-----------------------------------------------------------------------------
(* Both phases together *)

SccInv == SpecInv /\ PublishInv /\ SlotInv /\ TypeInv /\ FallsBackSerially /\ PublishesOk

LEMMA SccInvariant == OnTrees => (SchedulerSpec => []SccInv)
<1> SUFFICES ASSUME OnTrees PROVE SchedulerSpec => []SccInv
    OBVIOUS
<1>1. SchedulerInit => SccInv
    BY SpecInit, SlotsInit, TypesInit, FallsBackInit, PublishesOkInit DEF SccInv
<1>2. SccInv /\ [SchedulerNext]_allVars => SccInv'
    <2> SUFFICES ASSUME SccInv, [SchedulerNext]_allVars PROVE SccInv'
        OBVIOUS
    <2>1. SpecInv' /\ PublishInv' /\ SlotInv' /\ TypeInv'
        BY SpecStep, SlotsStep, TypesStep DEF SccInv
    <2> QED BY <2>1, FallsBackStep, PublishesOkStep DEF SccInv
<1> QED BY <1>1, <1>2, PTL DEF SchedulerSpec

\* When the guess comes true.
LEMMA GuessComesTrue ==
    ASSUME SccInv, AllFailed = Doomed
    PROVE  /\ Foreseen /\ F!LockingInv /\ MayFail(Doomed)
           /\ Txs = 1 .. Len(batch) /\ Len(batch) \in Nat
           /\ \A s \in Shards : status[s] = "done" /\ FailedIndices(s) # {} => FStatus[s] = "done"
<1>1. Doomed \subseteq Txs
    BY DEF AllFailed, FailedIndices
<1>2. MayFail(Doomed)
    BY FailedMayFail DEF SccInv
<1>3. Foreseen /\ F!LockingInv
    BY <1>1, <1>2 DEF Foreseen, SccInv, FallsBackSerially
<1>4. Txs = 1 .. Len(batch) /\ Len(batch) \in Nat
    BY SccAssumption DEF SccInv, SpecInv, SpecType, Txs
<1> QED BY <1>2, <1>3, <1>4 DEF FStatus, InFallback

\* On a shard that is done, the workers of the fallback have executed what failed
\* there, and there has been no other.
LEMMA DoneHasExecuted ==
    ASSUME SccInv, AllFailed = Doomed, NEW s \in Shards, status[s] = "done", NEW i \in Txs
    PROVE  /\ pc[s][i] # "err"
           /\ i \in Doomed /\ s \in F!Active(i) => FStatus[s] = "done" /\ outcome[s][i] # "none"
<1>1. AllSet(s) /\ Publication(s, i)
    BY DEF SccInv, SlotInv, Stores, PublishInv
<1>2. F!Members = Doomed /\ Foreseen /\ F!LockingInv
    BY FallbackHasMembers, GuessComesTrue
<1>3. CASE FailedIndices(s) # {} /\ i \in Doomed
    <2>1. FStatus[s] = "done"
        BY <1>3, GuessComesTrue
    <2> QED BY <1>2, <1>3, <2>1, F!DoneWorkers, FallbackAssumptions, SameSets DEF F!LockingInv
<1>4. CASE FailedIndices(s) = {} \/ i \notin Doomed
    <2>1. i \notin FailedIndices(s)
        BY <1>1, <1>2, <1>4, DoomedHere DEF SccInv
    <2>2. pc[s][i] = "none"
        BY <1>1, <2>1 DEF Publication, FailedIndices
    <2>3. ASSUME i \in Doomed, s \in F!Active(i) PROVE FALSE
        <3>1. s \in Participants(i)
            BY <2>3, SameParts, ActiveParticipate DEF SccInv, SpecInv, SpecType
        <3> QED BY <1>1, <1>2, <2>1, <2>3, <3>1, DoomedHere DEF SccInv
    <2> QED BY <2>2, <2>3
<1> QED BY <1>3, <1>4

LEMMA CompletesReordered ==
    ASSUME SccInv, AllFailed = Doomed
    PROVE  CompletedIsReordered
<1> SUFFICES ASSUME \A s \in Shards : status[s] = "done", NEW s \in Shards, NEW k \in Keys
             PROVE  store[s][k] = IF Owner[k] = s THEN ReorderedState(start, batch, AllFailed)[k]
                                  ELSE Missing
    BY DEF CompletedIsReordered, HoldTogether
<1>1. FStore[s] = store[s]
    BY DEF FStore, HasInstalled
<1>2. ReorderedState(start, batch, AllFailed) = FSerial[Len(batch)]
    BY DEF ReorderedState, FSerial
<1>3. F!NoError
    BY DoneHasExecuted, SameSets DEF F!NoError
<1>4. \A i \in F!Members : s \in F!Active(i) => outcome[s][i] # "none"
    <2>1. F!Members = Doomed /\ Doomed \subseteq Txs
        BY FallbackHasMembers, GuessComesTrue DEF Foreseen
    <2> QED BY <2>1, DoneHasExecuted
<1>5. FStore[s][k] = IF Owner[k] = s THEN FSerial[Len(batch)][k] ELSE F!Missing
    BY <1>3, <1>4, GuessComesTrue, F!ExecutedIsSerial, FallbackAssumptions, SameSets
<1> QED BY <1>1, <1>2, <1>5, SameSets

\* A transaction that has committed answers Ok in the reference execution too.
LEMMA CommittedAnswersOk ==
    ASSUME OnTrees, SccInv, AllFailed = Doomed, NEW i \in Txs, NEW s \in Participants(i), Succeeded(s, i)
    PROVE  i \notin Doomed /\ ReorderedResult(start, batch, Doomed, i) = "Ok"
<1> DEFINE S == Txs \ Doomed
<1>1. MayFail(Doomed) /\ Txs = 1 .. Len(batch) /\ Len(batch) \in Nat
    BY GuessComesTrue
<1>2. i \in S \cap Txs
    BY <1>1 DEF MayFail
<1>3. MaxPred(i) \in 0 .. Len(batch)
    BY <1>1, PredFacts DEF SccInv, SpecInv, SpecType
<1>4. Closed(S) /\ Describes(S, MaxPred(i))
    BY <1>1, <1>3, SuccessesClosed, SlotsDescribe DEF SccInv
<1>5. \E k \in Keys : Owner[k] = s
    <2>1. ReadSet(batch[i]) \cup WriteSet(batch[i]) \subseteq Keys
        BY TxFacts, SetsInKeys DEF WriteSet, SccInv, SpecInv, SpecType
    <2> QED BY <2>1 DEF Participants, AllParticipants, OwnersOf
<1>6. AnswersOk(batch[i].op, Run(S)[i - 1])
    BY <1>2, <1>4, <1>5, CommittedSlot DEF SccInv
<1>7. Run(S) = SuccessRun(start, batch, Doomed)
    BY DEF Run, SuccessRun, SpeculativeSuccesses, Txs
<1> QED BY <1>2, <1>6, <1>7 DEF AnswersOk, ReorderedResult

LEMMA PublishesReordered ==
    ASSUME OnTrees, SccInv, AllFailed = Doomed
    PROVE  PublishedIsReordered
<1>1. ASSUME ~FallbackError, NEW s \in Shards, NEW i \in Txs, results[s][i] \in TxResult
      PROVE  s = result_shard(batch[i]) /\ results[s][i] = ReorderedResult(start, batch, AllFailed, i)
    <2>1. /\ s = result_shard(batch[i])
          /\ Succeeded(s, i) \/ slot[s][i] = Failed
        BY <1>1 DEF SccInv, PublishInv, Publication
    <2>2. s \in Participants(i) /\ i \in 1 .. Len(batch) /\ F!LockingInv
        BY <2>1, ActiveParticipate, GuessComesTrue DEF SccInv, SpecInv, SpecType
    <2>3. CASE Succeeded(s, i)
        <3>1. results[s][i] = "Ok"
            BY <2>1, <2>2, <2>3 DEF SccInv, PublishesOk
        <3> QED BY <2>1, <2>2, <2>3, <3>1, CommittedAnswersOk
    <2>4. CASE slot[s][i] = Failed
        <3>1. i \in Doomed
            BY <2>4 DEF AllFailed, FailedIndices
        <3>2. FResults[s][i] = results[s][i]
            BY <1>1, <2>1, <3>1 DEF FResults, FResult
        <3>3. F!NoError
            BY <1>1, SameSets DEF F!NoError, FallbackError
        <3>4. FResults[s][i] = F!ReferenceOutput(FSerial[i - 1], batch[i].op).result
            BY <1>1, <2>2, <3>2, <3>3, F!PublishedBySerial, FallbackAssumptions, SameSets
        <3>5. F!ReferenceOutput(FSerial[i - 1], batch[i].op) = ReferenceOutput(FSerial[i - 1], batch[i].op)
            BY SameLogic
        <3> QED BY <2>1, <3>1, <3>2, <3>4, <3>5 DEF ReorderedResult, FSerial
    <2> QED BY <2>1, <2>3, <2>4
<1>2. ASSUME NEW s \in Shards, status[s] = "done", NEW i \in Txs, result_shard(batch[i]) = s
      PROVE  results[s][i] \in TxResult
    <2>1. s \in Participants(i) /\ s \in F!Active(i)
        BY <1>2, SameParts, ActiveParticipate DEF SccInv, SpecInv, SpecType
    <2>2. Slots(s, i) /\ slot[s][i] # Pending
        BY <1>2 DEF SccInv, SlotInv, Stores, AllSet
    <2>3. CASE Succeeded(s, i)
        BY <1>2, <2>1, <2>3 DEF SccInv, PublishesOk, TxResult
    <2>4. CASE slot[s][i] = Failed
        <3>1. i \in Doomed /\ F!LockingInv
            BY <2>4, GuessComesTrue DEF AllFailed, FailedIndices
        <3>2. FStatus[s] = "done" /\ i \in F!Members /\ F!ResultShard(i) = s
            BY <1>2, <2>1, <3>1, DoneHasExecuted, FallbackHasMembers, SameParts
        <3>3. FResults[s][i] \in F!TxResult
            BY <1>2, <3>1, <3>2, F!DonePublished, FallbackAssumptions, SameSets DEF F!LockingInv
        <3> QED BY <1>2, <3>1, <3>3, SameSets DEF FResults, FResult, TxResult
    <2> QED BY <2>2, <2>3, <2>4 DEF Slots
<1> QED BY <1>1, <1>2 DEF PublishedIsReordered

\* When every shard has answered Ok, the merged stores are the state of the reference
\* execution in the order of the reorder records, RPC failures included, although
\* no shard knows that order and some are in the fallback while others speculate
\* (execute_scc_batch, install_scc_successes).  Doomed is any value, so the theorem
\* is about every state: the record there is some Doomed.
THEOREM CompletedIsReorderedAlways ==
    OnTrees => (SchedulerSpec => [](AllFailed = Doomed => CompletedIsReordered))
<1> SUFFICES ASSUME OnTrees PROVE SchedulerSpec => [](AllFailed = Doomed => CompletedIsReordered)
    OBVIOUS
<1>1. SccInv => (AllFailed = Doomed => CompletedIsReordered)
    BY CompletesReordered
<1> QED BY <1>1, SccInvariant, PTL

\* A client is told the result that its transaction has in that order, by the shard
\* that SubmitTx named: an Ok before its delta is installed, and any result unless
\* a worker of the fallback has failed; and a shard that answers Ok has told it
\* (commit_success, TxResultRegistry).
THEOREM PublishedIsReorderedAlways ==
    OnTrees => (SchedulerSpec => [](AllFailed = Doomed => PublishedIsReordered))
<1> SUFFICES ASSUME OnTrees PROVE SchedulerSpec => [](AllFailed = Doomed => PublishedIsReordered)
    OBVIOUS
<1>1. SccInv => (AllFailed = Doomed => PublishedIsReordered)
    BY PublishesReordered
<1> QED BY <1>1, SccInvariant, PTL
=============================================================================
