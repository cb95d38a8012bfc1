---------------------------- MODULE WorldStateDB ----------------------------
(***************************************************************************)
(* The MVCC storage engine of crates/db/src/worldstate_db.rs: the typed    *)
(* relations with their global caches, the transactions' working sets, the *)
(* sequences, and the single committer thread that validates, applies and  *)
(* persists one working set at a time.                                     *)
(*                                                                         *)
(* Control is kept step by step (every early return and every `continue`   *)
(* of the processing loop is a branch here).  Data is abstracted: the      *)
(* twelve relations are the members of LockOrder, keys and values are      *)
(* small sets, and of the sixteen sequences the two with a role of their   *)
(* own are kept (slot 0, the object-id allocator, and slot 15, the         *)
(* transaction counter).                                                   *)
(*                                                                         *)
(* GlobalCache, WorkingSet and DbTransaction are not part of the sources   *)
(* at hand; Check, Apply, TxRead, TxStage, AllocateObjid and SubmitCommit  *)
(* follow their description in the specification document.                 *)
(***************************************************************************)
EXTENDS Integers, Sequences, FiniteSets, SequencesExt

CONSTANTS
    LockOrder,    \* the relations, in the order the committer locks them
    Keys,         \* keys of a relation
    Vals,         \* values of a relation
    Txs,          \* transaction handles, each used once
    NoVal,        \* an absent entry: a miss on read, a tombstone when staged
    Unseen,       \* a key the working set has not read / not staged
    MaxObjid,     \* bound: largest value sequence 0 is driven to (-1: none)
    MaxOpens,     \* bound: how many times the database is reopened
    MaxUsage,     \* bound: usage queries waiting at any one time
    IoFaults      \* the steps of a commit that may fail (apply, sequences,
                  \* persist, and the reply to a caller that has gone)

ASSUME /\ Len(LockOrder) > 0
       /\ NoVal \notin Vals /\ Unseen \notin Vals /\ NoVal # Unseen
       /\ MaxObjid \in Int /\ MaxObjid >= -1
       /\ {MaxOpens, MaxUsage} \subseteq Nat
       /\ IoFaults \subseteq {"apply", "sequences", "persist", "reply"}

VARIABLES
    monotonic,       \* AtomicU64: the next transaction timestamp
    sequences,       \* the in-memory sequences
    cache,           \* the global caches: relation -> key -> (version, value)
    partition,       \* the keyspace as written, synced or not
    seq_partition,   \* the "sequences" partition, as written
    durable,         \* what stable storage is known to hold: the keyspace as
                     \* the last persist(SyncAll), or the last open(), found it
    ws,              \* the working sets of each transaction
    observed,        \* the values a transaction's reads returned to it
    txState,         \* life cycle of each transaction handle
    commit_channel,  \* queue of working sets sent to the committer
    usage_recv,      \* number of usage queries waiting
    committer,       \* the processing thread: where it is, and on what
    kill_switch,     \* AtomicBool set by stop()
    opens            \* how many times open() ran after the first

vars == <<monotonic, sequences, cache, partition, seq_partition, durable, ws,
          observed, txState, commit_channel, usage_recv, committer,
          kill_switch, opens>>

Relations == ToSet(LockOrder)
Stored    == Vals \cup {NoVal}

SEQ_MAX_OBJECT == 0
SEQ_MONOTONIC  == 15
Slots          == {SEQ_MAX_OBJECT, SEQ_MONOTONIC}

-----------------------------------------------------------------------------
(* State built by the constructors *)

\* struct WorkingSets: a transaction timestamp and one working set per
\* relation.  A working set's staged puts and tombstones are one function
\* here (a tombstone is a staged NoVal), which keeps "a put drops the
\* tombstone and a tombstone drops the put" by construction.
WorkingSets(ts) ==
    [ts     |-> ts,
     reads  |-> [r \in Relations |-> [k \in Keys |-> Unseen]],
     staged |-> [r \in Relations |-> [k \in Keys |-> Unseen]]]

NoWorkingSets == WorkingSets(0)
NothingObserved == [r \in Relations |-> [k \in Keys |-> Unseen]]

\* GlobalCache::new over a provider: every key is fetched from the partition
\* on its first read and enters the cache with version 0.  No step can tell a
\* key not yet fetched from one fetched with version 0 (partitions change
\* only through apply, which updates the cache as well), so the cache is
\* filled when it is built.
FreshCache(disk) ==
    [r \in Relations |-> [k \in Keys |-> [version |-> 0, value |-> disk[r][k]]]]

ThreadAt(pc) == [pc |-> pc, tx |-> NoVal, idx |-> 0]

\* Faulty variant of Open: slot 15 is taken as found, with no default for a
\* keyspace that never saw a commit.
Open_NoDefault(disk) ==
    /\ sequences' = [s \in Slots |-> -1]
    /\ monotonic' = disk.seq[SEQ_MONOTONIC]
    /\ partition' = disk.rel
    /\ seq_partition' = disk.seq
    /\ cache' = FreshCache(disk.rel)
    /\ commit_channel' = <<>>
    /\ usage_recv' = 0
    /\ kill_switch' = FALSE
    /\ committer' = ThreadAt("idle")

\* Faulty variant of Open: the transaction counter starts over, the way the
\* other sequences do.
Open_ForgetsCounter(disk) ==
    /\ sequences' = [s \in Slots |-> -1]
    /\ monotonic' = 1
    /\ partition' = disk.rel
    /\ seq_partition' = disk.seq
    /\ cache' = FreshCache(disk.rel)
    /\ commit_channel' = <<>>
    /\ usage_recv' = 0
    /\ kill_switch' = FALSE
    /\ committer' = ThreadAt("idle")

\* WorldStateDB::open on a keyspace holding `disk`: the sequences start at -1
\* and are not read back; only slot 15 seeds the transaction counter.
Open(disk) ==
    /\ sequences' = [s \in Slots |-> -1]
    /\ monotonic' = IF disk.seq[SEQ_MONOTONIC] = NoVal
                    THEN 1 ELSE disk.seq[SEQ_MONOTONIC]
    /\ partition' = disk.rel
    /\ seq_partition' = disk.seq
    /\ cache' = FreshCache(disk.rel)
    /\ commit_channel' = <<>>
    /\ usage_recv' = 0
    /\ kill_switch' = FALSE
    /\ committer' = ThreadAt("idle")

EmptyKeyspace ==
    [rel |-> [r \in Relations |-> [k \in Keys |-> NoVal]],
     seq |-> [s \in Slots |-> NoVal]]

Init ==
    /\ durable = EmptyKeyspace
    /\ sequences = [s \in Slots |-> -1]
    /\ monotonic = 1
    /\ partition = EmptyKeyspace.rel
    /\ seq_partition = EmptyKeyspace.seq
    /\ cache = FreshCache(EmptyKeyspace.rel)
    /\ commit_channel = <<>>
    /\ usage_recv = 0
    /\ kill_switch = FALSE
    /\ committer = ThreadAt("idle")
    /\ ws = [t \in Txs |-> NoWorkingSets]
    /\ observed = [t \in Txs |-> NothingObserved]
    /\ txState = [t \in Txs |-> "unused"]
    /\ opens = 0

-----------------------------------------------------------------------------
(* The transactions *)

\* Faulty variant of Locked: the guards are dropped when the checks return.
Locked_UntilChecked(r) == FALSE

\* The committer takes every relation's mutex before the first check and
\* gives each one to that relation's apply, which writes under it and drops
\* it: relation i is locked until it has been applied.  (On a conflict or a
\* failed apply the `continue` drops what is still held.)
Locked(r) ==
    /\ committer.pc = "apply"
    /\ \E i \in committer.idx .. Len(LockOrder) : LockOrder[i] = r

Live(t) == txState[t] \in {"active", "committing"}

\* The handle is gone: its working sets are dropped with it (the timestamp
\* it ran under stays on record for the properties).
Forget(S) ==
    /\ ws' = [t \in Txs |-> IF t \in S THEN WorkingSets(ws[t].ts) ELSE ws[t]]
    /\ observed' = [t \in Txs |-> IF t \in S THEN NothingObserved ELSE observed[t]]

StartTransaction(t) ==
    /\ txState[t] = "unused"
    /\ txState' = [txState EXCEPT ![t] = "active"]
    /\ ws' = [ws EXCEPT ![t] = WorkingSets(monotonic)]
    /\ monotonic' = monotonic + 1
    /\ UNCHANGED <<sequences, cache, partition, seq_partition, durable,
                   observed, commit_channel, usage_recv, committer,
                   kill_switch, opens>>

\* A read that reaches the global cache: the key is neither staged nor read
\* before.  It takes the relation's mutex, so it waits while the committer
\* holds it, and records the version it saw, hit or miss.
TxRead(t, r, k) ==
    /\ txState[t] = "active"
    /\ ws[t].staged[r][k] = Unseen
    /\ ws[t].reads[r][k] = Unseen
    /\ ~Locked(r)
    /\ ws' = [ws EXCEPT ![t].reads[r][k] = cache[r][k].version]
    /\ observed' = [observed EXCEPT ![t][r][k] = cache[r][k].value]
    /\ UNCHANGED <<monotonic, sequences, cache, partition, seq_partition,
                   durable, txState, commit_channel, usage_recv, committer,
                   kill_switch, opens>>

\* A put (v a value) or a delete (v = NoVal): staged only.
TxStage(t, r, k, v) ==
    /\ txState[t] = "active"
    /\ ws[t].staged[r][k] # v
    /\ ws' = [ws EXCEPT ![t].staged[r][k] = v]
    /\ UNCHANGED <<monotonic, sequences, cache, partition, seq_partition,
                   durable, observed, txState, commit_channel, usage_recv,
                   committer, kill_switch, opens>>

\* create_object without an id draws on sequence 0.  The sequences are
\* shared atomics: the increment is neither staged nor undone by a conflict.
AllocateObjid(t) ==
    /\ txState[t] = "active"
    /\ sequences[SEQ_MAX_OBJECT] < MaxObjid
    /\ sequences' = [sequences EXCEPT ![SEQ_MAX_OBJECT] = @ + 1]
    /\ UNCHANGED <<monotonic, cache, partition, seq_partition, durable, ws,
                   observed, txState, commit_channel, usage_recv, committer,
                   kill_switch, opens>>

\* What max_object() answers.
MaxObject == sequences[SEQ_MAX_OBJECT]

\* commit(): the working sets and a reply channel go to the committer; the
\* caller waits for the reply.
SubmitCommit(t) ==
    /\ txState[t] = "active"
    /\ txState' = [txState EXCEPT ![t] = "committing"]
    /\ commit_channel' = Append(commit_channel, t)
    /\ UNCHANGED <<monotonic, sequences, cache, partition, seq_partition,
                   durable, ws, observed, usage_recv, committer, kill_switch,
                   opens>>

\* rollback(), or the handle is dropped.
Rollback(t) ==
    /\ txState[t] = "active"
    /\ txState' = [txState EXCEPT ![t] = "aborted"]
    /\ Forget({t})
    /\ UNCHANGED <<monotonic, sequences, cache, partition, seq_partition,
                   durable, commit_channel, usage_recv, committer,
                   kill_switch, opens>>

\* db_usage(): a query for the keyspace's size, answered by the committer.
UsageQuery(t) ==
    /\ txState[t] = "active"
    /\ usage_recv < MaxUsage
    /\ usage_recv' = usage_recv + 1
    /\ UNCHANGED <<monotonic, sequences, cache, partition, seq_partition,
                   durable, ws, observed, txState, commit_channel, committer,
                   kill_switch, opens>>

-----------------------------------------------------------------------------
(* The global cache, as the committer uses it *)

\* check: every key the transaction read, hit or miss, is still at the
\* version it was read at.
Check(r, w) ==
    \A k \in Keys : w.reads[r][k] \in {Unseen, cache[r][k].version}

Validates(w) == \A i \in DOMAIN LockOrder : Check(LockOrder[i], w)

\* Faulty variant of Bumped: the value is installed under the old version.
Bumped_SameVersion(entry, v) == [version |-> entry.version, value |-> v]

Bumped(entry, v) == [version |-> entry.version + 1, value |-> v]

\* apply: every staged entry gets a fresh version in the cache and is
\* written through to the partition.
Apply(r, w) ==
    /\ cache' = [cache EXCEPT ![r] = [k \in Keys |->
                     IF w.staged[r][k] = Unseen THEN @[k]
                     ELSE Bumped(@[k], w.staged[r][k])]]
    /\ partition' = [partition EXCEPT ![r] = [k \in Keys |->
                     IF w.staged[r][k] = Unseen THEN @[k] ELSE w.staged[r][k]]]

-----------------------------------------------------------------------------
(* The processing thread *)

\* Top of the loop: the kill switch ends the thread.
ObserveKillSwitch ==
    /\ committer.pc = "idle"
    /\ kill_switch
    /\ committer' = ThreadAt("stopped")
    /\ UNCHANGED <<monotonic, sequences, cache, partition, seq_partition,
                   durable, ws, observed, txState, commit_channel, usage_recv,
                   kill_switch, opens>>

\* try_recv on the usage channel: at most one query is answered per turn of
\* the loop, and a failed reply is only logged.
PollUsage ==
    /\ committer.pc = "idle"
    /\ ~kill_switch
    /\ usage_recv' = IF usage_recv > 0 THEN usage_recv - 1 ELSE 0
    /\ committer' = ThreadAt("recv")
    /\ UNCHANGED <<monotonic, sequences, cache, partition, seq_partition,
                   durable, ws, observed, txState, commit_channel,
                   kill_switch, opens>>

\* recv_timeout ran out with nothing queued: back to the top of the loop.
\* (The Disconnected arm is dead code: the closure owns `this`, an Arc of the
\* database, and the database owns commit_channel, a sender of the channel
\* the thread receives from; the channel has a sender for as long as the
\* thread runs.)
RecvTimeout ==
    /\ committer.pc = "recv"
    /\ commit_channel = <<>>
    /\ committer' = ThreadAt("idle")
    /\ UNCHANGED <<monotonic, sequences, cache, partition, seq_partition,
                   durable, ws, observed, txState, commit_channel, usage_recv,
                   kill_switch, opens>>

\* reply.send(result).unwrap(), which ends the iteration.  The send fails
\* when the caller has dropped its end of the oneshot channel, and unwrap()
\* then ends the thread.  When the caller gave up is not a step of its own:
\* nothing reads the channel before the send.
Reply(t, result) ==
    /\ Forget({t})
    /\ \/ /\ txState' = [txState EXCEPT ![t] = result]
          /\ committer' = ThreadAt("idle")
       \/ /\ "reply" \in IoFaults
          /\ txState' = [txState EXCEPT ![t] = "aborted"]
          /\ committer' = ThreadAt("panicked")

\* Faulty variant of ReceiveCommit: the working set is applied unchecked.
ReceiveCommit_Unchecked ==
    /\ committer.pc = "recv"
    /\ commit_channel # <<>>
    /\ commit_channel' = Tail(commit_channel)
    /\ committer' = [pc |-> "apply", tx |-> Head(commit_channel), idx |-> 1]
    /\ UNCHANGED <<monotonic, sequences, cache, partition, seq_partition,
                   durable, ws, observed, txState, usage_recv, kill_switch,
                   opens>>

\* Faulty variant of ReceiveCommit: on a conflict the loop goes on without
\* sending ConflictRetry.
ReceiveCommit_SilentConflict ==
    /\ committer.pc = "recv"
    /\ commit_channel # <<>>
    /\ LET t == Head(commit_channel) IN
        /\ commit_channel' = Tail(commit_channel)
        /\ committer' = IF Validates(ws[t])
                        THEN [pc |-> "apply", tx |-> t, idx |-> 1]
                        ELSE ThreadAt("idle")
    /\ UNCHANGED <<monotonic, sequences, cache, partition, seq_partition,
                   durable, ws, observed, txState, usage_recv, kill_switch,
                   opens>>

\* A working set arrives: all locks are taken, every relation is checked, and
\* on the first conflict the caller is told to retry and the loop goes on.
\* Taking the locks and checking is one step: a read that slips in between
\* two lock() calls changes no cache and sees what it would have seen before
\* the first of them.
ReceiveCommit ==
    /\ committer.pc = "recv"
    /\ commit_channel # <<>>
    /\ LET t == Head(commit_channel) IN
        /\ commit_channel' = Tail(commit_channel)
        /\ \/ /\ Validates(ws[t])
              /\ committer' = [pc |-> "apply", tx |-> t, idx |-> 1]
              /\ UNCHANGED <<txState, ws, observed>>
           \/ /\ ~Validates(ws[t])
              /\ Reply(t, "conflicted")
    /\ UNCHANGED <<monotonic, sequences, cache, partition, seq_partition,
                   durable, usage_recv, kill_switch, opens>>

\* The relations are applied one after the other, in lock order; each apply
\* gives up the lock of its relation.
ApplyNext ==
    /\ committer.pc = "apply"
    /\ Apply(LockOrder[committer.idx], ws[committer.tx])
    /\ committer' = IF committer.idx < Len(LockOrder)
                    THEN [committer EXCEPT !.idx = @ + 1]
                    ELSE [committer EXCEPT !.pc = "sequences"]
    /\ UNCHANGED <<monotonic, sequences, seq_partition, durable, ws, observed,
                   txState, commit_channel, usage_recv, kill_switch, opens>>

\* An apply returns Err: the caller is told to retry and the loop goes on.
\* The relations applied before this one stay applied, in the caches and in
\* the partitions; nothing is persisted for this commit.
ApplyFails ==
    /\ committer.pc = "apply"
    /\ "apply" \in IoFaults
    /\ Reply(committer.tx, "conflicted")
    /\ UNCHANGED <<monotonic, sequences, cache, partition, seq_partition,
                   durable, commit_channel, usage_recv, kill_switch, opens>>

\* Slot 15 takes the transaction counter, then every sequence is written to
\* the sequences partition.
WriteSequences ==
    /\ committer.pc = "sequences"
    /\ sequences' = [sequences EXCEPT ![SEQ_MONOTONIC] = monotonic]
    /\ seq_partition' = sequences'
    /\ committer' = [committer EXCEPT !.pc = "persist"]
    /\ UNCHANGED <<monotonic, cache, partition, durable, ws, observed,
                   txState, commit_channel, usage_recv, kill_switch, opens>>

\* Faulty variant of Persist: the reply is sent without the fsync.
Persist_Skipped ==
    /\ committer.pc = "persist"
    /\ committer' = [committer EXCEPT !.pc = "reply"]
    /\ UNCHANGED <<monotonic, sequences, cache, partition, seq_partition,
                   durable, ws, observed, txState, commit_channel, usage_recv,
                   kill_switch, opens>>

\* keyspace.persist(SyncAll).
Persist ==
    /\ committer.pc = "persist"
    /\ durable' = [rel |-> partition, seq |-> seq_partition]
    /\ committer' = [committer EXCEPT !.pc = "reply"]
    /\ UNCHANGED <<monotonic, sequences, cache, partition, seq_partition, ws,
                   observed, txState, commit_channel, usage_recv, kill_switch,
                   opens>>

\* The insert into the sequences partition or the persist fails: unwrap()
\* and expect() end the thread.  The reply channel is dropped with it, so the
\* caller learns that its commit got no answer; the database is left without
\* a committer.
CommitterPanics ==
    /\ committer.pc \in {"sequences", "persist"} \cap IoFaults
    /\ txState' = [txState EXCEPT ![committer.tx] = "aborted"]
    /\ Forget({committer.tx})
    /\ committer' = ThreadAt("panicked")
    /\ UNCHANGED <<monotonic, sequences, cache, partition, seq_partition,
                   durable, commit_channel, usage_recv, kill_switch, opens>>

\* reply.send(Success), the last statement of the iteration.
ReplySuccess ==
    /\ committer.pc = "reply"
    /\ Reply(committer.tx, "committed")
    /\ UNCHANGED <<monotonic, sequences, cache, partition, seq_partition,
                   durable, commit_channel, usage_recv, kill_switch, opens>>

Committer ==
    \/ ObserveKillSwitch
    \/ PollUsage
    \/ RecvTimeout
    \/ ReceiveCommit
    \/ ApplyNext
    \/ ApplyFails
    \/ WriteSequences
    \/ Persist
    \/ CommitterPanics
    \/ ReplySuccess

-----------------------------------------------------------------------------
(* The database as a whole *)

\* stop(), also what Drop does.
Stop ==
    /\ ~kill_switch
    /\ kill_switch' = TRUE
    /\ UNCHANGED <<monotonic, sequences, cache, partition, seq_partition,
                   durable, ws, observed, txState, commit_channel, usage_recv,
                   committer, opens>>

\* What the next open() can find after the process has died: persist(SyncAll)
\* is the only fsync, so of the inserts made since the last one the keyspace
\* may have kept none (the machine went down) or all (only the process did).
\* Keeping some of them is keeping all of them at an earlier step.
Survivors == {durable, [rel |-> partition, seq |-> seq_partition]}

\* The process dies, at any step, and open() runs on what the keyspace kept.
\* Every handle of the old process is gone.
Restart ==
    /\ opens < MaxOpens
    /\ opens' = opens + 1
    /\ \E disk \in Survivors :
          /\ Open(disk)
          /\ durable' = disk
    /\ txState' = [t \in Txs |-> IF Live(t) THEN "aborted" ELSE txState[t]]
    /\ Forget({t \in Txs : Live(t)})

Next ==
    \/ \E t \in Txs :
          \/ StartTransaction(t)
          \/ \E r \in Relations, k \in Keys :
                \/ TxRead(t, r, k)
                \/ \E v \in Stored : TxStage(t, r, k, v)
          \/ AllocateObjid(t)
          \/ SubmitCommit(t)
          \/ Rollback(t)
          \/ UsageQuery(t)
    \/ Committer
    \/ Stop
    \/ Restart

\* The committer is a thread of its own that does nothing but run its loop.
Fairness == WF_vars(Committer)

Spec == Init /\ [][Next]_vars /\ Fairness

-----------------------------------------------------------------------------
(* What is checked *)

Versioned == [version : Nat, value : Stored]
PerKey(S) == [Relations -> [Keys -> S]]

TypeOK ==
    /\ monotonic \in Nat \ {0}
    /\ sequences \in [Slots -> Int]
    /\ cache \in PerKey(Versioned)
    /\ partition \in PerKey(Stored)
    /\ seq_partition \in [Slots -> Int \cup {NoVal}]
    /\ durable \in [rel : PerKey(Stored), seq : [Slots -> Int \cup {NoVal}]]
    /\ ws \in [Txs -> [ts : Nat, reads : PerKey(Nat \cup {Unseen}),
                       staged : PerKey(Stored \cup {Unseen})]]
    /\ observed \in [Txs -> PerKey(Stored \cup {Unseen})]
    /\ txState \in [Txs -> {"unused", "active", "committing", "committed",
                            "conflicted", "aborted"}]
    /\ commit_channel \in Seq(Txs)
    /\ usage_recv \in 0..MaxUsage
    /\ committer \in [pc : {"idle", "recv", "apply", "sequences", "persist",
                            "reply", "stopped", "panicked"},
                      tx : Txs \cup {NoVal}, idx : 0..Len(LockOrder)]
    /\ kill_switch \in BOOLEAN
    /\ opens \in 0..MaxOpens

\* The refinement mapping.  The store of SerialStore is what a read returns
\* or, for a relation the committer still holds, will return when the lock
\* is given up.  A commit takes effect in the step that finds it valid, with
\* every relation locked; each apply then swaps a lock for the applied
\* values, which no reader can tell apart.
Cells == Relations \X Keys

Visible(r, k) ==
    IF Locked(r) /\ ws[committer.tx].staged[r][k] # Unseen
    THEN ws[committer.tx].staged[r][k]
    ELSE cache[r][k].value

Outcome(t) ==
    CASE txState[t] # "committing" -> txState[t]
      [] committer.tx = t /\ committer.pc = "reply" -> "persisted"
      [] committer.tx = t -> "applied"
      [] OTHER -> "active"

OfActive(t, f) ==
    [c \in Cells |-> IF Outcome(t) = "active" THEN f[c[1]][c[2]] ELSE Unseen]

Promise == INSTANCE SerialStore WITH
    store    <- [c \in Cells |-> Visible(c[1], c[2])],
    stable   <- [c \in Cells |-> durable.rel[c[1]][c[2]]],
    snapshot <- [t \in Txs |-> OfActive(t, observed[t])],
    staged   <- [t \in Txs |-> OfActive(t, ws[t].staged)],
    outcome  <- [t \in Txs |-> Outcome(t)]

\* The engine implements SerialStore: whatever the interleaving of
\* transactions, committer steps, stops and restarts, what transactions read
\* changes only by the whole write set of one transaction whose every read
\* (hits and misses, checked by version in the processing thread's check
\* phase) is still what a read would return; no read sees one relation of a
\* commit applied and another not, although the locks are given up one by
\* one; Success is replied only for a commit that persist(SyncAll) has made
\* durable; and a restart keeps what was persisted and, of a commit that was
\* not, anything between nothing and all.
ImplementsSerialStore == Promise!ASpec

\* No lost update and no write skew: a working set is applied only if every
\* value its transaction was given by a read, in any relation, is still the
\* value stable storage holds, however many other commits, conflicts and
\* restarts happened between the read and the check.  The check compares
\* versions, never values; this ties the two together.
AppliesOnlyFreshReads ==
    committer.pc \in {"apply", "sequences", "persist"} =>
        \A r \in Relations, k \in Keys :
            observed[committer.tx][r][k] \in {Unseen, durable.rel[r][k]}

\* Between two commits the caches hold exactly what stable storage holds,
\* whatever commits, conflicts, stops and restarts came before: a commit that
\* was answered left nothing in a cache that a crash would take back, and
\* open() rebuilds the caches from what it finds.  Reads go to the caches, so
\* this is what the next transaction sees.
CacheIsDurable ==
    committer.pc \in {"idle", "recv", "stopped"} =>
        \A r \in Relations, k \in Keys : cache[r][k].value = durable.rel[r][k]

\* A timestamp handed out by start_transaction is never shared by two
\* transactions that count: those running now and those that ever committed,
\* in this run of the process or an earlier one.  This rests on slot 15 being
\* written with every commit and read back by open().
Counts(t) == txState[t] \in {"active", "committing", "committed"}

TimestampsUnique ==
    \A t, u \in Txs : (t # u /\ Counts(t) /\ Counts(u)) => ws[t].ts # ws[u].ts

\* Every commit() is answered, with Success or ConflictRetry, as long as the
\* processing thread is neither stopped nor dead and the process does not end
\* first: the loop replies on every path out of an iteration, a failed apply
\* included.
CommitAnswered ==
    \A t \in Txs :
        (txState[t] = "committing") ~>
            (txState[t] # "committing"
                \/ committer.pc \in {"stopped", "panicked"})

\* max_object() is "the largest object id ever allocated": once a commit has
\* written the sequences to the keyspace and persist(SyncAll) made them
\* durable, the allocator in memory is never behind the value on disk, so an
\* id handed out and committed is not handed out again after a restart.
AllocatorResumesFromDisk ==
    durable.seq[SEQ_MAX_OBJECT] # NoVal => MaxObject >= durable.seq[SEQ_MAX_OBJECT]
=============================================================================
