---------------------------- MODULE SerialStore ----------------------------
(***************************************************************************)
(* What the storage core promises its callers: transactions that observe   *)
(* and stage values privately and then take effect all at once, in commit  *)
(* order, against one store, and only if everything they observed is still *)
(* what the store holds.  A commit is acknowledged only when it is stable. *)
(* A crash takes the store back to what is stable, except that it may keep *)
(* any part of what was not: a commit is all or nothing for the            *)
(* transactions that run beside it, not for a crash in the middle of it.   *)
(*                                                                         *)
(* This is the abstract specification that WorldStateDB is shown to        *)
(* implement.  It has no cache, no versions, no locks, no committer thread *)
(* and no queue: a commit is a single step.                                *)
(***************************************************************************)
CONSTANTS
    Txs,         \* transaction handles
    Cells,       \* the entries of the store (a relation and a key)
    Vals,        \* the values an entry can hold
    NoVal,       \* the entry is absent
    Unseen       \* the transaction has not observed / not staged the entry

VARIABLES
    store,       \* what transactions read: Cells -> Vals \cup {NoVal}
    stable,      \* what a crash cannot take away
    snapshot,    \* per transaction, the value it observed for each cell
    staged,      \* per transaction, the value it will install for each cell
    outcome      \* per transaction, where it is in its life

avars == <<store, stable, snapshot, staged, outcome>>

Stored == Vals \cup {NoVal}

Nothing == [c \in Cells |-> Unseen]

Running == {"active", "applied", "persisted"}

ATypeOK ==
    /\ store \in [Cells -> Stored]
    /\ stable \in [Cells -> Stored]
    /\ snapshot \in [Txs -> [Cells -> Stored \cup {Unseen}]]
    /\ staged \in [Txs -> [Cells -> Stored \cup {Unseen}]]
    /\ outcome \in [Txs -> Running \cup {"unused", "committed", "conflicted", "aborted"}]

AInit ==
    /\ store = [c \in Cells |-> NoVal]
    /\ stable = store
    /\ snapshot = [t \in Txs |-> Nothing]
    /\ staged = [t \in Txs |-> Nothing]
    /\ outcome = [t \in Txs |-> "unused"]

\* The handles in S are gone, and what they observed and staged with them.
Ended(S, how) ==
    /\ outcome' = [t \in Txs |-> IF t \in S THEN how ELSE outcome[t]]
    /\ snapshot' = [t \in Txs |-> IF t \in S THEN Nothing ELSE snapshot[t]]
    /\ staged' = [t \in Txs |-> IF t \in S THEN Nothing ELSE staged[t]]

Begin(t) ==
    /\ outcome[t] = "unused"
    /\ outcome' = [outcome EXCEPT ![t] = "active"]
    /\ UNCHANGED <<store, stable, snapshot, staged>>

\* The first look at a cell the transaction has not staged itself fixes what
\* the transaction believes the store holds there.
Observe(t, c) ==
    /\ outcome[t] = "active"
    /\ snapshot[t][c] = Unseen
    /\ staged[t][c] = Unseen
    /\ snapshot' = [snapshot EXCEPT ![t][c] = store[c]]
    /\ UNCHANGED <<store, stable, staged, outcome>>

Stage(t, c, v) ==
    /\ outcome[t] = "active"
    /\ staged' = [staged EXCEPT ![t][c] = v]
    /\ UNCHANGED <<store, stable, snapshot, outcome>>

StillCurrent(t) ==
    \A c \in Cells : snapshot[t][c] \in {Unseen, store[c]}

\* The whole write set reaches the store in one step, or none of it does.
Commit(t) ==
    /\ outcome[t] = "active"
    /\ StillCurrent(t)
    /\ store' = [c \in Cells |->
                    IF staged[t][c] = Unseen THEN store[c] ELSE staged[t][c]]
    /\ Ended({t}, "applied")
    /\ UNCHANGED stable

\* Everything committed so far becomes stable.
MakeStable ==
    /\ stable' = store
    /\ outcome' = [t \in Txs |->
                      IF outcome[t] = "applied" THEN "persisted" ELSE outcome[t]]
    /\ UNCHANGED <<store, snapshot, staged>>

\* The caller learns of success only for a commit that is already stable.
Acknowledge(t) ==
    /\ outcome[t] = "persisted"
    /\ outcome' = [outcome EXCEPT ![t] = "committed"]
    /\ UNCHANGED <<store, stable, snapshot, staged>>

\* Refusing a commit is always safe, whether or not the snapshot is stale.
Refuse(t) ==
    /\ outcome[t] = "active"
    /\ Ended({t}, "conflicted")
    /\ UNCHANGED <<store, stable>>

\* A handle is dropped: a rollback, or a caller that does not wait for the
\* answer.  A stable commit whose caller was never told stays in the store.
Drop(t) ==
    /\ outcome[t] \in {"active", "persisted"}
    /\ Ended({t}, "aborted")
    /\ UNCHANGED <<store, stable>>

\* The process dies with every handle it had.  What was stable stays; of
\* what was not, any part may.
Crash ==
    \E kept \in SUBSET Cells :
        /\ stable' = [c \in Cells |-> IF c \in kept THEN store[c] ELSE stable[c]]
        /\ store' = stable'
        /\ Ended({t \in Txs : outcome[t] \in Running}, "aborted")

ANext ==
    \/ \E t \in Txs :
          \/ Begin(t)
          \/ \E c \in Cells : Observe(t, c) \/ \E v \in Stored : Stage(t, c, v)
          \/ Commit(t)
          \/ Acknowledge(t)
          \/ Refuse(t)
          \/ Drop(t)
    \/ MakeStable
    \/ Crash

ASpec == AInit /\ [][ANext]_avars
=============================================================================
