------------------------------ MODULE TxServer ------------------------------
(***************************************************************************)
(* The transaction server of moor-lib/src/db/rocksdb/tx_server.rs: one     *)
(* thread per transaction that owns the RocksDB transaction, takes         *)
(* messages from a mailbox and answers each on the one-shot channel that   *)
(* came with it, until the transaction is committed or rolled back, the    *)
(* mailbox is closed, or a step fails.                                     *)
(*                                                                         *)
(* The thirty-odd messages that read or write the world all take the same  *)
(* path (respond(r, tx.operation(..))) and are the one kind "Op"; what     *)
(* they read and write is the subject of DbTxWorldState.  The owner of the *)
(* transaction is the environment: it sends, abandons a reply it no longer *)
(* waits for, and hangs up.                                                *)
(***************************************************************************)
EXTENDS Integers, Sequences, FiniteSets, TLC

CONSTANTS
    MaxRequests,  \* bound: the number of messages the owner sends
    IoFails       \* whether steps of the RocksDB transaction may fail

ASSUME MaxRequests \in Nat /\ IoFails \in BOOLEAN

Ids == 1 .. MaxRequests
Kinds == {"Op", "Valid", "Commit", "Rollback"}

\* What tx.operation(..) answers: a value, an error of the world, or
\* any other error.
Outcomes == {"Ok", "WorldStateError"} \cup (IF IoFails THEN {"StorageError"} ELSE {})
Fallible == {"Ok"} \cup (IF IoFails THEN {"StorageError"} ELSE {})

\* A one-shot reply channel: not yet created, waited on, abandoned by the
\* receiver, closed by the sender without an answer, or answered.
Answers == {"Ok", "WorldStateError", "Success", "ConflictRetry", "RolledBack"}
Replies == {"unsent", "waiting", "abandoned", "lost"} \cup Answers

VARIABLES
    mailbox,      \* the messages sent and not yet received, oldest first
    senderAlive,  \* the owner still holds the sending end of the mailbox
    kind,         \* what each request asked for
    reply,        \* the state of the reply channel of each request
    server,       \* "running", or how run_tx_server returned: "ok", "err"
    tx            \* the RocksDB transaction

vars == <<mailbox, senderAlive, kind, reply, server, tx>>

Init ==
    /\ mailbox = <<>>
    /\ senderAlive = TRUE
    /\ kind = [i \in Ids |-> "Op"]
    /\ reply = [i \in Ids |-> "unsent"]
    /\ server = "running"
    /\ tx = "open"

(***************************************************************************)
(* The owner of the transaction.                                           *)
(***************************************************************************)
\* A message and its reply channel.  Sending to a server that has returned
\* fails and leaves nothing behind.
Send(k) ==
    /\ senderAlive /\ server = "running"
    /\ \E i \in Ids :
          /\ reply[i] = "unsent"
          /\ \A j \in Ids : j < i => reply[j] # "unsent"
          /\ mailbox' = Append(mailbox, i)
          /\ kind' = [kind EXCEPT ![i] = k]
          /\ reply' = [reply EXCEPT ![i] = "waiting"]
    /\ UNCHANGED <<senderAlive, server, tx>>

\* The future that waits for a reply is dropped.
Abandon(i) ==
    /\ reply[i] = "waiting"
    /\ reply' = [reply EXCEPT ![i] = "abandoned"]
    /\ UNCHANGED <<mailbox, senderAlive, kind, server, tx>>

\* The sending end of the mailbox is dropped.
Hangup ==
    /\ senderAlive
    /\ senderAlive' = FALSE
    /\ UNCHANGED <<mailbox, kind, reply, server, tx>>

(***************************************************************************)
(* run_tx_server                                                           *)
(***************************************************************************)
\* The function returns: the mailbox and the reply channels of the messages
\* still in it are dropped with it.  `answered` are the replies sent before.
Return(how, answered) ==
    /\ server' = how
    /\ mailbox' = <<>>
    /\ reply' = [i \in Ids |->
                    IF i \in DOMAIN answered THEN answered[i]
                    ELSE IF reply[i] = "waiting" THEN "lost" ELSE reply[i]]

\* The loop goes on with the next message.
Continue(answered) ==
    /\ mailbox' = Tail(mailbox)
    /\ reply' = [i \in Ids |-> IF i \in DOMAIN answered THEN answered[i] ELSE reply[i]]
    /\ UNCHANGED server

\* Faulty variant of respond: an error that is not a WorldStateError is sent
\* to the owner like one, and the loop goes on.
respond_ForwardsAnyError(i, res) ==
    IF reply[i] = "waiting" THEN Continue(i :> res)
    ELSE Return("err", <<>>)

\* respond: a value or a WorldStateError is sent, and the loop goes on; if
\* nobody waits for it, or the error is another one, the function returns it.
respond(i, res) ==
    IF res # "StorageError" /\ reply[i] = "waiting" THEN Continue(i :> res)
    ELSE Return("err", <<>>)

\* mailbox.recv() on a mailbox that is empty and closed: "The other end of
\* the channel has been dropped, so we should just rollback."
RecvClosed ==
    /\ server = "running" /\ mailbox = <<>> /\ ~senderAlive
    /\ \E io \in Fallible :
          /\ tx' = IF io = "Ok" THEN "rolledback" ELSE "dropped"
          /\ Return(IF io = "Ok" THEN "ok" ELSE "err", <<>>)
    /\ UNCHANGED <<senderAlive, kind>>

Received(k) == server = "running" /\ mailbox # <<>> /\ kind[Head(mailbox)] = k

\* When the function returns with the transaction open, dropping it rolls
\* it back.
TxAfter == IF server' = "running" THEN tx ELSE "dropped"

\* Every message that reads or writes the world.
HandleOp ==
    /\ Received("Op")
    /\ \E res \in Outcomes : respond(Head(mailbox), res)
    /\ tx' = TxAfter
    /\ UNCHANGED <<senderAlive, kind>>

\* Message::Valid: a failure of the lookup is returned before anything is
\* sent.
HandleValid ==
    /\ Received("Valid")
    /\ \E res \in Fallible : respond(Head(mailbox), res)
    /\ tx' = TxAfter
    /\ UNCHANGED <<senderAlive, kind>>

\* Faulty variant of Commit: the owner is told Success whatever tx.commit()
\* answered.
Commit_ReportsSuccess(i, commit_r) ==
    /\ tx' = (IF commit_r = "Success" THEN "committed" ELSE "conflict")
    /\ IF reply[i] = "waiting" THEN Return("ok", i :> "Success")
       ELSE Return("err", <<>>)

\* tx.commit() has answered: the loop is left and the answer sent.
Commit(i, commit_r) ==
    /\ tx' = (IF commit_r = "Success" THEN "committed" ELSE "conflict")
    /\ IF reply[i] = "waiting" THEN Return("ok", i :> commit_r)
       ELSE Return("err", <<>>)

HandleCommit ==
    /\ Received("Commit")
    /\ \/ \E commit_r \in {"Success", "ConflictRetry"} : Commit(Head(mailbox), commit_r)
       \/ IoFails /\ tx' = "dropped" /\ Return("err", <<>>)
    /\ UNCHANGED <<senderAlive, kind>>

\* Faulty variant of Rollback: the loop goes on after the answer.
Rollback_KeepsServing(i) ==
    /\ tx' = "rolledback"
    /\ respond(i, "RolledBack")

\* tx.rollback() has succeeded: the answer is sent and the function returns.
Rollback(i) ==
    /\ tx' = "rolledback"
    /\ IF reply[i] = "waiting" THEN Return("ok", i :> "RolledBack")
       ELSE Return("err", <<>>)

HandleRollback ==
    /\ Received("Rollback")
    /\ \/ Rollback(Head(mailbox))
       \/ IoFails /\ tx' = "dropped" /\ Return("err", <<>>)
    /\ UNCHANGED <<senderAlive, kind>>

\* Faulty variant of Server: a closed mailbox is not noticed.
Server_IgnoresHangup == HandleOp \/ HandleValid \/ HandleCommit \/ HandleRollback

Server == RecvClosed \/ HandleOp \/ HandleValid \/ HandleCommit \/ HandleRollback

Next ==
    \/ \E k \in Kinds : Send(k)
    \/ \E i \in Ids : Abandon(i)
    \/ Hangup
    \/ Server

\* The server is a thread of its own that blocks only in mailbox.recv().
Spec == Init /\ [][Next]_vars /\ WF_vars(Server)

(***************************************************************************)
(* Properties                                                              *)
(***************************************************************************)

\* The variables keep their types; in particular the owner is only ever sent
\* a value or a WorldStateError (respond returns every other error to the
\* caller of run_tx_server instead).
TypeOK ==
    /\ mailbox \in Seq(Ids)
    /\ senderAlive \in BOOLEAN
    /\ kind \in [Ids -> Kinds]
    /\ reply \in [Ids -> Replies]
    /\ server \in {"running", "ok", "err"}
    /\ tx \in {"open", "committed", "conflict", "rolledback", "dropped"}

\* What the owner is told is what happened to the transaction: Success only
\* if tx.commit() succeeded, ConflictRetry only if it met a conflict, and the
\* answer to a rollback only if the transaction was rolled back; and the
\* transaction ends at most once, so at most one request is so answered.
OwnerViewAgrees ==
    /\ \A i \in Ids :
          /\ reply[i] = "Success" => tx = "committed"
          /\ reply[i] = "ConflictRetry" => tx = "conflict"
          /\ reply[i] = "RolledBack" => tx = "rolledback"
    /\ Cardinality({i \in Ids : reply[i] \in {"Success", "ConflictRetry", "RolledBack"}}) <= 1
    /\ server = "running" => tx = "open"

\* A message is answered only by a transaction that is open: after the
\* commit or the rollback the loop is left, and what was sent behind them is
\* never handled (run_tx_server breaks on Commit and returns on Rollback).
ServesOnlyOpenTransaction ==
    [][\A i \in Ids : reply[i] = "waiting" /\ reply'[i] \in Answers => tx = "open"]_vars

\* Once the owner has hung up, the server returns, and the transaction is
\* not left open; no request is waited on for ever (the RecvError branch of
\* the loop).
HangupEndsTransaction ==
    ~senderAlive ~> (server # "running" /\ tx # "open"
                        /\ \A i \in Ids : reply[i] # "waiting")

=============================================================================
