# TLA+ models of moor

This directory holds TLA+ specifications of the parts of moor whose correctness
depends on the order in which things happen, the TLC configurations that check
them, and `PROJECT.json`, which maps every definition to the lines of source it
models and lists the runs, the findings and the hazards.

Every module is written from the source under `src/`. Where a module needs code
that is not among the sources (the transaction layer behind the storage engine
and the facade, the `Perms` checks, the world-state methods the verb builtins
call), it follows `spec.md`, says so in its header, and the definition is marked
`spec_modelled` in `PROJECT.json`. The compiler whose programs the decompiler
reads is in neither; the programs are laid out the way `decompile.rs` reads them
(see Decompile below).

## The system

| part | source | what it holds | who acts on it |
|------|--------|---------------|----------------|
| storage engine | `crates/db/src/worldstate_db.rs` | relations with global caches, sequences, the commit channel, the keyspace | transactions (any thread), one processing thread, `stop()`, process death |
| world-state facade | `crates/db/src/db_worldstate.rs` | one transaction's view of objects, hierarchy, containment, properties, verbs | the task that owns the transaction |
| transaction server | `moor-lib/src/db/rocksdb/tx_server.rs` | a mailbox, a RocksDB transaction, one reply channel per message | the owner of the transaction, one server thread |
| telnet host | `crates/telnet-host/src/telnet.rs` | the kill switch, the listener, per connection: mode, spooled program, token | the user, the daemon (events, pings, answers), the listener |
| SQLite store | `src/db/sqllite.rs` | tables of objects, property definitions, values, verbs and verb names | one caller at a time, inside one SQLite transaction |
| builtins | `moor-lib/src/vm/bf_server.rs`, `bf_verbs.rs` | none of their own: the task's permissions, the sessions, the scheduler's mailbox, the verbs of the world | every task, one builtin at a time |
| server main | `moor-bin/src/main.rs` | the shutdown channel, the scheduler's loop, the listener | `main()`, the sessions, signals |
| decompiler | `moor-lib/src/compiler/decompile.rs` | while it runs: the position in the program, a stack of expressions, the statements so far | one caller; `decompile()` calls itself through its scans |
| older entry point | `src/main.rs` | none of its own | - |

How they interact. A task opens a transaction on the storage engine and wraps
it in the facade; every builtin goes through the facade, which checks
permissions and calls the transaction; `commit()` sends the working set to the
engine's processing thread and waits for `Success` or `ConflictRetry`. The
RocksDB store does the same with a thread per transaction, driven by messages.
A builtin that concerns the server itself (`notify`, `shutdown`, `kill_task`,
...) checks its arguments and the task's permissions and then calls the
sessions or sends a message to the scheduler; `main()` stops the scheduler when
something arrives on its shutdown channel, whose sender it gave to the server
of the sessions.
The telnet host turns a user's lines into calls of the daemon and the daemon's
events into output. The SQLite store is the earlier store behind the same
kind of calls; it shares no state with the others. The decompiler turns the
opcodes of a verb back into the statements they were compiled from; it is a
function of the program alone.

What makes them hard: transactions race each other and the committer; the
process can die between two steps of a commit; a reply can be abandoned while
the answer is on its way; an event from the daemon can arrive between any two
lines of a user; a permission check and the write it guards are written in
different places; a task changes its own permissions between two builtins, and
the scheduler's loop ends while a builtin waits for its answer; the SQLite
store leaves to a long sequence of calls what the schema does not constrain;
the decompiler finds the end of every branch, loop and handler by scanning, and
every scan shares the position, the stack and the statements with the scans
around it.

## Modules

| module | models | lines of source mapped |
|--------|--------|------------------------|
| `SerialStore` | what the storage engine promises: validated commits that take effect at once for other transactions and are acknowledged when stable | abstract |
| `WorldStateDB` | `worldstate_db.rs`: `open`, `start_transaction`, the processing loop, `stop`, process death and `open` again | 415 |
| `MCWorldStateDB` | constants, symmetry and the state constraint for TLC | - |
| `DbTxWorldState` | `db_worldstate.rs`: every call of the facade | 718 |
| `MCDbTxWorldState` | the inputs callers pass, as small sets | - |
| `TxServer` | `tx_server.rs`: `respond`, `run_tx_server` | 201 |
| `Telnet` | `telnet.rs`: `telnet_listen_loop`, `run`, `authorization_phase`, `command_loop` | 459 |
| `SQLiteTx` | `sqllite.rs`: the schema and every call of `Objects`, `PropDefs`, `Properties`, `Verbs` | 771 |
| `MCSQLiteTx` | the attributes callers pass, as a small set | - |
| `Builtins` | `bf_server.rs`: every builtin; `bf_verbs.rs`: every builtin; `moor-bin/src/main.rs`: start-up and the select loop | 456 + 230 + 88 |
| `MCBuiltins` | the objects, the verbs and the argument lists of the run | - |
| `Decompile` | `decompile.rs`: `program_to_tree`, every arm of `decompile()`, the scans | 739 |
| `MCDecompile` | the syntax trees of the run and the programs they are compiled to | - |

### WorldStateDB and SerialStore

State: the in-memory `sequences` and `monotonic` counter, the global `cache`
(version and value per key and relation), the `partition`s as written and what
is `durable` (what the last `persist(SyncAll)` made so), each transaction's
working set `ws` and what it `observed`, the `commit_channel`, the `committer`
thread's program counter, the `kill_switch`.

Actions: `StartTransaction`, `TxRead`, `TxStage`, `AllocateObjid`,
`SubmitCommit`, `Rollback`, `UsageQuery` for a transaction; for the processing
thread one action per step of its loop (`ObserveKillSwitch`, `PollUsage`,
`RecvTimeout`, `ReceiveCommit` with the check, `ApplyNext`, `ApplyFails`,
`WriteSequences`, `Persist`, `CommitterPanics`, `ReplySuccess`); `Stop`; and
`Restart`, the death of the process at any step followed by `open()`.

Locks. `ReceiveCommit` takes the locks of the relations in `LockOrder` and
checks the working set against the caches in one step: the thread is the only
one that takes more than one lock, so no step of another thread can fall
between two of them and matter. `apply` is not among the sources; following
`spec.md` (section 5, "disk writes inside apply happen under the relation's
lock; fsync happens after all relation locks are dropped") relation *i* stays
locked until its own `apply` has returned (`Locked`), and a reader of a locked
relation waits.

Replies. Each reply to a caller is `reply.send(..).unwrap()`: `Reply` sends the
result, or, with the fault `"reply"`, finds the caller gone and panics the
thread. The `Disconnected` arm of `recv_timeout` is not an action: the thread
owns an `Arc` of the database, which owns the sender, so the channel cannot
disconnect while the thread runs.

Restart. Only `persist(SyncAll)` is an fsync. When the process dies the
keyspace holds either what was last synced or everything written since
(`Survivors`), and `open()` builds the caches and reads the counter from that.
A death between two applies of one commit can therefore leave a part of the
commit on disk.

`SerialStore` has no cache, versions, locks or queue. A commit is one step that
succeeds only if everything the transaction observed is still in the store; a
later step makes the store stable, and only then is the commit acknowledged; a
crash takes the store back to what was stable, or keeps any part of what was
not. `WorldStateDB` implements it under the mapping `Promise`: the store is the
caches overlaid with what the commit in progress has staged for the relations
still locked, so that a commit takes effect for readers at the step that
validates it; `stable` is `durable`.

Fairness: `WF_vars(Committer)`. The processing thread is a thread of its own
whose only waits are a `recv_timeout` and locks that nobody else holds for
long, so a step of it that stays possible is taken.

### DbTxWorldState

State: `rel`, a record of the relations of one transaction (flags, owner, name,
parent, location, property definitions and values, verbs), and `max_object`.
Each call of the facade is an operator that gives the call's error, in the
order the code meets them, and for a call that changes the world an action
enabled when there is none; a refused call changes nothing and is no step. The
operators named after `DbTransaction` methods (`set_object_parent`,
`define_property`, `resolve_property`, ...) and the `Perms` checks are written
from `spec.md`. A value is its variant and a small payload; verb programs
are left out.

`define_property` checks Write on `location` and the owner and hands `definer`
on unlooked at; `spec.md` names no check of the definer either. No caller of it
is among the sources, so what callers pass is an assumption, and it is written
down as one: `Definers`, the objects that exist.

A transaction opens on a database that earlier ones have left, so the initial
state is any member of `InitialWorlds`. The `world` run starts from two: the
fresh database, and `Family`, the one that `create_object`, `create_object` and
`define_property` leave (object 0, its child 1, a property that 0 defines and
1 inherits). `Family` is built with the module's own operators and counts as
one call made, so that three calls remain: a value written on the child, the
child given another parent, and one more. The `wizard_flag` run starts from the
fresh database only.

There is no fairness: the facade is called by one task at a time and the
module has no liveness property.

### TxServer

State: the `mailbox`, whether the owner still holds its sending end, the state
of each reply channel, the `server` thread and the transaction `tx`. The thirty
messages that read or write the world all go through `respond(r, tx.op(..))`
and are the one kind `Op`. The owner is the environment: it sends, drops the
future that waits for a reply (`Abandon`), and hangs up.

Fairness: `WF_vars(Server)`: the thread blocks only in `mailbox.recv()`, which
returns whenever there is a message or the mailbox is closed.

### Telnet

State: the `kill_switch`, the `listener`, and for one connection the `phase`
of its task, the `auth_token`, `line_mode`, `program_input`, and the calls
`sent` to the daemon. A line is its number and one of six kinds (what
`command_loop` asks of a line); what is written to the user is left out, that a
write or a call can fail is kept (`IoFails`). Each branch of the two `select!`
loops is an action; the top of `command_loop`, where the kill switch is read, is
a step of its own, so that the switch can be set while the task waits. One
connection is modelled because connections share nothing but the kill switch.

There is no fairness and no liveness property. A connection reads the kill
switch at the top of its loop only, and gets there when a line, an event or a
ping arrives; the daemon that sends events and pings is not among the sources,
so nothing says that one arrives.

### SQLiteTx

State: `db`, a record of the five tables of `initialize_schema` (each a
function from its key to its row) and of `seq`, the largest pid handed out;
`foreign_keys`, chosen at the start, because the store never sets the pragma
and whether SQLite enforces the schema's foreign keys depends on how it was
built; `status`; and the number of `calls`.

A call that writes is an action: `CreateObject`, `DestroyObject`,
`ObjectSetAttrs`, `AddPropdef`, `RenamePropdef`, `DeletePropdef`,
`SetProperty`, `AddVerb`. A call that returns `Err` changes nothing and is no
step. A call whose `assert_eq!`, `unwrap` or `todo!` fails ends the behaviour
(`status = "panicked"`), and so does a `get_property` that never returns
(`"hung"`). The queries are operators on the tables. `get_property` is the
recursive query `parents_of`: the table of the object and its ancestors
(`parents_of`), the rows of it that hold a value whose pid has a definition
(`Holding`, the two joins), and `results.nth(0)`, the row that comes first
(`first_row`). The query has no `ORDER BY`, and neither has the one behind
`get_propdef` (`first_pid`): that the rows come as SQLite computes the
recursive table, nearest first, and a table by rowid, is an assumption about
the engine, kept in these two definitions.
`get_verbs` and `get_verb` join a table called `name`, which does not exist,
and always return `Err`.

There is no fairness: the module has no liveness property.

### Builtins

State: for `main()` its place (`main`: starting, serving, stopping, done,
panicked) and whether the scheduler's loop still receives (`listening`); for
each task the object
it started as (`programmer`), its task permissions now (`perms`), its `status`,
and the message whose answer it awaits (`waiting`); the last `result` a builtin
returned; what the tasks did to others (`told`, `booted`, `shutdown_by`); the
`verbs` of each object.

A builtin is an action that takes a task and a list of arguments and does what
the function does from its first line to its return: the check of the number of
arguments, of their variants, of the permissions, then the effect. The results
keep the distinction the code makes between `Ok(Error(e))` (a MOO error),
`Err(..)` (a `?` on a permission or world-state error, `Raised`) and a panic
(`unwrap`, `expect`, `unimplemented!`). The three builtins that await a oneshot
answer (`queued_tasks`, `kill_task`, `resume`) are two steps each, the send and
the answer, so that the scheduler's loop can end in between; the answer is then
a `RecvError`. The sessions, the scheduler and the virtual machine's stack are
the environment: a call of the sessions succeeds or (with `IoFails`) fails, the
scheduler answers any of its answers, and the values read from the clock, the
stack and the tick counter are left out.

The verb builtins are operators from the verbs and the arguments to the result
and the verbs afterwards. A string is the sequence of its tokens - a permission
letter, a blank, or a run of other characters - which is what the permission
string, `join(" ")` and `split(' ')` tell apart. `get_verb`,
`get_verb_at_index`, `set_verb_info` of the world state and
`ArgSpec::from_string` are not among the sources and follow `spec.md`;
`bf_verbs.rs` returns `Ok(v_err(e))` where `bf_server.rs` returns
`Ok(Error(e))`, and the model writes `Error(e)` for both.

`main()`. The shutdown branch of the select loop is two steps: `MainShutdown`,
the receipt of a message, and `MainStopped`, the return of
`scheduler.clone().stop().await.unwrap()`, with `Ok` (and `main()` leaves) or
with an error (and the unwrap panics); a `stop()` that does not return is the
behaviour in which `MainStopped` is never taken. The sender of the channel is
given to the server of the sessions (`main.rs` 123-126), which is not among the
sources: the model does not say that `sessions.shutdown` makes it send, and
`MainShutdown` is possible whenever `main()` serves.

Assumptions, each where the code under `src/` ends: `bf_args.perms()` and the
permissions `set_task_perms` writes are the same task permissions; widths of
64 bits are scaled to `Bits`.

There is no fairness and no liveness property: whether anything is sent on the
shutdown channel, and whether `stop()` returns, is decided outside the sources.

### Decompile

State: the `program`, the `source` it was compiled from and whether the
program is still `intact` (all fixed at the start), and the fields of the `Decompile` struct: `position`, `expr_stack`,
`statements`; `answer` is what `program_to_tree` returned. An opcode, an
expression and a statement are tuples with the name of the variant first
(`<<"While", id, condition, body>>`); values, variable and builtin names are
members of small sets.

`decompile()` is the operator `decompile(s)` on a record `s` of the three
fields, the `result` so far and the statements the last scan `taken`. It is
recursive as the code is: an arm calls a scan (`decompile_statements_until`,
`_up_to`, `_until_match`, `decompile_until_branch_end`), and a scan calls
`decompile()` until the position or the opcode it waits for. Every `?` is a
`Try`: the first error ends everything after it. `unimplemented!`,
`unreachable!` and `unwrap()` on a label without a name are the result
`panic`. The two actions are those of `program_to_tree`: `Step`, one turn of
its loop (one whole call of `decompile()`, nested scans included), and
`Return`.

The programs. `compile` in `MCDecompile` is no model of code: it writes down,
construct by construct, the layout that `decompile.rs` expects and its comments
describe (a while is "a conditional expression, this While opcode, a series of
statements, a jump back"; an except arm is "Put, Pop, Statements, Jump"; the
codes of the arms are pushed in reverse; an indexed assignment ends with
`PushTemp`), with one label for every jump. The property that the decompiler
inverts it therefore says that the scans of every arm agree with each other
when they are nested, not that the compiler of the repository emits these
layouts.

The fault model. `program_to_tree` takes any `Program`, and its errors
(`UnexpectedProgramEnd`, `LabelNotFound`) are for programs that are not what a
compiler made. The run gives it every program of a smaller family cut after
each of its opcodes and with each of its labels removed (`Damaged`). Such a
program is not always refused: cut between two statements, or in the middle of
an expression, it is answered with the statements before the cut, because
`program_to_tree` does not look at `expr_stack` or for `Done` when the loop
ends. What is checked is that it never panics and never returns a statement
that is not one of the source.

There is no fairness: `program_to_tree` is one sequential loop and the module
has no liveness property.

## Runs

| run | module, cfg | result | what it shows |
|-----|-------------|--------|---------------|
| refinement | `MCWorldStateDB`, `WorldStateDB_refinement.cfg` | pass | the engine implements `SerialStore`, with readers kept from a relation until its apply has returned; a working set is applied only if all it read is current; across two process deaths timestamps are not reused, and between two commits the caches hold what is stable |
| liveness | `MCWorldStateDB`, `WorldStateDB_liveness.cfg` | pass | every `commit()` is answered unless the thread is stopped or dead, with every fault (`apply`, `sequences`, `persist`, `reply`) possible |
| max_object | `MCWorldStateDB`, `WorldStateDB_max_object.cfg` | violation | `open()` reads back only the transaction counter: the object-id allocator restarts at -1 |
| partial_apply | `MCWorldStateDB`, `WorldStateDB_partial_apply.cfg` | violation | a failed `apply` leaves the relations applied before it visible |
| world | `MCDbTxWorldState`, `DbTxWorldState_world.cfg` | pass | parent/children and location/contents stay two-sided, no ancestry cycle, no value without a definition (of callers that define properties on objects), after `change_parent` of an object that holds a value included; what `update_property` writes to the name, the owner, a flag or a defined property, `retrieve_property` answers, and no object outside the one written and its descendants sees a change |
| wizard_flag | `MCDbTxWorldState`, `DbTxWorldState_wizard_flag.cfg` | violation | `obj.wizard = 0` leaves the flag set |
| tx_server | `TxServer`, `TxServer_protocol.cfg` | pass | with five requests in the mailbox, the owner is told only what happened; nothing is served after the end; a hang-up ends the transaction |
| telnet_session | `Telnet`, `Telnet_session.cfg` | pass | a prompt is answered once; a session that reached the command loop ends with Detach, on the kill switch as on a failure |
| telnet_program | `Telnet`, `Telnet_program.cfg` | violation | a prompt during `.program` leaves the spooled lines to the next program |
| sqlite_store | `MCSQLiteTx`, `SQLiteTx_store.cfg` | pass | the nearest value on the chain of parents is the one answered, the rows taken in the order SQLite computes them; a write is read back; a value whose definition was deleted is never answered for a later definition |
| builtins | `MCBuiltins`, `Builtins_server.cfg` | pass | a task that did not start as a wizard never changes its permissions, shuts down, notifies or boots for another; showing a verb and setting what was shown leaves it unchanged, by name and by number |
| decompile | `MCDecompile`, `Decompile_programs.cfg` | pass | on every program of the run `program_to_tree` returns the statements the program was compiled from, without an error or a panic on the way, and never adds a statement while an expression is left on the stack; on a program cut short or with a label missing it does not panic, and what it returns without an error are the first statements of the source |

To repeat a run: `tlc -workers 2 -config <cfg> <module>` in this directory.

Every property of a passing run has a mutant in `PROJECT.json`: a faulty variant
of a definition, defined just before it in the module (`Persist_Skipped`,
`ReplyLine_KeepsWaiting`, ...), under which TLC finds the property violated.

### Findings

1. `worldstate_db.rs:92` - `open()` restores sequence 15 only. After a restart
   `max_object()` is -1 and `create_object` hands out ids that exist.
2. `worldstate_db.rs:368` - when `apply` fails for a later relation, the earlier
   ones stay applied although the caller is told `ConflictRetry`.
3. `db_worldstate.rs:387` - `update_property` of `wizard` and `programmer` only
   ever sets the flag; the regression suite expects `0` to clear it.
4. `telnet.rs:348` - `RequestInput` during `SpoolingProgram` changes the mode
   and leaves `program_input`; the next `.program` sends the old lines too.

## Bounds

| constant | value | why it is enough |
|----------|-------|------------------|
| `Txs` | 2 | a conflict needs two transactions; a third adds no new kind of race with one committer |
| `LockOrder` | 2 relations (1 for liveness) | a commit is applied in more than one step, so a failure between two applies exists |
| `Keys`, `Vals` | 1 each | a read-write conflict needs one entry; `NoVal` is the second value |
| `MaxOpens` | 2 (1 for liveness) | one process death loses or keeps what was not synced; the second shows the counter is restored each time |
| `IoFaults` | none (refinement, max_object); `apply` (partial_apply); `apply`, `sequences`, `persist`, `reply` (liveness) | each names a call of the processing thread that may fail. The refinement run has the process die at any step instead, which leaves what a failed call leaves and more; the liveness run has every call fail, a reply that finds its caller gone included |
| `MaxTouched` | 2 | a transaction reads and writes, in one or two relations |
| `MaxObjects` | 3 (world), 2 (the two violation runs) | grandparent, parent and child: the shortest chain on which a cycle or an inherited value can go wrong |
| `MaxCalls` | 4 | from the fresh database: create, create, define, then the call under test; from `Family`, which counts as one: a write on the child, `change_parent`, and a call after it |
| `InitialWorlds` | the fresh database and `Family` (world); the fresh database (wizard_flag) | a value on a child that is then reparented needs five calls from nothing; `Family` is the state after the first three |
| `ObjFlagChoices`, `Values` (world) | plain or wizard; the integers 0 and 1 | the flags the permission checks of the facade tell apart, and the two integers a read of `r`, `w` and `f` answers; `PropertyReadsBack` writes the name and the owner with a value of every variant (`Written`: the integer 2, an object, a string), so that each is written once with the variant it takes and refused with the others |
| `MaxRequests` | 5 | requests before the commit, the commit, and two behind it: one that is answered after the end would be, and one that is abandoned or cut off by the hang-up |
| `MaxLines` | 6 | login, `.program`, a line of code, the answer to a prompt, `.program`, `.` |
| `MaxInputRequests` | 2 (1 for telnet_program) | a prompt, and a second one before the first is answered |
| `MaxOid`, `MaxPid`, `MaxVid` | 3, 2, 1 | parent, child and grandchild as in the test `property_inheritance`; a pid deleted and a pid after it |
| `MaxCalls` (SQLiteTx) | 4 | three objects and a value; two objects, a cycle and a query; a definition added, deleted and added again |
| `PropNames`, `Values`, `Owners` | 2, 2, 1 | a rename needs two names, a replaced value two values; the owner of a value is only stored |
| `FewAttrs` | 5 | no attribute, one of three parents, or a location |
| `NumTasks` | 2 | a wizard's task and a player's task; a task that kills or resumes the other, and one that names itself |
| `MaxCalls` (Builtins) | 3 | `set_task_perms`, then a builtin under the new permissions, then one more |
| `Bits` | 4 | `as u64` and `as TaskId` wrap at 2^`Bits`: -1 becomes 15, which is no task, as 2^64 - 1 is none |
| `Objs`, `FlagsOf` | #0 a wizard, #1 a player, #2 not valid | every outcome of the permission checks and of `flags_of` |
| `InitialVerbs` | two verbs on #0 that share the name `l` | a name that finds the first of two verbs, a number that finds the second |
| `ArgChoices` | 21 lists | no argument; one of each variant; the pairs and triples the verb builtins take, well-formed and not; negative, own and foreign task ids |
| `MCExprs` | 32 kinds of expression over a literal and a variable, and each of them over the four that scan (`&&`, `\|\|`, `? \|`, catch) | every opcode that pushes an expression, and every scan for an operand inside another scan |
| `Bodies0` .. `Bodies3` | a statement with a body (if with one or two arms and an else, while with and without a name, for over a list and a range, try with one or two handlers, try-finally) around `return`, an expression, `break`, `continue` or nothing; each of these inside each body of every such statement; and these inside the last handler of a try and inside a while | a scan for the end of a body meets the labels and the closing opcodes of the statement inside it, and of the one inside that; the rewind after a try happens at the end of a body, of a handler and of a loop |
| `MCDamaged` | the programs of `Bodies0`, `Bodies1` and of the 32 expressions, cut after every opcode but the last and with every label removed in turn | every scan of every statement and expression runs into the end of the program, and every `find_jump` misses its label, one at a time |
| `Uses`, `MoreUses` | every expression as a statement and as the condition of an if; the simpler ones returned and as the condition of a while | an expression left on the stack shows in the statement that follows |

`CHECK_DEADLOCK FALSE` is set where the system really stops: handles are used
once and the database can be stopped; a transaction server returns; a
connection ends and the listener stops; a caller of the SQLite store panics,
hangs or stops calling; `main()` returns and tasks complete or panic;
`program_to_tree` returns.

## Not modelled

- In the decompiler: line numbers (`line_num_for_position`) and the table of
  variable names. Not among the programs of the run: `fork` (the decompiler
  stops at `unimplemented!`), a scatter assignment with a default (the code
  pops an assignment for it that no comment or test lays out), an assignment
  to an index of anything but a variable, and a `break` or `continue` that
  names a `for` loop.
- In the builtins: the texts, times, tick counts and stack frames they return;
  the rendering of task descriptions in `queued_tasks`; in `main()` argument
  parsing, tracing, metrics and the web routes.
- The entry point of the older server, crate roots, the value model's
  declarations (the error and result names of `model/mod.rs` are the names the
  modules use), the test driver.
- What the sources call and do not contain: the implementation of
  `DbTransaction` behind the facade (its operators follow `spec.md`), the
  scheduler and the sessions behind the builtins, the daemon behind the telnet
  host, and the callers of `commit()`. The facade is therefore not composed
  with the engine: a module that did so would be written from `spec.md` on
  both sides of the seam.
- `WorldStateError::to_error_code`, which nothing in the sources calls.
- Inside the modelled parts: byte encodings, cache eviction, verb programs and
  name wildcards, the text written to users; in the SQLite store names, flags,
  argument specs and programs, `object_set_attrs` without any attribute, and
  `verb_attrs_from_result` and `doit`, which run only behind a query that
  cannot be prepared.

## Open points

- The comment on `set_flags_of` (`db_worldstate.rs:73`) says "Owner or wizard
  only"; the check is `check_object_allows(.., Write)`, which admits every
  caller when the object's Write flag is set, and the flags written are not
  restricted. The action `SetFlagsOf` has the check of the code.
- The decompiler answers a program that was cut in the middle of an expression
  with `Ok` and the statements before it; the expression is dropped without a
  word. A program with an opcode removed, so that the positions of its labels
  are off by one, reaches `unreachable!` (a `Jump` met by `decompile()`
  itself). No program of the run reaches `MalformedProgram` or `NameNotFound`.
- The decompiler panics on a program with `fork` and on an `ExitId` whose label
  has no name, and it cannot tell an except arm that ends in a jump to the end
  from a last arm that runs into it: the position is set back by one in both
  cases (`decompile.rs:629`, "we're being too greedy above"). With the layouts
  of the run the last arm never ends in that jump, and the property holds.

- The SQLite store has states that no property forbids because nothing says
  what should hold: an object id is handed out again after the highest object
  is destroyed, and the values left at that id belong to the new object;
  `rename_propdef` renames the definitions of every object; two definitions of
  one name make `delete_propdef` panic; a cycle of parents makes `get_property`
  hang. They are listed as hazards; `TODO` comments in the source say the
  asserts stand for error handling still to be written.

- `spec.md` says of the location graph that it has no cycle; `set_location`
  checks nothing and `move_object` checks Write on the object only, so the
  facade lets an object be moved into what it contains. The module has the
  calls as the code has them and states no property of the location graph
  beyond its two-sidedness; whether the check belongs to the caller (the
  builtin `move`, not among the sources) is not said.
- `WritesStayBelow` is stated for a property that is shown only at its definer
  and below (`DefinedInPlace`). `define_property` takes a definer and a
  location that may differ, and what a write then means for the objects between
  them depends on the transaction layer.
- `define_property` records the definition on `definer` and checks `location`
  only. With any id as definer (`Definers == Objs`) TLC finds a value without a
  definition after three calls: `create_object`, `define_property` with a value
  at the id the next object will get, `create_object`, which gives the new
  object what its parent shows. `NoDanglingValues` is therefore checked of
  callers that pass an object. `clear_property` on the definer removes the
  default value; what should hold then depends on the transaction layer, which
  is not among the sources.
- `r`, `w` and `f` are set by the integer 1 and cleared by every other integer,
  so `obj.r = 2` reads back 0. `PropertyReadsBack` is stated for the values a
  read can answer, 0 and 1.
- `spec.md` says that a transaction "commits atomically" and that a restart
  after `Success` returns the committed values. The second holds (a commit is
  answered after `persist(SyncAll)`); of the first the model shows the limit:
  a process that dies between two applies of one commit, or before the sync,
  can leave a part of the commit in the keyspace, and `open()` reads it as it
  is. `SerialStore` admits this in `Crash`; nothing in `worldstate_db.rs`
  writes a commit marker that `open()` could check.
- The order of rows that `get_property` and `get_propdef` of the SQLite store
  rely on is stated by neither query. `NearestValueWins` holds with the rows in
  the order SQLite computes a recursive table; with another order, or another
  plan for the joins, `results.nth(0)` is the value of any ancestor that holds
  one.
- The kill switch stops a connection, and `shutdown()` the server, only if
  something else happens too: a line, an event or a ping arrives; something is
  sent on the shutdown channel and `scheduler.stop()` returns `Ok`. The code
  that would make these happen is not among the sources, the modules assume no
  fairness for them, and no liveness is claimed of either.
- `bf_resume` refuses fewer than two arguments although its comment calls the
  second optional, and `bf_suspend` casts a negative number of seconds to a very
  large one; both are modelled as the code has them.
- `WorldStateError::to_error_code` (`model/mod.rs`) panics on the variants it
  does not list, `DatabaseError` among them, where `spec.md` calls a database
  error fatal to the transaction only; its caller is not among the sources.
- Several states the telnet host can reach are listed as hazards without a
  property because the code promises nothing about them: a session that fails
  during login never sends Detach; a second prompt overwrites the first.
- A transaction server whose owner abandons the reply to `Commit` commits all
  the same; the owner cannot tell.
