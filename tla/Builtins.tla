------------------------------ MODULE Builtins ------------------------------
(***************************************************************************)
(* The builtin functions of moor-lib/src/vm/bf_server.rs and bf_verbs.rs,  *)
(* called by the tasks of a running server, and the loop of                *)
(* moor-bin/src/main.rs that ends the server.                              *)
(*                                                                         *)
(* A task calls one builtin at a time with a list of arguments.  A builtin *)
(* checks the number of its arguments, then their types, then what its     *)
(* task may do, and only then acts: on the sessions, on the task's own     *)
(* permissions, on the verbs of the world, or by a message to the          *)
(* scheduler whose answer it awaits.  The sessions, the scheduler and the  *)
(* virtual machine are the environment: a call of the sessions may fail,   *)
(* the scheduler answers what it likes, and its loop may end.              *)
(*                                                                         *)
(* A string is the sequence of its tokens: a permission letter, a blank,   *)
(* or a run of other characters.                                           *)
(***************************************************************************)
EXTENDS Integers, Sequences, FiniteSets, SequencesExt

CONSTANTS
    NumTasks,      \* the tasks that run
    Objs,          \* the object numbers builtins are called with
    FlagsOf,       \* the flags of the objects that exist
    InitialVerbs,  \* the verbs of the objects when the tasks start
    ArgChoices,    \* the argument lists builtins are called with
    IoFails,       \* whether opening the database or a call of the sessions may fail
    MaxCalls,      \* bound: the builtin calls of all tasks together
    Bits,          \* bound: the width of u64 and of TaskId, 64 in the code
    None           \* no message, no object

Tasks == 1 .. NumTasks
Valid == DOMAIN FlagsOf

ASSUME /\ NumTasks \in Nat /\ MaxCalls \in Nat /\ IoFails \in BOOLEAN
       /\ Bits \in Nat /\ NumTasks < 2^Bits
       /\ Valid \subseteq Objs /\ DOMAIN InitialVerbs = Valid

\* Var
v_none == [t |-> "None", v |-> 0]
v_int(i) == [t |-> "Int", v |-> i]
v_objid(o) == [t |-> "Obj", v |-> o]
v_string(s) == [t |-> "Str", v |-> s]
v_list(l) == [t |-> "List", v |-> l]
v_err(e) == [t |-> "Err", v |-> e]
v_bool(b) == v_int(IF b THEN 1 ELSE 0)

\* BfRet, and the Err of the Result a builtin returns
Ret(v) == <<"Ret", v>>
Error(e) == <<"Error", e>>
VmInstr(i) == <<"VmInstr", i>>
Complete == <<"Complete">>
Suspend(seconds) == <<"Suspend", seconds>>
Raised(e) == <<"Err", e>>

Ok == "Ok"
FirstError(checks) ==
    LET i == SelectInSeq(checks, LAMBDA e : e # Ok)
    IN  IF i = 0 THEN Ok ELSE checks[i]

\* What a builtin sees of its arguments: their number, and the variant of each.
Arity(args, lens) == IF Len(args) \in lens THEN Ok ELSE "E_INVARG"
Arg(args, i) == IF i \in DOMAIN args THEN args[i] ELSE v_none
IsA(args, i, type) == IF Arg(args, i).t = type THEN Ok ELSE "E_TYPE"

VARIABLES
    main,                \* main(): "starting", "serving", "stopping", "done" or "panicked"
    listening,           \* whether the scheduler's loop still receives its mailbox
    programmer,          \* the object each task started with the permissions of
    perms,               \* the task permissions of each task: object and flags
    status,              \* "running", "complete" or "panicked"
    result,              \* what the last builtin that returned, returned
    waiting,             \* the message each task awaits the scheduler's answer to
    told,                \* the texts given to the sessions: task and player
    booted,              \* the BootPlayer messages sent to the scheduler
    shutdown_by,         \* the tasks shutdown() returned to
    verbs,               \* the verbs of each object, in the order of their creation
    calls

server == <<main, listening>>
task == <<status, result, waiting>>
vars == <<main, listening, programmer, perms, status, result,
          waiting, told, booted, shutdown_by, verbs, calls>>

PermsOf(o) == [obj |-> o, flags |-> FlagsOf[o]]

Init ==
    /\ main = "starting"
    /\ listening = FALSE
    /\ programmer \in [Tasks -> Valid]
    /\ perms = [t \in Tasks |-> PermsOf(programmer[t])]
    /\ status = [t \in Tasks |-> "running"]
    /\ result = Ret(v_none)
    /\ waiting = [t \in Tasks |-> None]
    /\ told = {} /\ booted = {} /\ shutdown_by = {}
    /\ verbs = InitialVerbs
    /\ calls = 0

(***************************************************************************)
(* main(): the start of the server and the loop that ends it.              *)
(***************************************************************************)
\* The database is opened, a textdump loaded and committed, the scheduler's
\* loop and the listener spawned; each of the first three may panic.
Start ==
    /\ main = "starting"
    /\ \/ main' = "serving" /\ listening' = TRUE
       \/ IoFails /\ main' = "panicked" /\ UNCHANGED listening
    /\ UNCHANGED <<programmer, perms, task, told, booted,
                   shutdown_by, verbs, calls>>

\* The scheduler's loop returns.
SchedulerLoopExits ==
    /\ main = "serving" /\ listening
    /\ listening' = FALSE
    /\ UNCHANGED <<main, programmer, perms, task, told, booted,
                   shutdown_by, verbs, calls>>

Leave ==
    /\ main' = "done"
    /\ UNCHANGED <<programmer, perms, task, told, booted,
                   shutdown_by, verbs, calls>>

\* select!: a shutdown was received, and main() awaits the scheduler's stop.
\* The sender of the channel is held by the WebSocketServer, which is not
\* among the sources: when it sends is its own affair.
MainShutdown ==
    /\ main = "serving"
    /\ main' = "stopping"
    /\ UNCHANGED <<listening, programmer, perms, task, told, booted, shutdown_by,
                   verbs, calls>>

\* stop() returns, if it does: Ok, and main() leaves the loop, or an error,
\* and the unwrap panics.
MainStopped ==
    /\ main = "stopping"
    /\ \/ Leave
       \/ IoFails /\ main' = "panicked"
             /\ UNCHANGED <<programmer, perms, task, told, booted, shutdown_by,
                            verbs, calls>>
    /\ UNCHANGED listening

\* select!: the scheduler's loop has exited
MainSchedulerExited ==
    /\ main = "serving" /\ ~listening
    /\ UNCHANGED listening
    /\ Leave

\* select!: HUP or interrupt; the scheduler is not stopped
MainSignal ==
    /\ main = "serving"
    /\ UNCHANGED listening
    /\ Leave

(***************************************************************************)
(* How a builtin ends.                                                     *)
(***************************************************************************)
\* A builtin is called while main() serves.  The tasks go on while main()
\* awaits stop(); their calls then reach no state that is not reached here.
Call(t) ==
    /\ main = "serving" /\ status[t] = "running" /\ waiting[t] = None
    /\ calls < MaxCalls
    /\ calls' = calls + 1

Answer(t, r) ==
    /\ result' = r
    /\ status' = [status EXCEPT ![t] = IF r = VmInstr(Complete) THEN "complete" ELSE @]

Panic(t) ==
    /\ status' = [status EXCEPT ![t] = "panicked"]
    /\ UNCHANGED result

\* What a builtin that only reads returns, and what it leaves alone.
Checked(checks, value) ==
    IF FirstError(checks) = Ok THEN Ret(value) ELSE Error(FirstError(checks))

Untouched == UNCHANGED <<server, programmer, perms, waiting, told, booted, shutdown_by, verbs>>

\* scheduler_sender.send(..).expect("scheduler is not listening"), and the
\* wait for the answer when the message carries a oneshot sender.
Ask(t, msg) ==
    IF listening THEN waiting' = [waiting EXCEPT ![t] = msg] /\ UNCHANGED <<status, result>>
    ELSE Panic(t) /\ UNCHANGED waiting

(***************************************************************************)
(* Permissions (struct Perms).                                             *)
(***************************************************************************)
check_wizard(p) == IF "Wizard" \in p.flags THEN Ok ELSE "PermissionDenied"

check_obj_owner_perms(p, o) ==
    IF "Wizard" \in p.flags \/ p.obj = o THEN Ok ELSE "PermissionDenied"

\* world_state.flags_of fails for an object that does not exist.
flags_of_error(o) == IF o \in Valid THEN Ok ELSE "ObjectNotFound"

(***************************************************************************)
(* bf_server.rs                                                            *)
(***************************************************************************)
\* A builtin nobody wrote yet.
bf_noop(t) ==
    /\ Call(t)
    /\ Panic(t)
    /\ Untouched

\* The text is given to the sessions; that they cannot send it is only logged.
bf_notify(t, args) ==
    LET err == FirstError(<<Arity(args, {2}), IsA(args, 1, "Obj"), IsA(args, 2, "Str")>>)
        allowed == check_obj_owner_perms(perms[t], args[1].v)
    IN  /\ Call(t)
        /\ IF err # Ok THEN Answer(t, Error(err)) /\ UNCHANGED told
           ELSE IF allowed # Ok THEN Answer(t, Raised(allowed)) /\ UNCHANGED told
           ELSE /\ told' = told \cup {[task |-> t, player |-> args[1].v]}
                /\ Answer(t, Ret(v_int(1)))
        /\ UNCHANGED <<server, programmer, perms, waiting, booted, shutdown_by, verbs>>

bf_connected_players(t, args) ==
    /\ Call(t)
    /\ IF args # <<>> THEN Answer(t, Error("E_INVARG"))
       ELSE \/ \E players \in SUBSET Valid : Answer(t, Ret(v_list(SetToSeq(players))))
            \/ IoFails /\ Panic(t)
    /\ UNCHANGED <<server, programmer, perms, waiting, told, booted, shutdown_by, verbs>>

\* An object that is not found is an invalid argument; any other failure of
\* flags_of is the failure of the builtin.
bf_is_player(t, args) ==
    LET err == FirstError(<<Arity(args, {1}), IsA(args, 1, "Obj")>>)
        player == args[1].v
        found == IF err = Ok /\ flags_of_error(player) # Ok THEN "E_INVARG" ELSE Ok
    IN  /\ Call(t)
        /\ \/ Answer(t, Checked(<<err, found>>, v_bool("User" \in FlagsOf[player])))
           \/ IoFails /\ err = Ok /\ Answer(t, Raised("DatabaseError"))
        /\ Untouched


\* Only a wizard's task takes the permissions of another object, and it takes
\* them with the flags the object has now.
set_task_perms_refused_Unchecked(p, o) == flags_of_error(o)

set_task_perms_refused(p, o) == FirstError(<<check_wizard(p), flags_of_error(o)>>)

bf_set_task_perms(t, args) ==
    LET err == FirstError(<<Arity(args, {1}), IsA(args, 1, "Obj")>>)
        refused == set_task_perms_refused(perms[t], args[1].v)
    IN  /\ Call(t)
        /\ IF err # Ok THEN Answer(t, Error(err)) /\ UNCHANGED perms
           ELSE IF refused # Ok THEN Answer(t, Raised(refused)) /\ UNCHANGED perms
           ELSE /\ perms' = [perms EXCEPT ![t] = PermsOf(args[1].v)]
                /\ Answer(t, Ret(v_none))
        /\ UNCHANGED <<server, programmer, waiting, told, booted, shutdown_by, verbs>>

\* The stack of the virtual machine, the clock and the limits of the task
\* are read; what they hold is left out.
NoArguments(t, args, value) ==
    /\ Answer(t, Checked(<<Arity(args, {0})>>, value))
    /\ Untouched

bf_caller_perms(t, args) == Call(t) /\ NoArguments(t, args, v_objid(None))
bf_callers(t, args) == Call(t) /\ NoArguments(t, args, v_list(<<>>))
bf_task_id(t, args) == Call(t) /\ NoArguments(t, args, v_int(t))
bf_time(t, args) == Call(t) /\ NoArguments(t, args, v_int(0))
bf_server_version(t, args) == Call(t) /\ NoArguments(t, args, v_string(<<"0.0.1">>))
bf_ticks_left(t, args) == Call(t) /\ NoArguments(t, args, v_int(0))
bf_seconds_left(t, args) == Call(t) /\ NoArguments(t, args, v_int(0))

\* The sessions know no seconds of a player who is not connected.
session_seconds(t, args, known) ==
    LET err == FirstError(<<Arity(args, {1}), IsA(args, 1, "Obj")>>)
    IN  /\ Answer(t, Checked(<<err, IF known THEN Ok ELSE "E_INVARG">>, v_int(0)))
        /\ Untouched

bf_idle_seconds(t, args) == Call(t) /\ \E known \in BOOLEAN : session_seconds(t, args, known)
bf_connected_seconds(t, args) == Call(t) /\ \E known \in BOOLEAN : session_seconds(t, args, known)

\* Only a wizard's task shuts the server down; that the sessions cannot do
\* it is a panic.  What the sessions do about it is theirs.
sessions_shutdown(t) ==
    \/ shutdown_by' = shutdown_by \cup {t} /\ Answer(t, Ret(v_none))
    \/ IoFails /\ Panic(t) /\ UNCHANGED shutdown_by

bf_shutdown(t, args) ==
    LET err == FirstError(<<Arity(args, {0, 1}),
                            IF args = <<>> THEN Ok ELSE IsA(args, 1, "Str")>>)
        allowed == check_wizard(perms[t])
    IN  /\ Call(t)
        /\ IF err # Ok THEN Answer(t, Error(err)) /\ UNCHANGED shutdown_by
           ELSE IF allowed # Ok THEN Answer(t, Raised(allowed)) /\ UNCHANGED shutdown_by
           ELSE sessions_shutdown(t)
        /\ UNCHANGED <<server, programmer, perms, waiting, told, booted, verbs>>

\* The error given is the error returned; message and value are ignored.
bf_raise(t, args) ==
    /\ Call(t)
    /\ Answer(t, Error(IF Arity(args, {1, 2, 3}) = Ok /\ args[1].t = "Err"
                       THEN args[1].v ELSE "E_INVARG"))
    /\ UNCHANGED <<server, programmer, perms, waiting, told, booted, shutdown_by, verbs>>

\* Faulty variant of as_u64: the number is taken as it is.
as_u64_Uncast(n) == n

\* `seconds as u64`, `id as TaskId`: a negative number is a very large one.
as_u64(n) == n % 2^Bits

bf_suspend(t, args) ==
    LET err == FirstError(<<Arity(args, {0, 1}),
                            IF args = <<>> THEN Ok ELSE IsA(args, 1, "Int")>>)
        seconds == IF args = <<>> THEN None ELSE as_u64(args[1].v)
    IN  /\ Call(t)
        /\ Answer(t, IF err # Ok THEN Error(err) ELSE VmInstr(Suspend(seconds)))
        /\ UNCHANGED <<server, programmer, perms, waiting, told, booted, shutdown_by, verbs>>

\* The messages whose answer the task awaits.
DescribeOtherTasks(t) == [msg |-> "DescribeOtherTasks", about |-> None, sender_permissions |-> None]
KillTask(t, victim) == [msg |-> "KillTask", about |-> victim, sender_permissions |-> perms[t]]
ResumeTask(t, id) == [msg |-> "ResumeTask", about |-> id, sender_permissions |-> perms[t]]

bf_queued_tasks(t, args) ==
    /\ Call(t)
    /\ IF args # <<>> THEN Answer(t, Error("E_INVARG")) /\ UNCHANGED waiting
       ELSE Ask(t, DescribeOtherTasks(t))
    /\ UNCHANGED <<server, programmer, perms, told, booted, shutdown_by, verbs>>

\* A task that kills itself completes, and the scheduler never hears of it.
bf_kill_task(t, args) ==
    LET err == FirstError(<<Arity(args, {1}), IsA(args, 1, "Int")>>)
    IN  /\ Call(t)
        /\ IF err # Ok THEN Answer(t, Error(err)) /\ UNCHANGED waiting
           ELSE IF as_u64(args[1].v) = t THEN Answer(t, VmInstr(Complete)) /\ UNCHANGED waiting
           ELSE Ask(t, KillTask(t, as_u64(args[1].v)))
        /\ UNCHANGED <<server, programmer, perms, told, booted, shutdown_by, verbs>>

\* Fewer than two arguments are refused, more than two are taken; a task
\* does not resume itself.
resume_error(t, args) ==
    FirstError(<<IF Len(args) < 2 THEN "E_INVARG" ELSE Ok, IsA(args, 1, "Int"),
                 IF IsA(args, 1, "Int") = Ok /\ as_u64(args[1].v) = t THEN "E_INVARG" ELSE Ok>>)

bf_resume(t, args) ==
    /\ Call(t)
    /\ IF resume_error(t, args) # Ok
       THEN Answer(t, Error(resume_error(t, args))) /\ UNCHANGED waiting
       ELSE Ask(t, ResumeTask(t, as_u64(args[1].v)))
    /\ UNCHANGED <<server, programmer, perms, told, booted, shutdown_by, verbs>>

\* The scheduler answers, or its oneshot sender is dropped with its loop.
Answered(t, answers) ==
    /\ waiting' = [waiting EXCEPT ![t] = None]
    /\ IF listening THEN \E r \in answers : Answer(t, r) ELSE Answer(t, Raised("RecvError"))
    /\ UNCHANGED <<server, programmer, perms, told, booted, shutdown_by, verbs, calls>>

Awaits(t, msg) == main = "serving" /\ waiting[t] # None /\ waiting[t].msg = msg

queued_tasks_answered(t) ==
    /\ Awaits(t, "DescribeOtherTasks")
    /\ Answered(t, {Ret(v_list(SetToSeq(others))) : others \in SUBSET (Tasks \ {t})})

\* An error the scheduler answers is the error of the builtin.
SchedulerAnswers == {Ret(v_none), Error("E_INVARG"), Error("E_PERM")}

kill_task_answered(t) == Awaits(t, "KillTask") /\ Answered(t, SchedulerAnswers)

resume_answered(t) == Awaits(t, "ResumeTask") /\ Answered(t, SchedulerAnswers)

\* A wizard's task boots anyone, another task the object it runs as; the
\* scheduler is told and not waited for.
bf_boot_player(t, args) ==
    LET err == FirstError(<<Arity(args, {1}), IsA(args, 1, "Obj")>>)
        player == args[1].v
    IN  /\ Call(t)
        /\ IF err # Ok THEN Answer(t, Error(err)) /\ UNCHANGED booted
           ELSE IF "Wizard" \notin perms[t].flags /\ perms[t].obj # player
                THEN Answer(t, Error("E_PERM")) /\ UNCHANGED booted
           ELSE IF listening
                THEN /\ booted' = booted \cup {[player |-> player, task |-> t]}
                     /\ Answer(t, Ret(v_none))
           ELSE Panic(t) /\ UNCHANGED booted
        /\ UNCHANGED <<server, programmer, perms, waiting, told, shutdown_by, verbs>>

(***************************************************************************)
(* bf_verbs.rs                                                             *)
(***************************************************************************)
VerbFlagOf == [r |-> "Read", w |-> "Write", x |-> "Exec", d |-> "Debug"]
ArgSpecs == {"none", "any", "this"}
PrepSpecs == {"none", "any", "with"}

\* The letters of the flags a verb has, in the order r, w, x, d.
perms_string(flags) ==
    SelectSeq(<<"r", "w", "x", "d">>, LAMBDA c : VerbFlagOf[c] \in flags)

\* names.join(" ") and names.split(' ')
join(names) ==
    FlattenSeq([i \in DOMAIN names |-> IF i = 1 THEN names[i] ELSE <<" ">> \o names[i]])

split(s) ==
    FoldLeft(LAMBDA acc, c : IF c = " " THEN Append(acc, <<>>)
                             ELSE [acc EXCEPT ![Len(acc)] = Append(@, c)],
             << <<>> >>, s)

\* ArgSpec::from_string and PrepSpec::from_string
from_string(s, specs) == IF Len(s) = 1 /\ s[1] \in specs THEN s[1] ELSE None

\* The world state: the verb a name or an index finds, and who may read or
\* write it.
get_verb(vs, name) == SelectInSeq(vs, LAMBDA v : name \in ToSet(v.names))

get_verb_at_index(vs, index) == IF index + 1 \in DOMAIN vs THEN index + 1 ELSE 0

check_verb_allows(p, v, required) ==
    IF "Wizard" \in p.flags \/ p.obj = v.owner \/ required \in v.flags
    THEN Ok ELSE "VerbPermissionDenied"

\* A verb is described by one of its names or by its number, counted from 1.
verb_index_CountsFromZero(i) == i

verb_index(i) == i - 1

desc_error(desc) ==
    CASE desc.t = "Str" -> Ok
      [] desc.t = "Int" -> IF desc.v < 1 THEN "E_INVARG" ELSE Ok
      [] OTHER -> "E_TYPE"

Described(vs, o, desc) ==
    IF desc.t = "Str" THEN get_verb(vs[o], desc.v)
    ELSE get_verb_at_index(vs[o], verb_index(desc.v))

world_error(vs, p, o, desc, required) ==
    IF o \notin Valid THEN "ObjectNotFound"
    ELSE IF Described(vs, o, desc) = 0 THEN "VerbNotFound"
    ELSE check_verb_allows(p, vs[o][Described(vs, o, desc)], required)

\* What verb_info and verb_args return: the owner, the flags and the names
\* of the verb, or its argument specification, as strings.
Shown(vs, p, args, show(_)) ==
    LET err == FirstError(<<Arity(args, {2}), IsA(args, 1, "Obj"), desc_error(Arg(args, 2))>>)
        refused == world_error(vs, p, args[1].v, args[2], "Read")
    IN  IF err # Ok THEN Error(err)
        ELSE IF refused # Ok THEN Raised(refused)
        ELSE Ret(v_list(show(vs[args[1].v][Described(vs, args[1].v, args[2])])))

verb_info(vs, p, args) ==
    Shown(vs, p, args, LAMBDA v : <<v_objid(v.owner), v_string(perms_string(v.flags)),
                                    v_string(join(v.names))>>)

verb_args(vs, p, args) ==
    Shown(vs, p, args, LAMBDA v : [i \in 1 .. 3 |-> v_string(<<v.args[i]>>)])

\* What set_verb_info and set_verb_args take: a list of three, of the right
\* variants, that can be read.
info_error(info) ==
    IF /\ info.t = "List" /\ Len(info.v) = 3
       /\ <<info.v[1].t, info.v[2].t, info.v[3].t>> = <<"Obj", "Str", "Str">>
       /\ ToSet(info.v[2].v) \subseteq DOMAIN VerbFlagOf
    THEN Ok ELSE "E_INVARG"

args_error(info) ==
    IF /\ info.t = "List" /\ Len(info.v) = 3
       /\ \A i \in 1 .. 3 : info.v[i].t = "Str"
       /\ None \notin {from_string(info.v[1].v, ArgSpecs), from_string(info.v[2].v, PrepSpecs),
                       from_string(info.v[3].v, ArgSpecs)}
    THEN Ok ELSE "E_INVARG"

\* The result and the verbs after set_verb_info or set_verb_args: the list is
\* checked before the description of the verb is looked at.
Updated(vs, p, args, error(_), change(_, _)) ==
    LET err == FirstError(<<Arity(args, {3}), IsA(args, 1, "Obj"), IsA(args, 3, "List"),
                            error(Arg(args, 3)), desc_error(Arg(args, 2))>>)
        refused == world_error(vs, p, args[1].v, args[2], "Write")
        o == args[1].v
        i == Described(vs, o, args[2])
    IN  IF err # Ok THEN <<Error(err), vs>>
        ELSE IF refused # Ok THEN <<Raised(refused), vs>>
        ELSE <<Ret(v_none), [vs EXCEPT ![o][i] = change(@, args[3].v)]>>

set_verb_info(vs, p, args) ==
    Updated(vs, p, args, info_error,
            LAMBDA v, info : [v EXCEPT !.owner = info[1].v,
                                       !.flags = {VerbFlagOf[c] : c \in ToSet(info[2].v)},
                                       !.names = split(info[3].v)])

set_verb_args(vs, p, args) ==
    Updated(vs, p, args, args_error,
            LAMBDA v, info : [v EXCEPT !.args = <<from_string(info[1].v, ArgSpecs),
                                                  from_string(info[2].v, PrepSpecs),
                                                  from_string(info[3].v, ArgSpecs)>>])

bf_verb_info(t, args) ==
    /\ Call(t)
    /\ Answer(t, verb_info(verbs, perms[t], args))
    /\ Untouched

bf_verb_args(t, args) ==
    /\ Call(t)
    /\ Answer(t, verb_args(verbs, perms[t], args))
    /\ Untouched

bf_set_verb_info(t, args) ==
    /\ Call(t)
    /\ Answer(t, set_verb_info(verbs, perms[t], args)[1])
    /\ verbs' = set_verb_info(verbs, perms[t], args)[2]
    /\ UNCHANGED <<server, programmer, perms, waiting, told, booted, shutdown_by>>

bf_set_verb_args(t, args) ==
    /\ Call(t)
    /\ Answer(t, set_verb_args(verbs, perms[t], args)[1])
    /\ verbs' = set_verb_args(verbs, perms[t], args)[2]
    /\ UNCHANGED <<server, programmer, perms, waiting, told, booted, shutdown_by>>

(***************************************************************************)
(* The specification                                                       *)
(***************************************************************************)
Builtin(t, args) ==
    \/ bf_notify(t, args) \/ bf_connected_players(t, args) \/ bf_is_player(t, args)
    \/ bf_caller_perms(t, args) \/ bf_set_task_perms(t, args) \/ bf_callers(t, args)
    \/ bf_task_id(t, args) \/ bf_idle_seconds(t, args) \/ bf_connected_seconds(t, args)
    \/ bf_shutdown(t, args) \/ bf_time(t, args) \/ bf_raise(t, args)
    \/ bf_server_version(t, args) \/ bf_suspend(t, args) \/ bf_queued_tasks(t, args)
    \/ bf_kill_task(t, args) \/ bf_resume(t, args) \/ bf_ticks_left(t, args)
    \/ bf_seconds_left(t, args) \/ bf_boot_player(t, args)
    \/ bf_verb_info(t, args) \/ bf_set_verb_info(t, args)
    \/ bf_verb_args(t, args) \/ bf_set_verb_args(t, args)

Next ==
    \/ Start \/ SchedulerLoopExits
    \/ MainShutdown \/ MainStopped \/ MainSchedulerExited \/ MainSignal
    \/ \E t \in Tasks :
          \/ bf_noop(t)
          \/ queued_tasks_answered(t) \/ kill_task_answered(t) \/ resume_answered(t)
          \/ \E args \in ArgChoices : Builtin(t, args)

\* No fairness: whether the scheduler's stop returns, and whether anything is
\* sent on the shutdown channel, is decided outside these files.
Spec == Init /\ [][Next]_vars

(***************************************************************************)
(* Properties                                                              *)
(***************************************************************************)
Message == [msg : {"DescribeOtherTasks", "KillTask", "ResumeTask"},
            about : (0 .. 2^Bits - 1) \cup {None},
            sender_permissions : {PermsOf(o) : o \in Valid} \cup {None}]

\* The variables keep their types: a verb keeps an owner, flags that are
\* verb flags and an argument specification that can be shown, whatever
\* list set_verb_info and set_verb_args were given, and the task a message
\* is about is a TaskId, whatever number bf_kill_task and bf_resume were
\* given (`as TaskId`).
TypeOK ==
    /\ main \in {"starting", "serving", "stopping", "done", "panicked"}
    /\ listening \in BOOLEAN
    /\ programmer \in [Tasks -> Valid]
    /\ perms \in [Tasks -> {PermsOf(o) : o \in Valid}]
    /\ status \in [Tasks -> {"running", "complete", "panicked"}]
    /\ result[1] \in {"Ret", "Error", "VmInstr", "Err"}
    /\ \A t \in Tasks : waiting[t] # None => waiting[t] \in Message
    /\ told \subseteq [task : Tasks, player : Objs]
    /\ booted \subseteq [task : Tasks, player : Objs]
    /\ shutdown_by \subseteq Tasks
    /\ \A o \in Valid : \A i \in DOMAIN verbs[o] :
          /\ verbs[o][i].owner \in Objs
          /\ verbs[o][i].flags \subseteq {VerbFlagOf[c] : c \in DOMAIN VerbFlagOf}
          /\ verbs[o][i].args \in ArgSpecs \X PrepSpecs \X ArgSpecs
    /\ calls \in 0 .. MaxCalls

\* A task that did not start as a wizard never acts for anyone but the
\* object it started as: its permissions stay what they were, the server is
\* never shut down by it, and the players it has text sent to or booted are
\* that object alone.  (bf_set_task_perms and bf_shutdown ask check_wizard,
\* bf_notify check_obj_owner_perms, bf_boot_player the Wizard flag or the
\* task's own object, each before it acts.)
OnlyWizardsActForOthers ==
    \A t \in Tasks : "Wizard" \notin FlagsOf[programmer[t]] =>
        /\ perms[t] = PermsOf(programmer[t])
        /\ t \notin shutdown_by
        /\ \A e \in told \cup booted : e.task = t => e.player = programmer[t]

\* What verb_info and verb_args show of a verb, given back to set_verb_info
\* and set_verb_args, leaves the verb as it is, and the name and the number
\* of a verb describe the same verb: perms_string and the parse of the
\* letters, join and split, to_string and from_string undo each other, and
\* a number n is the verb at index n - 1.
Wizardly == [obj |-> None, flags |-> {"Wizard"}]

ShownAndSetAgree ==
    \A o \in Valid : \A i \in DOMAIN verbs[o] : \A name \in ToSet(verbs[o][i].names) :
        LET by_name == <<v_objid(o), v_string(name)>>
            by_number == <<v_objid(o), v_int(i)>>
            info == verb_info(verbs, Wizardly, by_name)[2]
            spec == verb_args(verbs, Wizardly, by_name)[2]
        IN  get_verb(verbs[o], name) = i =>
                /\ set_verb_info(verbs, Wizardly, Append(by_number, info)) = <<Ret(v_none), verbs>>
                /\ set_verb_args(verbs, Wizardly, Append(by_number, spec)) = <<Ret(v_none), verbs>>
=============================================================================
