------------------------------- MODULE Telnet -------------------------------
(***************************************************************************)
(* The telnet host of crates/telnet-host/src/telnet.rs: the listen loop,   *)
(* and one connection from the moment it is accepted until its task ends.  *)
(* A connection is one task that, in a select loop, serves three sources:  *)
(* the lines its user types, the events the daemon publishes for it, and   *)
(* the daemon's broadcast pings.  Connections share nothing but the kill   *)
(* switch, so one of them is modelled; the listener accepts others too.    *)
(*                                                                         *)
(* Lines are known by their number and their kind; what is written to the  *)
(* user is left out, that a write can fail is kept.  The daemon is the     *)
(* environment: it answers calls and sends events.                         *)
(***************************************************************************)
EXTENDS Integers, Sequences

CONSTANTS
    MaxLines,          \* bound: the lines the user types
    MaxInputRequests,  \* bound: the RequestInput events the daemon sends
    IoFails,           \* whether a write to the user or a call of the daemon may fail
    Token, None        \* the AuthToken of a login, and the absence of one

ASSUME MaxLines \in Nat /\ MaxInputRequests \in Nat /\ IoFails \in BOOLEAN

LineIds == 1 .. MaxLines
RequestIds == 1 .. MaxInputRequests

\* What command_loop tells apart in a line: `.program target:verb`, a
\* `.program` it rejects, the OUT_OF_BAND_PREFIX, the lone ".", any other
\* text, and bytes the LinesCodec cannot decode.
LineKinds == {"program", "program_usage", "out_of_band", "dot", "text", "invalid"}

\* LineMode.  The target and verb of SpoolingProgram are those of the
\* `.program` line with that number.
Input == [mode |-> "Input"]
WaitingReply(id) == [mode |-> "WaitingReply", id |-> id]
SpoolingProgram(target) == [mode |-> "SpoolingProgram", target |-> target]
LineMode == {Input} \cup {WaitingReply(id) : id \in RequestIds}
                    \cup {SpoolingProgram(t) : t \in LineIds}

\* The calls of the daemon that carry the AuthToken, and Detach.
Rpcs == [rpc : {"Command", "OutOfBand"}, auth : {Token}, line : LineIds]
   \cup [rpc : {"RequestedInput"}, auth : {Token}, line : LineIds, id : RequestIds]
   \cup [rpc : {"Program"}, auth : {Token}, line : LineIds, target : LineIds,
         code : Seq(LineIds)]
   \cup [rpc : {"Detach"}]

Results == {"Ok"} \cup (IF IoFails THEN {"Err"} ELSE {})

VARIABLES
    kill_switch,    \* the AtomicBool shared by the listener and the connections
    listener,       \* telnet_listen_loop: "check", "accept", "stopped", "failed"
    phase,          \* where the connection's task is, or how it ended
    auth_token,     \* what authorization_phase returned
    line_mode,      \* command_loop's line_mode
    program_input,  \* command_loop's program_input
    nlines,         \* the number of lines read from the user
    requests,       \* the number of RequestInput events sent by the daemon
    sent            \* the calls of the daemon made so far, in order

vars == <<kill_switch, listener, phase, auth_token, line_mode, program_input,
          nlines, requests, sent>>
conn == <<phase, auth_token, line_mode, program_input, nlines, requests, sent>>

Init ==
    /\ kill_switch = FALSE
    /\ listener = "check"
    /\ phase = "none"
    /\ auth_token = None
    /\ line_mode = Input
    /\ program_input = <<>>
    /\ nlines = 0
    /\ requests = 0
    /\ sent = <<>>

(***************************************************************************)
(* telnet_listen_loop                                                      *)
(***************************************************************************)
KillSwitch ==
    /\ ~kill_switch
    /\ kill_switch' = TRUE
    /\ UNCHANGED <<listener, conn>>

ListenCheck ==
    /\ listener = "check"
    /\ listener' = IF kill_switch THEN "stopped" ELSE "accept"
    /\ UNCHANGED <<kill_switch, conn>>

\* listener.accept() returns: a task is spawned for the connection, the one
\* modelled here or another.
Accept ==
    /\ listener = "accept"
    /\ \/ listener' = "check" /\ phase = "none" /\ phase' = "establish"
       \/ listener' = "check" /\ UNCHANGED phase
       \/ IoFails /\ listener' = "failed" /\ UNCHANGED phase
    /\ UNCHANGED <<kill_switch, auth_token, line_mode, program_input, nlines,
                   requests, sent>>

\* The spawned task up to TelnetConnection::run: ConnectionEstablish and the
\* two subscriptions.  A refusal ends the task, a failed socket panics.
Establish ==
    /\ phase = "establish"
    /\ \/ phase' \in {"welcome", "err"}
       \/ IoFails /\ phase' = "panic"
    /\ UNCHANGED <<kill_switch, listener, auth_token, line_mode, program_input,
                   nlines, requests, sent>>

(***************************************************************************)
(* TelnetConnection::run and authorization_phase                           *)
(***************************************************************************)
\* The LoginCommand without arguments that provokes the welcome message.
Welcome ==
    /\ phase = "welcome"
    /\ \/ phase' = "auth"
       \/ IoFails /\ phase' = "panic"
    /\ UNCHANGED <<kill_switch, listener, auth_token, line_mode, program_input,
                   nlines, requests, sent>>

\* output and handle_task_error write what they are given, line by line,
\* and return the first failure.
output == Results
handle_task_error == Results

\* authorization_phase returns an error: run bails out.
Bail == phase' = "err"

\* A ping, a message, a narrative event, a task error or a task success
\* before login.
AuthEvent ==
    /\ phase = "auth"
    /\ \E res \in output \cup handle_task_error :
          IF res = "Ok" THEN UNCHANGED phase ELSE Bail
    /\ UNCHANGED <<kill_switch, listener, auth_token, line_mode, program_input,
                   nlines, requests, sent>>

\* RequestInput, Disconnect, or the end of the user's connection, before
\* login.
AuthRefused ==
    /\ phase = "auth"
    /\ Bail
    /\ UNCHANGED <<kill_switch, listener, auth_token, line_mode, program_input,
                   nlines, requests, sent>>

\* authorization_phase has returned a token: run writes the connect message
\* and enters command_loop.
Authorized(token) ==
    /\ auth_token' = token
    /\ line_mode' = Input
    /\ program_input' = <<>>
    /\ \E res \in Results : phase' = IF res = "Ok" THEN "loop_top" ELSE "err"

\* Faulty variant of LoginResult: any answer to the login is taken for a
\* success.
LoginResult_AcceptsNone(result) == Authorized(result)

\* The answer to a LoginCommand: only LoginResult(Some(..)) ends the phase.
LoginResult(result) ==
    IF result # None THEN Authorized(result)
    ELSE UNCHANGED <<phase, auth_token, line_mode, program_input>>

\* A line before login is a login command; line.unwrap() and the call's
\* .expect panic.
AuthLine(kind) ==
    /\ phase = "auth" /\ nlines < MaxLines
    /\ nlines' = nlines + 1
    /\ \/ /\ kind = "invalid" \/ IoFails
          /\ phase' = "panic"
          /\ UNCHANGED <<auth_token, line_mode, program_input>>
       \/ kind # "invalid" /\ \E result \in {None, Token} : LoginResult(result)
    /\ UNCHANGED <<kill_switch, listener, requests, sent>>

(***************************************************************************)
(* command_loop                                                            *)
(***************************************************************************)
\* Faulty variant of LeaveLoop: an error of command_loop is returned by run
\* at once.
LeaveLoop_ReturnsError(result, rpcs) ==
    IF result = "Err" THEN phase' = "err" /\ sent' = sent \o rpcs
    ELSE /\ sent' = sent \o rpcs \o <<[rpc |-> "Detach"]>>
         /\ \E res \in Results : phase' = IF res = "Ok" THEN "ok" ELSE "err"

\* command_loop has returned: whatever it returned, run "lets the server
\* know this client is gone", and returns what that call returns.
LeaveLoop(result, rpcs) ==
    /\ sent' = sent \o rpcs \o <<[rpc |-> "Detach"]>>
    /\ \E res \in Results : phase' = IF res = "Ok" THEN "ok" ELSE "err"

\* The loop goes round.
Loop(rpcs) == sent' = sent \o rpcs /\ phase' = "loop_top"

\* A step of the loop that ends in a call and what its response asks for:
\* the loop goes round, or `?` returns the failure.
Step(rpcs) == \E res \in Results : IF res = "Ok" THEN Loop(rpcs) ELSE LeaveLoop("Err", rpcs)

\* The top of the loop, the one place where the kill switch is looked at.
LoopTop ==
    /\ phase = "loop_top"
    /\ IF kill_switch THEN LeaveLoop("Ok", <<>>) ELSE phase' = "select" /\ UNCHANGED sent
    /\ UNCHANGED <<kill_switch, listener, auth_token, line_mode, program_input,
                   nlines, requests>>

\* LineMode::Input.
InputLine(kind, n) ==
    /\ UNCHANGED program_input
    /\ \/ kind = "program" /\ line_mode' = SpoolingProgram(n) /\ Step(<<>>)
       \/ kind = "program_usage" /\ UNCHANGED line_mode /\ Step(<<>>)
       \/ /\ kind \in {"out_of_band", "dot", "text"}
          /\ UNCHANGED line_mode
          /\ Step(<<[rpc |-> IF kind = "out_of_band" THEN "OutOfBand" ELSE "Command",
                     auth |-> auth_token, line |-> n]>>)

\* Faulty variant of ReplyLine: the mode stays WaitingReply.
ReplyLine_KeepsWaiting(id, n) ==
    /\ UNCHANGED <<line_mode, program_input>>
    /\ Step(<<[rpc |-> "RequestedInput", auth |-> auth_token, line |-> n, id |-> id]>>)

\* LineMode::WaitingReply: the line answers the prompt.
ReplyLine(id, n) ==
    /\ line_mode' = Input
    /\ UNCHANGED program_input
    /\ Step(<<[rpc |-> "RequestedInput", auth |-> auth_token, line |-> n, id |-> id]>>)

\* LineMode::SpoolingProgram: "." sends the program, any other line is kept.
SpoolLine(target, kind, n) ==
    \/ /\ kind = "dot"
       /\ line_mode' = Input
       /\ program_input' = <<>>
       /\ Step(<<[rpc |-> "Program", auth |-> auth_token, line |-> n,
                  target |-> target, code |-> program_input]>>)
    \/ /\ kind # "dot"
       /\ program_input' = Append(program_input, n)
       /\ UNCHANGED line_mode
       /\ Loop(<<>>)

CommandLine(kind) ==
    /\ phase = "select" /\ nlines < MaxLines
    /\ nlines' = nlines + 1
    /\ \/ /\ kind = "invalid"
          /\ phase' = "panic"
          /\ UNCHANGED <<line_mode, program_input, sent>>
       \/ /\ kind # "invalid"
          /\ \/ line_mode = Input /\ InputLine(kind, nlines')
             \/ line_mode.mode = "WaitingReply" /\ ReplyLine(line_mode.id, nlines')
             \/ line_mode.mode = "SpoolingProgram"
                   /\ SpoolLine(line_mode.target, kind, nlines')
    /\ UNCHANGED <<kill_switch, listener, auth_token, requests>>

\* The user's connection has ended.
CommandClosed ==
    /\ phase = "select"
    /\ LeaveLoop("Ok", <<>>)
    /\ UNCHANGED <<kill_switch, listener, auth_token, line_mode, program_input,
                   nlines, requests>>

\* BroadcastEvent::PingPong: the Pong is a call, and may fail.
CommandPingPong ==
    /\ phase = "select"
    /\ Step(<<>>)
    /\ UNCHANGED <<kill_switch, listener, auth_token, line_mode, program_input,
                   nlines, requests>>

\* A result of output or handle_task_error, followed by `?`.
Try(results) == \E res \in results : IF res = "Ok" THEN Loop(<<>>) ELSE LeaveLoop("Err", <<>>)

\* ConnectionEvent::SystemMessage and Narrative.
CommandEvent ==
    /\ phase = "select"
    /\ Try(output)
    /\ UNCHANGED <<kill_switch, listener, auth_token, line_mode, program_input,
                   nlines, requests>>

\* ConnectionEvent::TaskError and TaskSuccess.
CommandTaskEvent ==
    /\ phase = "select"
    /\ Try(handle_task_error)
    /\ UNCHANGED <<kill_switch, listener, auth_token, line_mode, program_input,
                   nlines, requests>>

\* ConnectionEvent::RequestInput: the next line is the answer to request_id.
CommandRequestInput ==
    /\ phase = "select" /\ requests < MaxInputRequests
    /\ requests' = requests + 1
    /\ line_mode' = WaitingReply(requests')
    /\ Loop(<<>>)
    /\ UNCHANGED <<kill_switch, listener, auth_token, program_input, nlines>>

\* ConnectionEvent::Disconnect: the farewell and the close panic if they fail.
CommandDisconnect ==
    /\ phase = "select"
    /\ \/ LeaveLoop("Ok", <<>>)
       \/ IoFails /\ phase' = "panic" /\ UNCHANGED sent
    /\ UNCHANGED <<kill_switch, listener, auth_token, line_mode, program_input,
                   nlines, requests>>

Connection ==
    \/ Establish \/ Welcome
    \/ AuthEvent \/ AuthRefused \/ \E kind \in LineKinds : AuthLine(kind)
    \/ LoopTop \/ \E kind \in LineKinds : CommandLine(kind)
    \/ CommandClosed \/ CommandPingPong \/ CommandEvent \/ CommandTaskEvent
    \/ CommandRequestInput \/ CommandDisconnect

Next == KillSwitch \/ ListenCheck \/ Accept \/ Connection

\* No fairness: a connection in select waits for a line, an event or a ping,
\* and nothing in this file makes one arrive.
Spec == Init /\ [][Next]_vars

(***************************************************************************)
(* Properties                                                              *)
(***************************************************************************)
InLoop == phase \in {"loop_top", "select"}
Calls(name) == {i \in DOMAIN sent : sent[i].rpc = name}

\* The variables keep their types; in particular every call that acts for a
\* player carries the token of a login (authorization_phase returns only on
\* LoginResult(Some(..))).
TypeOK ==
    /\ kill_switch \in BOOLEAN
    /\ listener \in {"check", "accept", "stopped", "failed"}
    /\ phase \in {"none", "establish", "welcome", "auth", "loop_top", "select",
                  "ok", "err", "panic"}
    /\ auth_token \in {None, Token}
    /\ line_mode \in LineMode
    /\ program_input \in Seq(LineIds)
    /\ nlines \in 0 .. MaxLines
    /\ requests \in 0 .. MaxInputRequests
    /\ sent \in Seq(Rpcs)

\* A prompt is answered at most once, and only a prompt the daemon has sent
\* is answered: after the line that answers RequestInput the mode is Input
\* again (LineMode::WaitingReply in command_loop).
InputAnsweredOnce ==
    \A i, j \in Calls("RequestedInput") :
        /\ sent[i].id <= requests
        /\ sent[i].id = sent[j].id => i = j

\* Detach ends the session: a connection that has entered command_loop does
\* not end, short of a panic, without having told the daemon that it is
\* gone, and Detach is the last call it makes (the is_err() around
\* command_loop in run).
DetachEndsSession ==
    [][/\ InLoop /\ phase' \in {"ok", "err"} =>
            sent' # <<>> /\ sent'[Len(sent')].rpc = "Detach"
       /\ Calls("Detach") # {} => sent' = sent]_vars

\* The program sent when "." ends a `.program` is the lines typed since
\* that `.program` line, and no others ("Clear the program input, and send
\* it off", "Spooling up .program input").
ProgramIsWhatWasSpooled ==
    \A i \in Calls("Program") :
        sent[i].code = [k \in 1 .. (sent[i].line - sent[i].target - 1) |->
                            sent[i].target + k]

=============================================================================
