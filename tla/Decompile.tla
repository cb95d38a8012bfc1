------------------------------ MODULE Decompile ------------------------------
(***************************************************************************)
(* The decompiler of moor-lib (compiler/decompile.rs): program_to_tree     *)
(* reads the opcodes of a program once, from left to right, and rebuilds   *)
(* the statements they were compiled from.  Expressions wait on a stack    *)
(* until the opcode that uses them; the body of an if, a loop or a try is  *)
(* found by decompiling on until a label's position or a closing opcode.   *)
(*                                                                         *)
(* An opcode, an expression and a statement are tuples with the name of    *)
(* the variant first.  A state of the decompiler is a record s of its      *)
(* position, expr_stack and statements, with the result so far (Ok, or the *)
(* error of the first `?` that failed) and, in taken, the statements the   *)
(* last scan returned.  Line numbers are left out.                         *)
(*                                                                         *)
(* program_to_tree is given a program as the compiler made it, or one that *)
(* was damaged since: it answers the first with its tree and the second    *)
(* with a DecompileError.                                                  *)
(***************************************************************************)
EXTENDS Integers, Sequences, SequencesExt

CONSTANTS
    Compiled,   \* the inputs: records of a source tree and its program
    Damaged,    \* the same, with a program that is no longer what was compiled
    builtins,   \* make_labels_builtins(): the name of every builtin id
    None

VARIABLES
    source,      \* the statements the program was compiled from
    program,     \* Decompile.program: main_vector, jump_labels, literals
    intact,      \* whether the program is as it was compiled
    position,    \* Decompile.position, counted from 0
    expr_stack,  \* Decompile.expr_stack, front first
    statements,  \* Decompile.statements
    answer       \* what program_to_tree returned, None while it runs

vars == <<source, program, intact, position, expr_stack, statements, answer>>

Ok    == "Ok"
Panic == "panic"
DecompileError ==
    {"UnexpectedProgramEnd", "NameNotFound", "LabelNotFound", "MalformedProgram",
     "CouldNotDecompileStatement"}
BinaryOps ==
    {"Eq", "Ne", "Lt", "Le", "Gt", "Ge", "Add", "Sub", "Mul", "Div", "Mod", "Exp", "In"}

ops == program.main_vector

Err(s, e) == [s EXCEPT !.result = e]
Malformed(s) == Err(s, "MalformedProgram")
\* The `?` after a call: go on with Then only when the call succeeded.
Try(s, Then(_)) == IF s.result = Ok THEN Then(s) ELSE s

next(s) ==
    IF s.position >= Len(ops) THEN Err(s, "UnexpectedProgramEnd")
    ELSE [s EXCEPT !.position = @ + 1]
\* The opcode the last next() returned.
opcode(s) == ops[s.position]

\* n calls of pop_expr, and what they returned, the first popped first.
pop_expr(s, n) ==
    IF Len(s.expr_stack) < n THEN Malformed(s)
    ELSE [s EXCEPT !.expr_stack = SubSeq(@, n + 1, Len(@))]
Popped(s, n) == SubSeq(s.expr_stack, 1, n)
push_expr(s, e) == [s EXCEPT !.expr_stack = <<e>> \o @]
push_stmt(s, node) == [s EXCEPT !.statements = Append(@, node)]

find_jump(s, label) ==
    IF label \in DOMAIN program.jump_labels THEN s ELSE Err(s, "LabelNotFound")
jump(label) == program.jump_labels[label]
find_literal(s, label) ==
    IF label + 1 \in DOMAIN program.literals THEN s ELSE Err(s, "LabelNotFound")

\* How a scan that began in state s ends in state t: the statements added
\* since are split off and returned.
split_off(s, t) ==
    LET old_len == Len(s.statements)
    IN  Try(t, LAMBDA u :
            [u EXCEPT !.taken = SubSeq(u.statements, old_len + 1, Len(u.statements)),
                      !.statements = SubSeq(@, 1, Min({old_len, Len(@)}))])

RECURSIVE decompile(_)

\* while self.position < bound { self.decompile()?; }
RECURSIVE decompile_while(_, _)
decompile_while(s, bound) ==
    IF s.result = Ok /\ s.position < bound
    THEN decompile_while(decompile(s), bound)
    ELSE s

decompile_statements_until(s, label) ==
    split_off(s, Try(find_jump(s, label),
                     LAMBDA t : decompile_while(t, jump(label).position)))

decompile_statements_up_to(s, label) ==
    split_off(s, Try(find_jump(s, label),
                     LAMBDA t : decompile_while(t, jump(label).position - 1)))

\* The label of the jump the branch ends with is opcode(t)[2] of the result.
decompile_until_branch_end(s, label) ==
    LET body == Try(find_jump(s, label),
                    LAMBDA t : decompile_while(t, jump(label).position - 1))
    IN  Try(Try(body, next), LAMBDA t :
            IF opcode(t)[1] = "Jump" THEN split_off(s, t) ELSE Malformed(t))

\* The predicates of decompile_statements_until_match: an opcode of one of
\* the kinds, or the end of an except arm (the position of end_label, or a
\* jump to it).
OpIs(kinds) == [kinds |-> kinds, ends |-> {}]
ArmEnd(end_label) == [kinds |-> {}, ends |-> {end_label}]
Matches(predicate, pos, op) ==
    \/ op[1] \in predicate.kinds
    \/ \E l \in predicate.ends : pos = jump(l).position \/ op = <<"Jump", l>>

no_match_Returned(s) == s
\* The scan reached the end of the program and nothing matched.
no_match(s) == Err(s, "UnexpectedProgramEnd")

RECURSIVE scan_until_match(_, _)
scan_until_match(s, predicate) ==
    IF s.result # Ok THEN s
    ELSE IF s.position >= Len(ops) THEN no_match(s)
    ELSE IF Matches(predicate, s.position, ops[s.position + 1]) THEN next(s)
    ELSE scan_until_match(decompile(s), predicate)

decompile_statements_until_match(s, predicate) ==
    split_off(s, scan_until_match(s, predicate))

-----------------------------------------------------------------------------
(* The arms of decompile(): s is the state after next(), op the opcode.    *)

IsCond(stmts) == stmts # <<>> /\ Last(stmts)[1] = "Cond"
\* statements.last_mut(), replaced by With(last).
last_mut(s, With(_)) ==
    [s EXCEPT !.statements = Front(@) \o <<With(Last(@))>>]

decompile_If(s, otherwise_label) ==
    LET arm  == Try(pop_expr(s, 1),
                    LAMBDA t : decompile_until_branch_end(t, otherwise_label))
        cond == <<"Cond", << <<Popped(s, 1)[1], arm.taken>> >>, <<>> >>
        rest == Try(arm, LAMBDA t :
                    decompile_statements_until(push_stmt(t, cond), opcode(t)[2]))
    IN  Try(rest, LAMBDA t :
            IF IsCond(t.statements)
            THEN last_mut(t, LAMBDA c : <<"Cond", c[2], t.taken>>)
            ELSE Malformed(t))

decompile_Eif(s, end_label) ==
    LET arm == Try(pop_expr(s, 1),
                   LAMBDA t : decompile_until_branch_end(t, end_label))
    IN  Try(arm, LAMBDA t :
            IF IsCond(t.statements)
            THEN last_mut(t, LAMBDA c :
                     <<"Cond", Append(c[2], <<Popped(s, 1)[1], t.taken>>), c[3]>>)
            ELSE Malformed(t))

\* ForList, ForRange, While and WhileId: n expressions, the body up to the
\* jump back, and the statement made of both.
Loop(s, n, end_label, Node(_, _)) ==
    LET body == Try(pop_expr(s, n),
                    LAMBDA t : decompile_until_branch_end(t, end_label))
    IN  Try(body, LAMBDA t : push_stmt(t, Node(Popped(s, n), t.taken)))

decompile_ForList(s, id, end_label) ==
    IF s.expr_stack # <<>> /\ Head(s.expr_stack) # <<"VarExpr", <<"Int", 0>>>>
    THEN Malformed(s)
    ELSE Loop(s, 2, end_label, LAMBDA p, body : <<"ForList", id, p[2], body>>)

\* `to` is popped before `from`.
decompile_ForRange(s, id, end_label) ==
    Loop(s, 2, end_label, LAMBDA p, body : <<"ForRange", id, p[2], p[1], body>>)

\* While, and WhileId with the name of its variable.
decompile_While(s, id, end_label) ==
    Loop(s, 1, end_label, LAMBDA p, body : <<"While", id, p[1], body>>)

\* Exit and ExitId: a jump backwards is a continue, a jump forwards a break;
\* ExitId unwraps the name of the label.
decompile_Exit(s, label, named) ==
    Try(find_jump(s, label), LAMBDA t :
        LET kind == IF jump(label).position < t.position THEN "Continue" ELSE "Break"
        IN  IF ~named THEN push_stmt(t, <<kind, None>>)
            ELSE IF jump(label).name = None THEN Err(t, Panic)
            ELSE push_stmt(t, <<kind, jump(label).name>>))

decompile_AndOr(s, op) ==
    LET right == Try(pop_expr(s, 1),
                     LAMBDA t : decompile_statements_until(t, op[2]))
    IN  Try(Try(right, LAMBDA t : pop_expr(t, 1)), LAMBDA t :
            push_expr(t, <<op[1], Popped(s, 1)[1], Popped(right, 1)[1]>>))

\* The opcodes that pop a fixed number of expressions and push one.
Pops(op) ==
    CASE op[1] \in {"Imm", "Push", "Val", "GPush", "MkEmptyList", "Length"} -> 0
      [] op[1] \in {"Put", "GPut", "UnaryMinus", "Not", "MakeSingletonList",
                    "CheckListForSplice", "FuncCall", "Pass"} -> 1
      [] op[1] \in BinaryOps \cup {"GetProp", "PushGetProp", "Ref", "PushRef",
                                   "ListAddTail", "ListAppend"} -> 2
      [] op[1] \in {"RangeRef", "IndexSet", "PutProp", "CallVerb"} -> 3
      [] op[1] = "RangeSet" -> 4

\* What the opcode refuses after it has popped p, or Ok.
Refused(op, p) ==
    CASE op[1] = "FuncCall" ->
            IF op[2] \notin DOMAIN builtins THEN "NameNotFound"
            ELSE IF p[1][1] # "List" THEN "MalformedProgram" ELSE Ok
      [] op[1] \in {"CallVerb", "Pass"} /\ p[1][1] # "List" -> "MalformedProgram"
      [] op[1] \in {"ListAddTail", "ListAppend"} /\ p[2][1] # "List" -> "MalformedProgram"
      [] OTHER -> Ok

Assign(left, right) == <<"Assign", left, right>>

binary_Unconverted(op, left, right) == <<op[1], left, right>>
\* BinaryOp::from_binary_opcode: the operator of the opcode.
binary(op, left, right) == <<"Binary", op[1], left, right>>

\* The expression it pushes; p[1] is the expression popped first.
Pushed(op, p) ==
    CASE op[1] = "Imm" -> <<"VarExpr", program.literals[op[2] + 1]>>
      [] op[1] = "Val" -> <<"VarExpr", op[2]>>
      [] op[1] \in {"Push", "GPush"} -> <<"Id", op[2]>>
      [] op[1] \in {"Put", "GPut"} -> Assign(<<"Id", op[2]>>, p[1])
      [] op[1] = "UnaryMinus" -> <<"Unary", "Neg", p[1]>>
      [] op[1] = "Not" -> <<"Unary", "Not", p[1]>>
      [] op[1] \in {"GetProp", "PushGetProp"} -> <<"Prop", p[2], p[1]>>
      [] op[1] \in BinaryOps -> binary(op, p[2], p[1])
      [] op[1] \in {"Ref", "PushRef"} -> <<"Index", p[2], p[1]>>
      [] op[1] = "RangeRef" -> <<"Range", p[3], p[2], p[1]>>
      [] op[1] = "IndexSet" -> Assign(<<"Index", p[3], p[2]>>, p[1])
      [] op[1] = "RangeSet" -> Assign(<<"Range", p[4], p[3], p[2]>>, p[1])
      [] op[1] = "PutProp" -> Assign(<<"Prop", p[3], p[2]>>, p[1])
      [] op[1] = "FuncCall" -> <<"Call", builtins[op[2]], p[1][2]>>
      [] op[1] = "CallVerb" -> <<"Verb", p[3], p[2], p[1][2]>>
      [] op[1] = "Pass" -> <<"Pass", p[1][2]>>
      [] op[1] = "MkEmptyList" -> <<"List", <<>> >>
      [] op[1] = "MakeSingletonList" -> <<"List", << <<"Normal", p[1]>> >> >>
      [] op[1] = "CheckListForSplice" -> <<"List", << <<"Splice", p[1]>> >> >>
      [] op[1] = "ListAddTail" -> <<"List", Append(p[2][2], <<"Normal", p[1]>>)>>
      [] op[1] = "ListAppend" -> <<"List", Append(p[2][2], <<"Splice", p[1]>>)>>
      [] op[1] = "Length" -> <<"Length">>

\* IndexSet and RangeSet: skip forward to and beyond PushTemp.
skip_PushTemp(s) ==
    LET temps == {i \in s.position + 1 .. Len(ops) : ops[i] = <<"PushTemp">>}
    IN  [s EXCEPT !.position = IF temps = {} THEN Len(ops) ELSE Min(temps)]

decompile_expr(s, op) ==
    LET p == Popped(s, Pops(op))
        found == IF op[1] = "Imm" THEN find_literal(s, op[2]) ELSE s
    IN  Try(Try(found, LAMBDA t : pop_expr(t, Pops(op))), LAMBDA t :
            IF Refused(op, p) # Ok THEN Err(t, Refused(op, p))
            ELSE IF op[1] \in {"IndexSet", "RangeSet"}
                 THEN skip_PushTemp(push_expr(t, Pushed(op, p)))
                 ELSE push_expr(t, Pushed(op, p)))

\* Scatter: an optional label with an assignment label takes its default
\* from an assignment on the stack; then the expression scattered.
decompile_Scatter(s, labels) ==
    LET defaults == {i \in DOMAIN labels : labels[i][1] = "Optional" /\ labels[i][3] # None}
        n == Cardinality(defaults)
        p == Popped(s, n + 1)
        default(i) == p[Cardinality({j \in defaults : j <= i})]
        item(i) == <<labels[i][1], labels[i][2],
                     IF i \in defaults THEN default(i)[3] ELSE None>>
    IN  Try(pop_expr(s, n + 1), LAMBDA t :
            IF \E i \in 1..n : p[i][1] # "Assign" THEN Malformed(t)
            ELSE push_expr(t, <<"Scatter", [i \in DOMAIN labels |-> item(i)], p[n + 1]>>))

\* CatchCodes of the expression popped for them, where it is one.
IsCodes(e) == e[1] \in {"VarExpr", "List"}
catch_codes(e) == IF e[1] = "VarExpr" THEN <<"Any">> ELSE <<"Codes", e[2]>>

\* The arms of a try: an optional Put of the variable, a Pop, and the
\* statements up to the jump to end_label or to its position.  `arms` are the
\* arms read so far; all of them are in taken at the end.
RECURSIVE except_arms(_, _, _, _)
except_arms(s, codes, end_label, arms) ==
    IF s.result # Ok \/ codes = <<>> THEN [s EXCEPT !.taken = arms]
    ELSE LET first == next(s)
             named == first.result = Ok /\ opcode(first)[1] = "Put"
             pop   == IF named THEN next(first) ELSE first
             stmts == Try(pop, LAMBDA t :
                          IF opcode(t)[1] # "Pop" THEN Malformed(t)
                          ELSE Try(find_jump(t, end_label), LAMBDA u :
                                   decompile_statements_until_match(u, ArmEnd(end_label))))
             arm   == <<IF named THEN opcode(first)[2] ELSE None, Head(codes), stmts.taken>>
         IN  except_arms(stmts, Tail(codes), end_label, Append(arms, arm))

rewind_Missing(s) == s
\* After the last arm the opcode at end_label has been consumed: "rewind the
\* position by one opcode".
rewind(s) == [s EXCEPT !.position = @ - 1]

\* The codes were pushed arm by arm, so the last arm's are popped first.
decompile_TryExcept(s, num_excepts) ==
    LET codes == Popped(s, num_excepts)
        body  == Try(pop_expr(s, num_excepts), LAMBDA t :
                     IF \E i \in 1..num_excepts : ~IsCodes(codes[i]) THEN Malformed(t)
                     ELSE decompile_statements_until_match(t, OpIs({"EndExcept"})))
        arms  == Try(body, LAMBDA t :
                     IF opcode(t)[1] # "EndExcept" THEN Malformed(t)
                     ELSE except_arms(t, Reverse([i \in 1..num_excepts |->
                                                     catch_codes(codes[i])]),
                                      opcode(t)[2], <<>>))
    IN  Try(arms, LAMBDA t :
            push_stmt(rewind(t), <<"TryExcept", body.taken, t.taken>>))

decompile_TryFinally(s) ==
    LET body    == decompile_statements_until_match(s, OpIs({"EndFinally"}))
        handler == Try(body, LAMBDA t :
                       decompile_statements_until_match(t, OpIs({"Continue"})))
    IN  Try(handler, LAMBDA t : push_stmt(t, <<"TryFinally", body.taken, t.taken>>))

\* Catch: the codes, the expression tried up to EndCatch, and then either
\* Pop and the expression for the error, or Val(1) and Ref.
decompile_Catch(s, label) ==
    LET codes == Popped(s, 1)[1]
        tried == Try(pop_expr(s, 1), LAMBDA t :
                     IF ~IsCodes(codes) THEN Malformed(t)
                     ELSE Try(decompile_statements_up_to(t, label), next))
        after == Try(tried, LAMBDA t :
                     IF opcode(t)[1] # "EndCatch" THEN Malformed(t)
                     ELSE Try(pop_expr(t, 1), next))
        catch(except) == <<"Catch", Popped(tried, 1)[1], catch_codes(codes), except>>
        handled == decompile_statements_until(after, opcode(tried)[2])
    IN  Try(after, LAMBDA t :
            CASE opcode(t)[1] = "Pop" ->
                    Try(Try(handled, LAMBDA u : pop_expr(u, 1)), LAMBDA u :
                        push_expr(u, catch(Popped(handled, 1)[1])))
              [] opcode(t)[1] = "Val" ->
                    IF opcode(t)[2] # <<"Int", 1>> THEN Malformed(t)
                    ELSE Try(next(t), LAMBDA u :
                             IF opcode(u) # <<"Ref">> THEN Malformed(u)
                             ELSE push_expr(u, catch(None)))
              [] OTHER -> Malformed(t))

pop_later_Peeks(s) == s
\* IfQues keeps the results of its three pops until the expression is made.
pop_later(s) == [s EXCEPT !.expr_stack = IF @ = <<>> THEN @ ELSE Tail(@)]

decompile_IfQues(s, label) ==
    LET jumped == Try(Try(decompile_statements_up_to(pop_later(s), label), next),
                      LAMBDA t : IF opcode(t)[1] # "Jump" THEN Malformed(t) ELSE t)
        other  == Try(jumped, LAMBDA t :
                      decompile_statements_until(pop_later(t), opcode(t)[2]))
    IN  Try(other, LAMBDA t :
            IF s.expr_stack = <<>> \/ jumped.expr_stack = <<>> \/ t.expr_stack = <<>>
            THEN Malformed(t)
            ELSE push_expr(pop_later(t), <<"Cond", Head(s.expr_stack),
                                           Head(jumped.expr_stack), Head(t.expr_stack)>>))

-----------------------------------------------------------------------------
decompile(s0) ==
    Try(next(s0), LAMBDA s :
        LET op == opcode(s)
            p1 == Popped(s, 1)[1]
        IN  CASE op[1] = "If" -> decompile_If(s, op[2])
              [] op[1] = "Eif" -> decompile_Eif(s, op[2])
              [] op[1] = "ForList" -> decompile_ForList(s, op[2], op[3])
              [] op[1] = "ForRange" -> decompile_ForRange(s, op[2], op[3])
              [] op[1] = "While" -> decompile_While(s, None, op[2])
              [] op[1] = "WhileId" -> decompile_While(s, op[2], op[3])
              [] op[1] = "Exit" -> decompile_Exit(s, op[2], FALSE)
              [] op[1] = "ExitId" -> decompile_Exit(s, op[2], TRUE)
              [] op[1] = "Pop" ->
                    Try(pop_expr(s, 1), LAMBDA t : push_stmt(t, <<"Expr", p1>>))
              [] op[1] = "Return" ->
                    Try(pop_expr(s, 1), LAMBDA t : push_stmt(t, <<"Return", p1>>))
              [] op[1] = "Return0" -> push_stmt(s, <<"Return", None>>)
              [] op[1] = "Done" ->
                    IF s.position # Len(ops) THEN Malformed(s) ELSE s
              [] op[1] \in {"And", "Or"} -> decompile_AndOr(s, op)
              [] op[1] \in {"PutTemp", "PushLabel"} -> s
              [] op[1] = "Scatter" -> decompile_Scatter(s, op[2])
              [] op[1] = "TryExcept" -> decompile_TryExcept(s, op[2])
              [] op[1] = "TryFinally" -> decompile_TryFinally(s)
              [] op[1] = "Catch" -> decompile_Catch(s, op[2])
              [] op[1] = "IfQues" -> decompile_IfQues(s, op[2])
              [] op[1] \in {"Fork", "Jump", "PushTemp", "EndCatch", "Continue",
                            "EndExcept", "EndFinally"} -> Err(s, Panic)
              [] OTHER -> decompile_expr(s, op))

-----------------------------------------------------------------------------
(* program_to_tree: decompile() until the position is the end.             *)

Given(inputs, as_compiled) ==
    \E c \in inputs : source = c.source /\ program = c.program /\ intact = as_compiled

Init ==
    /\ Given(Compiled, TRUE) \/ Given(Damaged, FALSE)
    /\ position = 0
    /\ expr_stack = <<>>
    /\ statements = <<>>
    /\ answer = None

Decompiling ==
    [position |-> position, expr_stack |-> expr_stack, statements |-> statements,
     result |-> Ok, taken |-> <<>>]

\* One turn of the loop, or the error it returns.
Step ==
    /\ answer = None
    /\ position < Len(ops)
    /\ LET s == decompile(Decompiling)
       IN  /\ position' = s.position
           /\ expr_stack' = s.expr_stack
           /\ statements' = s.statements
           /\ answer' = IF s.result = Ok THEN None ELSE s.result
    /\ UNCHANGED <<source, program, intact>>

\* Ok(Parse { stmts, names }).
Return ==
    /\ answer = None
    /\ position >= Len(ops)
    /\ answer' = "Parse"
    /\ UNCHANGED <<source, program, intact, position, expr_stack, statements>>

Next == Step \/ Return

Spec == Init /\ [][Next]_vars

-----------------------------------------------------------------------------
ExprKinds ==
    {"VarExpr", "Id", "Assign", "And", "Or", "Unary", "Binary", "Prop", "Index", "Range",
     "Length", "List", "Pass", "Call", "Verb", "Scatter", "Cond", "Catch"}
StmtKinds ==
    {"Cond", "ForList", "ForRange", "While", "Break", "Continue", "Expr", "Return",
     "TryExcept", "TryFinally"}

\* The decompiler stays inside the program, what waits on its stack are
\* expressions and what it has decompiled are statements, and
\* program_to_tree answers with a tree, an error or a panic.
TypeOK ==
    /\ position \in 0..Len(ops)
    /\ \A i \in DOMAIN expr_stack : expr_stack[i][1] \in ExprKinds
    /\ \A i \in DOMAIN statements : statements[i][1] \in StmtKinds
    /\ answer \in {None, "Parse", Panic} \cup DecompileError
    /\ intact \in BOOLEAN

\* program_to_tree gives back the statements a program was compiled from:
\* it never fails or panics on a compiled program, what it has decompiled so
\* far are the first statements of the source, and the tree it returns is
\* the source.  (Every scan of decompile() for the end of a branch, a loop or
\* an except arm, the rewind after a try, and the order in which every
\* opcode pops its operands are behind this.)
DecompileInvertsCompile ==
    intact =>
        /\ answer \in {None, "Parse"}
        /\ IsPrefix(statements, source)
        /\ answer = "Parse" => statements = source

\* A program that was cut short or lost a label is refused with a
\* DecompileError when a scan of decompile() needs what is missing (next() at
\* the end of the program, find_jump(), the scan for a closing opcode):
\* program_to_tree does not panic on it, and what it has decompiled or
\* returns without an error are the first statements of the source, never a
\* statement made of the part of a body that was left.
DamagedProgramYieldsPrefix ==
    ~intact =>
        /\ answer # Panic
        /\ answer \in {None, "Parse"} => IsPrefix(statements, source)

\* An expression is used by the statement it was compiled for: whenever a
\* turn of program_to_tree's loop adds a statement of a compiled program,
\* nothing is left on expr_stack (pop_expr and push_expr in decompile() are
\* balanced over every statement, nested scans included), and nothing is
\* left when the tree is returned.
ExpressionsEndWithTheirStatement ==
    [][intact => /\ statements' # statements => expr_stack' = <<>>
                 /\ answer' = "Parse" => expr_stack = <<>>]_vars

=============================================================================
