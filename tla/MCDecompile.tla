---------------------------- MODULE MCDecompile ----------------------------
(***************************************************************************)
(* Decompile for TLC: the programs.  The compiler is not among the sources *)
(* of this repository, so a program is laid out the way decompile.rs reads *)
(* it and its comments describe it (the lines named below); the trees are  *)
(* those of its tests, and their nestings.                                 *)
(***************************************************************************)
EXTENDS Decompile, TLC

Literals == << <<"Err", "E_PERM">>, <<"Str", "y">> >>
BuiltinNames == 0 :> "setadd"

(* The layout of a tree is a sequence of parts: an opcode, an opcode that  *)
(* carries a label of this tree, the place where a label is committed, and *)
(* the layouts of the trees inside it.                                     *)
Op(o)             == <<"op", o>>
To(o, role)       == <<"to", o, <<role, 0>>>>
At(role, name)    == <<"at", <<role, 0>>, name>>
Sub(tree)         == <<"sub", tree>>
Block(stmts)      == <<"sub", <<"Block", stmts>>>>
Body(name, stmts) == <<"body", name, stmts>>
Each(s, layout(_)) == FlattenSeq([i \in DOMAIN s |-> layout(i)])

\* A list: MkEmptyList, or the first element made a list and the others
\* added to it (lines 490-510).
Args(args) ==
    LET add(i) == CASE i = 1 /\ args[i][1] = "Normal" -> "MakeSingletonList"
                    [] i = 1 /\ args[i][1] = "Splice" -> "CheckListForSplice"
                    [] i > 1 /\ args[i][1] = "Normal" -> "ListAddTail"
                    [] i > 1 /\ args[i][1] = "Splice" -> "ListAppend"
    IN  IF args = <<>> THEN <<Op(<<"MkEmptyList">>)>>
        ELSE Each(args, LAMBDA i : <<Sub(args[i][2]), Op(<<add(i)>>)>>)

\* The codes of a catch or of an except arm: a value for ANY, or a list
\* (lines 569-571).
Codes(codes) ==
    IF codes = <<"Any">> THEN <<Op(<<"Val", <<"Int", 0>>>>)>> ELSE Args(codes[2])

\* An assignment (lines 354, 423-459, 736): to an indexed variable the value
\* is kept in the temporary, stored, and pushed again after the Put.
Assignment(left, right) ==
    LET stored == <<Op(<<"Put", left[2][2]>>), Op(<<"Pop">>), Op(<<"PushTemp">>)>>
    IN  CASE left[1] = "Id" -> <<Sub(right), Op(<<"Put", left[2]>>)>>
          [] left[1] = "Prop" ->
                <<Sub(left[2]), Sub(left[3]), Sub(right), Op(<<"PutProp">>)>>
          [] left[1] = "Index" ->
                <<Sub(left[2]), Sub(left[3]), Sub(right),
                  Op(<<"PutTemp">>), Op(<<"IndexSet">>)>> \o stored
          [] left[1] = "Range" ->
                <<Sub(left[2]), Sub(left[3]), Sub(left[4]), Sub(right),
                  Op(<<"PutTemp">>), Op(<<"RangeSet">>)>> \o stored

ExprLayout(e) ==
    CASE e[1] = "VarExpr" ->
            IF e[2][1] = "Int" THEN <<Op(<<"Val", e[2]>>)>>
            ELSE <<Op(<<"Imm", (CHOOSE i \in DOMAIN Literals : Literals[i] = e[2]) - 1>>)>>
      [] e[1] = "Id" -> <<Op(<<"Push", e[2]>>)>>
      [] e[1] = "Assign" -> Assignment(e[2], e[3])
      \* a && b: a, And(end), b, end: (lines 361-366)
      [] e[1] \in {"And", "Or"} -> <<Sub(e[2]), To(<<e[1]>>, "end"), Sub(e[3]), At("end", None)>>
      [] e[1] = "Unary" -> <<Sub(e[3]), Op(<<IF e[2] = "Neg" THEN "UnaryMinus" ELSE "Not">>)>>
      [] e[1] = "Binary" -> <<Sub(e[3]), Sub(e[4]), Op(<<e[2]>>)>>
      [] e[1] = "Prop" -> <<Sub(e[2]), Sub(e[3]), Op(<<"GetProp">>)>>
      [] e[1] = "Index" -> <<Sub(e[2]), Sub(e[3]), Op(<<"Ref">>)>>
      [] e[1] = "Range" -> <<Sub(e[2]), Sub(e[3]), Sub(e[4]), Op(<<"RangeRef">>)>>
      [] e[1] = "Length" -> <<Op(<<"Length">>)>>
      [] e[1] = "List" -> Args(e[2])
      [] e[1] = "Pass" -> Args(e[2]) \o <<Op(<<"Pass">>)>>
      [] e[1] = "Call" ->
            Args(e[3]) \o <<Op(<<"FuncCall", CHOOSE id \in DOMAIN BuiltinNames :
                                                 BuiltinNames[id] = e[2]>>)>>
      [] e[1] = "Verb" -> <<Sub(e[2]), Sub(e[3])>> \o Args(e[4]) \o <<Op(<<"CallVerb">>)>>
      [] e[1] = "Scatter" ->
            <<Sub(e[3]),
              Op(<<"Scatter", [i \in DOMAIN e[2] |-> <<e[2][i][1], e[2][i][2], None>>]>>)>>
      \* c ? a | b: c, IfQues(else), a, Jump(end), else: b, end: (lines 701-712)
      [] e[1] = "Cond" ->
            <<Sub(e[2]), To(<<"IfQues">>, "else"), Sub(e[3]), To(<<"Jump">>, "end"),
              At("else", None), Sub(e[4]), At("end", None)>>
      \* `e ! codes => x': codes, PushLabel(handler), Catch(handler), e,
      \* EndCatch(end), handler: Pop, x (or Val(1), Ref), end: (lines 647-681)
      [] e[1] = "Catch" ->
            Codes(e[3])
            \o <<To(<<"PushLabel">>, "handler"), To(<<"Catch">>, "handler"), Sub(e[2]),
                 To(<<"EndCatch">>, "end"), At("handler", None)>>
            \o (IF e[4] = None THEN <<Op(<<"Val", <<"Int", 1>>>>), Op(<<"Ref">>)>>
                ELSE <<Op(<<"Pop">>), Sub(e[4])>>)
            \o <<At("end", None)>>

\* break and continue leave the innermost loop, or the loop of that name
\* (lines 297-322).
Exit(s, loops) ==
    LET loop == IF s[2] = None THEN Last(loops)
                ELSE Last(SelectSeq(loops, LAMBDA l : l.name = s[2]))
    IN  <<IF s[2] = None THEN "Exit" ELSE "ExitId",
          IF s[1] = "Break" THEN loop.end ELSE loop.start>>

\* An if (lines 167-222): for every arm the condition, If or Eif with the
\* label of what follows the arm, the arm and a jump to the end.
CondLayout(arms, otherwise) ==
    Each(arms, LAMBDA i :
        <<Sub(arms[i][1]), <<"to", <<IF i = 1 THEN "If" ELSE "Eif">>, <<"else", i>>>>,
          Block(arms[i][2]), To(<<"Jump">>, "end"), <<"at", <<"else", i>>, None>> >>)
    \o <<Block(otherwise), At("end", None)>>

\* A try (lines 565-625): the codes of every arm with the label of its
\* handler pushed, the body, and for every arm Put (when it names a
\* variable), Pop, its statements and, after every arm but the last, a jump
\* to the end.
TryExceptLayout(body, excepts) ==
    Each(excepts, LAMBDA i :
        Codes(excepts[i][2]) \o << <<"to", <<"PushLabel">>, <<"handler", i>>>> >>)
    \o <<Op(<<"TryExcept", Len(excepts)>>), Block(body), To(<<"EndExcept">>, "end")>>
    \o Each(excepts, LAMBDA i :
        << <<"at", <<"handler", i>>, None>> >>
        \o (IF excepts[i][1] = None THEN <<>> ELSE <<Op(<<"Put", excepts[i][1]>>)>>)
        \o <<Op(<<"Pop">>), Block(excepts[i][3])>>
        \o (IF i < Len(excepts) THEN <<To(<<"Jump">>, "end")>> ELSE <<>>))
    \o <<At("end", None)>>

\* A loop (lines 223-296): what it evaluates, its opcode with the label of
\* its end, the body and the jump back; a while continues at its condition
\* and a for at its opcode.
StmtLayout(s, loops) ==
    CASE s[1] = "Block" -> [i \in DOMAIN s[2] |-> Sub(s[2][i])]
      [] s[1] = "Expr" -> <<Sub(s[2]), Op(<<"Pop">>)>>
      [] s[1] = "Return" ->
            IF s[2] = None THEN <<Op(<<"Return0">>)>> ELSE <<Sub(s[2]), Op(<<"Return">>)>>
      [] s[1] \in {"Break", "Continue"} -> <<Op(Exit(s, loops))>>
      [] s[1] = "Cond" -> CondLayout(s[2], s[3])
      [] s[1] = "While" ->
            <<At("start", s[2]), Sub(s[3]),
              To(IF s[2] = None THEN <<"While">> ELSE <<"WhileId", s[2]>>, "end"),
              Body(s[2], s[4]), To(<<"Jump">>, "start"), At("end", s[2])>>
      [] s[1] = "ForList" ->
            <<Sub(s[3]), Op(<<"Val", <<"Int", 0>>>>), At("start", s[2]),
              To(<<"ForList", s[2]>>, "end"), Body(s[2], s[4]),
              To(<<"Jump">>, "start"), At("end", s[2])>>
      [] s[1] = "ForRange" ->
            <<Sub(s[3]), Sub(s[4]), At("start", s[2]),
              To(<<"ForRange", s[2]>>, "end"), Body(s[2], s[5]),
              To(<<"Jump">>, "start"), At("end", s[2])>>
      [] s[1] = "TryExcept" -> TryExceptLayout(s[2], s[3])
      \* try body finally handler (lines 638-643)
      [] s[1] = "TryFinally" ->
            <<To(<<"TryFinally">>, "handler"), Block(s[2]), Op(<<"EndFinally">>),
              At("handler", None), Block(s[3]), Op(<<"Continue">>)>>

\* Expr::Cond has four fields, StmtNode::Cond three.
Layout(tree, loops) ==
    IF tree[1] \in StmtKinds \cup {"Block"} /\ ~(tree[1] = "Cond" /\ Len(tree) = 4)
    THEN StmtLayout(tree, loops) ELSE ExprLayout(tree)

\* The code of a tree: its parts in order, the trees inside it laid out in
\* their place.  A label is named after the place of its tree in the program
\* and its role there; where it is committed a mark is left in the code.
RECURSIVE code(_, _, _)
code(tree, loops, path) ==
    LET parts == Layout(tree, loops)
        label(role) == <<path, role>>
        loop(name) == [name |-> name, start |-> label(<<"start", 0>>),
                       end |-> label(<<"end", 0>>)]
        emit(i) ==
            LET part == parts[i]
            IN  CASE part[1] = "op" -> <<part[2]>>
                  [] part[1] = "to" -> <<Append(part[2], label(part[3]))>>
                  [] part[1] = "at" -> << <<"at", label(part[2]), part[3]>> >>
                  [] part[1] = "sub" -> code(part[2], loops, Append(path, i))
                  [] part[1] = "body" ->
                        code(<<"Block", part[3]>>, Append(loops, loop(part[2])),
                             Append(path, i))
    IN  FlattenSeq([i \in DOMAIN parts |-> emit(i)])

\* A program ends with Done (lines 340-343); a label stands for the position
\* of the opcode that follows its mark.
compile(stmts) ==
    LET laid == Append(code(<<"Block", stmts>>, <<>>, <<>>), <<"Done">>)
        IsOp(o) == o[1] # "at"
        marks == {k \in DOMAIN laid : ~IsOp(laid[k])}
        target(k) == [position |-> Len(SelectSeq(SubSeq(laid, 1, k), IsOp)),
                    name |-> laid[k][3]]
    IN  [main_vector |-> SelectSeq(laid, IsOp),
         jump_labels |-> [id \in {laid[k][2] : k \in marks} |->
                             target(CHOOSE k \in marks : laid[k][2] = id)],
         literals |-> Literals]

-----------------------------------------------------------------------------
(* The trees, after the tests of decompile.rs (lines 783-1074).            *)

one == <<"VarExpr", <<"Int", 1>>>>
two == <<"VarExpr", <<"Int", 2>>>>
x   == <<"Id", "x">>
x_is_one == <<"Expr", <<"Assign", x, one>>>>

y   == <<"VarExpr", <<"Str", "y">>>>
e_perm == <<"VarExpr", <<"Err", "E_PERM">>>>
normal(es) == [i \in DOMAIN es |-> <<"Normal", es[i]>>]
Catches == {<<"Any">>, <<"Codes", normal(<<e_perm>>)>>, <<"Codes", normal(<<e_perm, x>>)>>}

\* An expression of every kind, over the operands a and b.
Over(a, b) ==
    {<<"Unary", "Neg", a>>, <<"Unary", "Not", a>>, <<"Binary", "Sub", a, b>>,
     <<"Binary", "In", a, b>>, <<"And", a, b>>, <<"Or", a, b>>, <<"Prop", a, b>>,
     <<"Index", a, b>>, <<"Index", a, <<"Length">>>>, <<"Range", a, b, two>>,
     <<"List", <<>> >>, <<"List", normal(<<a>>)>>, <<"List", normal(<<a, b>>)>>,
     <<"List", << <<"Splice", a>>, <<"Normal", b>> >> >>,
     <<"List", << <<"Normal", a>>, <<"Splice", b>> >> >>,
     <<"Pass", normal(<<a>>)>>, <<"Call", "setadd", normal(<<a, b>>)>>,
     <<"Verb", a, y, normal(<<b>>)>>, <<"Verb", a, b, <<>> >>,
     <<"Cond", a, b, two>>, <<"Cond", two, a, b>>,
     <<"Assign", x, a>>, <<"Assign", <<"Prop", a, y>>, b>>,
     <<"Assign", <<"Index", x, a>>, b>>, <<"Assign", <<"Range", x, a, two>>, b>>,
     <<"Scatter", << <<"Required", "a", None>>, <<"Optional", "c", None>>,
                     <<"Rest", "d", None>> >>, a>>}
    \cup {<<"Catch", a, c, None>> : c \in Catches} \cup {<<"Catch", a, c, b>> : c \in Catches}

\* The expressions that scan (&&, ||, ?|, catch) or skip (the indexed
\* assignments) are nested once more than the others.
Scanning(es) ==
    {e \in es : \/ e[1] \in {"And", "Or", "Cond", "Catch"}
                \/ e[1] = "Assign" /\ e[2][1] \in {"Index", "Range"}}
Nested(es) == UNION {Over(a, x) \cup Over(x, a) : a \in es}

Atoms  == {one, x, y, e_perm}
Exprs1 == Over(one, x)
Exprs2 == Nested(Exprs1)
MCExprs == Atoms \cup Exprs1 \cup Exprs2

\* The statements that can stand where a loop of each of the names encloses
\* them (None: any loop).
Leaves(names) ==
    {<<"Return", None>>, x_is_one}
    \cup {<<kind, n>> : kind \in {"Break", "Continue"}, n \in names}

\* Every statement that has bodies, with `inner` in one of them and `fixed`
\* in the others; `inner` is a function of the names of the loops around it.
Around(inner(_), names) ==
    LET fixed == <<x_is_one>>
        arm(b) == <<one, b>>
        bozo == names \cup {None, "bozo"}
        any  == names \cup {None}
    IN  UNION {{<<"Cond", <<arm(b)>>, <<>> >>, <<"Cond", <<arm(b)>>, fixed>>,
                <<"Cond", <<arm(fixed)>>, b>>, <<"Cond", <<arm(b), arm(fixed)>>, <<>> >>,
                <<"Cond", <<arm(fixed), arm(b)>>, <<>> >>,
                <<"Cond", <<arm(fixed), arm(fixed)>>, b>>,
                <<"TryExcept", b, << <<None, <<"Any">>, fixed>> >> >>,
                <<"TryExcept", fixed, << <<None, <<"Any">>, b>> >> >>,
                <<"TryExcept", fixed, << <<"a", <<"Codes", normal(<<e_perm>>)>>, b>>,
                                         <<None, <<"Any">>, fixed>> >> >>,
                <<"TryExcept", fixed, << <<"a", <<"Codes", normal(<<e_perm>>)>>, fixed>>,
                                         <<"b", <<"Codes", normal(<<x, e_perm>>)>>, b>> >> >>,
                <<"TryFinally", b, fixed>>, <<"TryFinally", fixed, b>>} : b \in inner(names)}
        \cup {<<"While", None, one, b>> : b \in inner(any)}
        \cup {<<"While", "bozo", one, b>> : b \in inner(bozo)}
        \cup {<<"ForList", "x", x, b>> : b \in inner(any)}
        \cup {<<"ForRange", "x", one, two, b>> : b \in inner(any)}

Bodies0(names) == {<<>>} \cup {<<s>> : s \in Leaves(names)}
Around1(names) == Around(Bodies0, names)
Bodies1(names) ==
    UNION {{<<s>>, <<s, x_is_one>>, <<x_is_one, s>>} : s \in Around1(names)}
Around2(names) == Around(Bodies1, names)
Bodies2(names) == {<<s>> : s \in Around2(names)}
\* Three deep: the last arm of a try and a loop around those.
Around3 ==
    {<<"TryExcept", <<x_is_one>>, << <<None, <<"Any">>, b>> >> >> : b \in Bodies2({})}
    \cup {<<"While", None, one, b>> : b \in Bodies2({None})}
Bodies3 == {<<s>> : s \in Around3}

\* An expression as a statement and as the condition of an if; the simpler
\* ones also returned and as the condition of a loop.
Uses(e) ==
    { << <<"Expr", e>> >>, << <<"Cond", << <<e, <<x_is_one>> >> >>, <<>> >> >> }
MoreUses(e) ==
    { << <<"Return", e>>, x_is_one >>, << <<"While", None, e, <<x_is_one>> >> >> }

MCSources ==
    Bodies0({}) \cup Bodies1({}) \cup Bodies2({}) \cup Bodies3
    \cup UNION {Uses(e) : e \in MCExprs} \cup UNION {MoreUses(e) : e \in Atoms \cup Exprs1}

MCCompiled == {[source |-> s, program |-> compile(s)] : s \in MCSources}

\* The damage: a program cut after any of its opcodes, and a program that
\* lost one of its labels.
Cut(whole, n) == [whole EXCEPT !.main_vector = SubSeq(@, 1, n)]
Unlabel(whole, l) == [whole EXCEPT !.jump_labels = [m \in DOMAIN @ \ {l} |-> @[m]]]
Damages(whole) ==
    {Cut(whole, n) : n \in 1..Len(whole.main_vector) - 1}
    \cup {Unlabel(whole, l) : l \in DOMAIN whole.jump_labels}

MCDamagedSources ==
    Bodies0({}) \cup Bodies1({}) \cup UNION {Uses(e) : e \in Exprs1}
MCDamaged ==
    UNION {{[source |-> s, program |-> d] : d \in Damages(compile(s))} : s \in MCDamagedSources}

=============================================================================
