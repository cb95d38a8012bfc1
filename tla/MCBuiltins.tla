----------------------------- MODULE MCBuiltins -----------------------------
(***************************************************************************)
(* Builtins for TLC: the world the tasks run in and the arguments they     *)
(* pass.                                                                   *)
(***************************************************************************)
EXTENDS Builtins, TLC

\* #0 is a wizard, #1 a player; #2 does not exist.
MCObjs == 0 .. 2
MCFlagsOf == 0 :> {"Wizard", "User"} @@ 1 :> {"User"}

\* #0 has two verbs that share a name, the second the player's own.
Verb(owner, flags, names) ==
    [owner |-> owner, flags |-> flags, names |-> names, args |-> <<"this", "none", "this">>]

MCInitialVerbs ==
    0 :> << Verb(0, {"Read", "Exec", "Debug"}, << <<"look">>, <<"l">> >>),
            Verb(1, {"Read"}, << <<"l">>, <<"list">> >>) >>
    @@ 1 :> <<>>

\* A list for set_verb_info, one whose letters are no flags, and one for
\* set_verb_args.
Info == v_list(<<v_objid(1), v_string(<<"r", "w">>), v_string(<<"get", " ", "l">>)>>)
BadInfo == v_list(<<v_objid(1), v_string(<<"r", "q">>), v_string(<<"get">>)>>)
Spec3 == v_list(<<v_string(<<"any">>), v_string(<<"with">>), v_string(<<"any">>)>>)

\* No argument; an object, a number, a string or an error; the pairs of
\* notify, verb_info and resume; the triples of set_verb_info and
\* set_verb_args.
MCArgChoices ==
    {<<>>, <<v_string(<<"look">>)>>, <<v_err("E_PERM")>>}
    \cup {<<v_objid(o)>> : o \in MCObjs}
    \cup {<<v_int(i)>> : i \in {-1, 1, 2}}
    \cup {<<v_objid(o), v_string(<<"l">>)>> : o \in {0, 2}}
    \cup {<<v_objid(0), v_int(i)>> : i \in {0, 2}}
    \cup {<<v_int(i), v_none>> : i \in 1 .. 2}
    \cup {<<v_objid(0), d, l>> : d \in {v_int(2), v_string(<<"look">>)},
                                 l \in {Info, BadInfo, Spec3}}
=============================================================================
