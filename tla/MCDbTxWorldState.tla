-------------------------- MODULE MCDbTxWorldState --------------------------
(***************************************************************************)
(* DbTxWorldState for TLC: the values callers pass.                        *)
(***************************************************************************)
EXTENDS DbTxWorldState

\* The attribute record with these attributes given and the others absent.
Attrs(owner, flags) == [owner |-> owner, flags |-> flags, name |-> None]

\* For the pass run, which has three objects: wizards and plain objects (the
\* other flags are set by writing the properties r, w and f); properties
\* nobody or everybody else may read and write; the two integers the flags
\* tell apart; one verb, whose owner set_verb_info may change.
WorldObjFlags == {{}, {"Wizard"}}
WorldValues == {v_int(0), v_int(1)}
WorldVerbFlags == {{"Write"}}
WorldArgs == {<<"This", "None">>}
WorldVerbAttrs == {Attrs(1, {})}

\* For the runs with two objects: plain objects, wizards, and objects anyone
\* may write and derive from; a value of each variant and the two integers
\* the flags tell apart; attributes that change the flags alone or the owner
\* alone.
MCObjFlags == {{}, {"Wizard"}, {"Write", "Fertile"}}
MCPropFlags == {{}, {"Read", "Write"}}
MCVerbFlags == {{}, {"Write"}}
MCArgs == {<<"This", "None">>, <<"Any", "Any">>}
MCValues == {v_int(0), v_int(1), v_str(CHOOSE s \in Names : TRUE), v_objid(0)}
MCPropAttrs == {Attrs(None, {}), Attrs(1, None)}
MCVerbAttrs == {Attrs(None, {"Write"}), Attrs(1, {})}
\* A fresh database.
Fresh == [rel |-> Empty, max_object |-> -1, calls |-> 0]

\* The database three calls leave: object 0, its child 1, and a property that
\* 0 defines and 1 inherits.
Family ==
    LET root == create_object(Empty, 0, NOTHING, NOTHING, {})
        pair == create_object(root, 1, 0, NOTHING, {})
        u == CHOOSE x \in Uuids : TRUE
        p == CHOOSE x \in PropNames : TRUE
    IN  [rel |-> define_property(pair, u, 0, 0, p, 0, {}, None),
         max_object |-> 1, calls |-> 1]

FreshOnly == {Fresh}
WorldSeeds == {Fresh, Family}
=============================================================================
