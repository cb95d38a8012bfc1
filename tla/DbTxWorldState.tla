--------------------------- MODULE DbTxWorldState ---------------------------
(***************************************************************************)
(* The world-state facade of crates/db/src/db_worldstate.rs: one           *)
(* transaction's view of the objects, their hierarchy, their containment,  *)
(* their properties and their verbs, and the calls that query and change   *)
(* it after checking the caller's permissions.                             *)
(*                                                                         *)
(* Every call of the facade is an operator that gives the call's error     *)
(* (in the order the code meets them) and, for a call that changes the     *)
(* world, an action that is enabled when there is none.  What a call       *)
(* answers or changes on the transaction is written as an operator over    *)
(* the relations, named after the DbTransaction method (db_tx.rs); the     *)
(* bodies of those methods are not part of the sources at hand and follow  *)
(* the specification document.  The Perms checks do likewise.              *)
(*                                                                         *)
(* How transactions interleave, commit and roll back is the subject of     *)
(* WorldStateDB; this module follows the calls of one transaction.         *)
(***************************************************************************)
EXTENDS Integers, Sequences, FiniteSets, SequencesExt

CONSTANTS
    MaxObjects,   \* bound: object ids are 0 .. MaxObjects - 1
    InitialWorlds, \* the databases a transaction may open on
    NOTHING,      \* the null object id
    Names,        \* object names (an object that was given none has None)
    PropNames,    \* names of defined properties
    Uuids,        \* identifiers of property definitions
    VerbNames,    \* names of verbs
    VerbUuids,    \* identifiers of verbs
    None,         \* Option::None: no definition, no value, attribute not given
    ObjFlagChoices,   \* the flag sets callers pass for objects,
    PropFlagChoices,  \*   for properties
    VerbFlagChoices,  \*   and for verbs
    Values,       \* the values callers write: a subset of Vars
    ArgChoices,   \* the <<dobj, iobj>> argument specifications of new verbs
    PropAttrChoices,  \* the attribute records callers pass to set_property_info
    VerbAttrChoices,  \*   and to update_verb
    MaxCalls      \* bound: the number of calls that change the world

Objs == 0 .. MaxObjects - 1
Objids == Objs \cup {NOTHING}

ObjFlag  == {"User", "Programmer", "Wizard", "Read", "Write", "Fertile"}
PropFlag == {"Read", "Write", "Chown"}
VerbFlag == {"Read", "Write", "Exec", "Debug"}
ArgSpec  == {"None", "Any", "This"}

\* Var, as far as the facade tells values apart: by variant.
v_int(i)   == [type |-> "Int", val |-> i]
v_objid(o) == [type |-> "Obj", val |-> o]
v_str(s)   == [type |-> "Str", val |-> s]
v_list(S)  == [type |-> "List", val |-> S]
Vars == {v_int(i) : i \in 0 .. 2} \cup {v_objid(o) : o \in Objids}
            \cup {v_str(s) : s \in Names}

\* PropAttrs and VerbAttrs: every attribute is optional.
PropAttrs == [owner : Objids \cup {None}, flags : (SUBSET PropFlag) \cup {None},
              name : PropNames \cup {None}]
VerbAttrs == [owner : Objids \cup {None}, flags : (SUBSET VerbFlag) \cup {None},
              name : VerbNames \cup {None}]

PseudoNames == {"name", "owner", "location", "contents", "parent", "children",
                "programmer", "wizard", "r", "w", "f"}

ASSUME /\ MaxObjects \in Nat
       /\ PropNames \cap PseudoNames = {}
       /\ None \notin Vars
       /\ Values \subseteq Vars
       /\ ObjFlagChoices \subseteq SUBSET ObjFlag
       /\ PropFlagChoices \subseteq SUBSET PropFlag
       /\ VerbFlagChoices \subseteq SUBSET VerbFlag
       /\ ArgChoices \subseteq ArgSpec \X ArgSpec
       /\ PropAttrChoices \subseteq PropAttrs
       /\ VerbAttrChoices \subseteq VerbAttrs
       /\ MaxCalls \in Nat

VARIABLES
    rel,          \* the relations as this transaction sees them
    max_object,   \* sequence 0: the largest object id handed out
    calls         \* how many calls have changed the world

vars == <<rel, max_object, calls>>

PropDef == [definer : Objs, name : PropNames, owner : Objids,
            flags : SUBSET PropFlag]
VerbDef == [location : Objs, name : VerbNames, owner : Objids,
            flags : SUBSET VerbFlag, dobj : ArgSpec, iobj : ArgSpec]

\* One field per relation.  The relations keyed by object are total here; an
\* object without entries is one that is not in `objects`.
Relations ==
    [objects   : SUBSET Objs,
     flags     : [Objs -> SUBSET ObjFlag],
     owner     : [Objs -> Objids],
     name      : [Objs -> Names \cup {None}],
     parent    : [Objs -> Objids],
     children  : [Objs -> SUBSET Objs],
     location  : [Objs -> Objids],
     contents  : [Objs -> SUBSET Objs],
     propdefs  : [Objs -> SUBSET Uuids],
     prop      : [Uuids -> PropDef \cup {None}],
     propvalues: [Objs -> [Uuids -> Vars \cup {None}]],
     verbdefs  : [Objs -> Seq(VerbUuids)],
     verb      : [VerbUuids -> VerbDef \cup {None}]]

NoObject(w, o) ==
    [w EXCEPT !.objects = @ \ {o}, !.flags[o] = {}, !.owner[o] = NOTHING,
              !.name[o] = None, !.parent[o] = NOTHING, !.children[o] = {},
              !.location[o] = NOTHING, !.contents[o] = {},
              !.propdefs[o] = {}, !.propvalues[o] = [u \in Uuids |-> None],
              !.verbdefs[o] = <<>>]

Empty ==
    [objects |-> {},
     flags |-> [o \in Objs |-> {}], owner |-> [o \in Objs |-> NOTHING],
     name |-> [o \in Objs |-> None], parent |-> [o \in Objs |-> NOTHING],
     children |-> [o \in Objs |-> {}], location |-> [o \in Objs |-> NOTHING],
     contents |-> [o \in Objs |-> {}], propdefs |-> [o \in Objs |-> {}],
     prop |-> [u \in Uuids |-> None],
     propvalues |-> [o \in Objs |-> [u \in Uuids |-> None]],
     verbdefs |-> [o \in Objs |-> <<>>],
     verb |-> [u \in VerbUuids |-> None]]

\* A transaction opens on a database that earlier ones have left.
Init ==
    \E db \in InitialWorlds :
        /\ rel = db.rel
        /\ max_object = db.max_object
        /\ calls = db.calls

Ok == "Ok"

\* The first error a call meets, the checks given in the order of the code.
FirstError(checks) ==
    LET i == SelectInSeq(checks, LAMBDA e : e # Ok)
    IN  IF i = 0 THEN Ok ELSE checks[i]


(***************************************************************************)
(* The transaction the facade calls (trait DbTransaction).                 *)
(***************************************************************************)
RECURSIVE Chain(_, _, _)
Chain(w, o, n) ==
    IF o = NOTHING \/ n = 0 THEN <<>> ELSE <<o>> \o Chain(w, w.parent[o], n - 1)

\* "in order from self to root"
ancestors(w, o) == Chain(w, o, MaxObjects)

descendants(w, o) == {d \in w.objects \ {o} : o \in ToSet(ancestors(w, d))}

Visible(w, o) == IF o = NOTHING THEN {} ELSE w.propdefs[o]

\* Both sides of the containment edge.
set_object_location(w, o, loc) ==
    LET old == w.location[o]
        left == IF old = NOTHING THEN w
                ELSE [w EXCEPT !.contents[old] = @ \ {o}]
        arrived == IF loc = NOTHING THEN left
                   ELSE [left EXCEPT !.contents[loc] = @ \cup {o}]
    IN  [arrived EXCEPT !.location[o] = loc]

\* Both sides of the parent edge, without the properties.
Linked(w, o, np) ==
    LET old == w.parent[o]
        left == IF old = NOTHING THEN w
                ELSE [w EXCEPT !.children[old] = @ \ {o}]
        arrived == IF np = NOTHING THEN left
                   ELSE [left EXCEPT !.children[np] = @ \cup {o}]
    IN  [arrived EXCEPT !.parent[o] = np]

\* The parent edge and the re-inheritance of properties: what the old parent
\* showed and the new one does not is stripped from the object and from all
\* below it, what the new parent shows is inherited, clear.
\* Faulty variant of set_object_parent: the values stored under what is no
\* longer inherited stay behind.
set_object_parent_KeepsValues(w, o, np) ==
    LET lost == Visible(w, w.parent[o]) \ Visible(w, np)
        gained == Visible(w, np) \ Visible(w, w.parent[o])
        moved == {o} \cup descendants(w, o)
    IN  [Linked(w, o, np) EXCEPT
            !.propdefs = [d \in Objs |->
                IF d \in moved THEN (@[d] \ lost) \cup gained ELSE @[d]]]

set_object_parent(w, o, np) ==
    LET lost == Visible(w, w.parent[o]) \ Visible(w, np)
        gained == Visible(w, np) \ Visible(w, w.parent[o])
        moved == {o} \cup descendants(w, o)
    IN  [Linked(w, o, np) EXCEPT
            !.propdefs = [d \in Objs |->
                IF d \in moved THEN (@[d] \ lost) \cup gained ELSE @[d]],
            !.propvalues = [d \in Objs |-> [u \in Uuids |->
                IF d \in moved /\ u \in lost THEN None ELSE @[d][u]]]]

set_object_parent_error(w, o, np) ==
    IF np = o \/ np \in descendants(w, o) THEN "RecursiveMove" ELSE Ok

\* The new object inherits, clear, what its parent shows.  An object created
\* without an owner owns itself.
create_object(w, id, parent, owner, flags) ==
    LET born == [w EXCEPT !.objects = @ \cup {id},
                          !.flags[id] = flags,
                          !.owner[id] = IF owner = NOTHING THEN id ELSE owner,
                          !.propdefs[id] = Visible(w, parent)]
    IN  Linked(born, id, parent)

\* Children go to the parent of the recycled object, contents go nowhere, and
\* every entry of the object, of its definitions and of its verbs is deleted.
recycle_object(w, o) ==
    LET own == {u \in Uuids : w.prop[u] # None /\ w.prop[u].definer = o}
        orphaned == FoldSet(LAMBDA c, acc : set_object_parent(acc, c, w.parent[o]),
                            w, w.children[o])
        emptied == FoldSet(LAMBDA x, acc : set_object_location(acc, x, NOTHING),
                           orphaned, w.contents[o])
        unlinked == set_object_location(Linked(emptied, o, NOTHING), o, NOTHING)
        gone == NoObject(unlinked, o)
    IN  [gone EXCEPT
            !.propdefs = [d \in Objs |-> @[d] \ own],
            !.propvalues = [d \in Objs |-> [u \in Uuids |->
                                IF u \in own THEN None ELSE @[d][u]]],
            !.prop = [u \in Uuids |-> IF u \in own THEN None ELSE @[u]],
            !.verb = [u \in VerbUuids |->
                        IF u \in ToSet(w.verbdefs[o]) THEN None ELSE @[u]]]

\* get_properties and find_first_named: the definitions an object shows under
\* a name, and the one the facade works on.
Named(w, o, pname) == {u \in w.propdefs[o] : w.prop[u].name = pname}
Handle(w, o, pname) == CHOOSE u \in Named(w, o, pname) : TRUE

\* The name is looked for where the definition is to be shown; the definer is
\* taken as given.
define_property_error(w, definer, location, pname) ==
    IF Named(w, location, pname) # {} THEN "DuplicatePropertyDefinition" ELSE Ok

\* The definition is recorded on the definer, with the initial value if there
\* is one, and inherited, clear, by all below the location.
define_property(w, u, definer, location, pname, owner, flags, value) ==
    [w EXCEPT
        !.prop[u] = [definer |-> definer, name |-> pname, owner |-> owner,
                     flags |-> flags],
        !.propdefs = [d \in Objs |->
            IF d \in {definer} \cup descendants(w, location)
            THEN @[d] \cup {u} ELSE @[d]],
        !.propvalues[definer][u] = value]

\* Only the definer deletes a definition.
delete_property_error(w, o, u) ==
    IF w.prop[u].definer # o THEN "PropertyNotFound" ELSE Ok

delete_property(w, o, u) ==
    [w EXCEPT !.prop[u] = None,
              !.propdefs = [d \in Objs |-> @[d] \ {u}],
              !.propvalues = [d \in Objs |-> [@[d] EXCEPT ![u] = None]]]

set_property(w, o, u, value) == [w EXCEPT !.propvalues[o][u] = value]

\* The record with the attributes that are given replaced.
Patched(rec, attrs) ==
    [f \in DOMAIN rec |->
        IF f \in DOMAIN attrs /\ attrs[f] # None THEN attrs[f] ELSE rec[f]]

\* The first value on the way from the object to the root; the definer's if
\* there is none.
resolve_property(w, o, pname) ==
    LET u == Handle(w, o, pname)
        chain == ancestors(w, o)
        i == SelectInSeq(chain, LAMBDA a : w.propvalues[a][u] # None)
    IN  IF i # 0 THEN w.propvalues[chain[i]][u]
        ELSE w.propvalues[w.prop[u].definer][u]

\* Verbs are kept in the order of their creation.
add_object_verb(w, vu, o, owner, vname, flags, dobj, iobj) ==
    [w EXCEPT !.verbdefs[o] = Append(@, vu),
              !.verb[vu] = [location |-> o, name |-> vname, owner |-> owner,
                            flags |-> flags, dobj |-> dobj, iobj |-> iobj]]

delete_verb(w, o, vu) ==
    [w EXCEPT !.verbdefs[o] = SelectSeq(@, LAMBDA x : x # vu),
              !.verb[vu] = None]

\* The first verb in `verbs` of that name, and of those arguments if any are
\* asked for; None if there is none.  A name matches if it is equal.
FirstVerb(w, verbs, vname, argspec) ==
    LET Fits(have, want) == have \in {"Any", want}
        i == SelectInSeq(verbs, LAMBDA vu :
                /\ w.verb[vu].name = vname
                /\ argspec # None => /\ Fits(w.verb[vu].dobj, argspec.dobj)
                                     /\ Fits(w.verb[vu].iobj, argspec.iobj))
    IN  IF i = 0 THEN None ELSE verbs[i]

get_verb_by_name(w, o, vname) == FirstVerb(w, w.verbdefs[o], vname, None)

get_verb_by_index(w, o, vidx) ==
    IF vidx + 1 \in DOMAIN w.verbdefs[o] THEN w.verbdefs[o][vidx + 1] ELSE None

find(w, o, vu) == IF vu \in ToSet(w.verbdefs[o]) THEN vu ELSE None

\* The verbs of the object before those of its parent, up to the root.
resolve_verb(w, o, vname, argspec) ==
    LET chain == ancestors(w, o)
    IN  FirstVerb(w, FlattenSeq([i \in DOMAIN chain |-> w.verbdefs[chain[i]]]),
                  vname, argspec)

(***************************************************************************)
(* Perms: what a caller may do (the caller is a wizard, or owns the        *)
(* target, or the target's flags allow it).                                *)
(***************************************************************************)
Wizard(w, who) == "Wizard" \in w.flags[who]

check_object_allows(w, who, owner, flags, required) ==
    IF Wizard(w, who) \/ who = owner \/ required \in flags
    THEN Ok ELSE "ObjectPermissionDenied"

check_property_allows(w, who, ph, required) ==
    IF Wizard(w, who) \/ who = ph.owner \/ required \in ph.flags
    THEN Ok ELSE "PropertyPermissionDenied"

check_verb_allows(w, who, vh, required) ==
    IF Wizard(w, who) \/ who = vh.owner \/ required \in vh.flags
    THEN Ok ELSE "VerbPermissionDenied"

check_wizard(w, who) ==
    IF Wizard(w, who) THEN Ok ELSE "ObjectPermissionDenied"

check_obj_owner_perms(w, who, owner) ==
    IF Wizard(w, who) \/ who = owner THEN Ok ELSE "ObjectPermissionDenied"

(***************************************************************************)
(* The facade: queries.  A query answers <<Ok, value>> or <<error, None>>. *)
(***************************************************************************)
Result(err, val) == <<err, IF err = Ok THEN val ELSE None>>

Found(w, o) == IF o \in w.objects THEN Ok ELSE "ObjectNotFound"

\* flags_of(obj), owner_of(obj), perms(perms), check_object_allows: the
\* opening of most calls.
Guarded(w, perms, obj, required) ==
    <<Found(w, obj), Found(w, perms),
      check_object_allows(w, perms, w.owner[obj], w.flags[obj], required)>>

\* get_properties, find_first_named, perms, check_property_allows.
property_error(w, perms, obj, pname, required) ==
    IF Named(w, obj, pname) = {} THEN "PropertyNotFound"
    ELSE FirstError(<<Found(w, perms),
            check_property_allows(w, perms, w.prop[Handle(w, obj, pname)],
                                  required)>>)

\* A verb handle that was looked up, perms, check_verb_allows.
verb_error(w, perms, vu, required) ==
    IF vu = None THEN "VerbNotFound"
    ELSE FirstError(<<Found(w, perms),
                      check_verb_allows(w, perms, w.verb[vu], required)>>)

players(w) == {o \in w.objects : "User" \in w.flags[o]}
valid(w, obj) == obj \in w.objects
owner_of(w, obj) == Result(Found(w, obj), w.owner[obj])
flags_of(w, obj) == Result(Found(w, obj), w.flags[obj])
location_of(w, obj) == Result(Found(w, obj), w.location[obj])
contents_of(w, obj) == Result(Found(w, obj), w.contents[obj])
parent_of(w, obj) == Result(Found(w, obj), w.parent[obj])

children_of(w, perms, obj) ==
    Result(FirstError(Guarded(w, perms, obj, "Read")), w.children[obj])
verbs(w, perms, obj) ==
    Result(FirstError(Guarded(w, perms, obj, "Read")), w.verbdefs[obj])
properties(w, perms, obj) ==
    Result(FirstError(Guarded(w, perms, obj, "Read")), w.propdefs[obj])

\* The name; the aliases are the value of a property and are left out.
names_of(w, perms, obj) == Result(Found(w, obj), w.name[obj])

\* Wizards only.  The size is that of the encoding, which is not modelled.
object_bytes(w, perms, obj) ==
    FirstError(<<Found(w, perms), check_wizard(w, perms), Found(w, obj)>>)

\* The pseudo-properties that are flags of the object.
FlagOf == [r |-> "Read", w |-> "Write", f |-> "Fertile",
           programmer |-> "Programmer", wizard |-> "Wizard"]

retrieve_property(w, perms, obj, pname) ==
    CASE ~valid(w, obj) -> <<"ObjectNotFound", None>>
      [] pname = "name" -> <<Ok, v_str(names_of(w, perms, obj)[2])>>
      [] pname = "location" -> <<Ok, v_objid(w.location[obj])>>
      [] pname = "contents" -> <<Ok, v_list(w.contents[obj])>>
      [] pname = "owner" -> <<Ok, v_objid(w.owner[obj])>>
      [] pname \in DOMAIN FlagOf ->
            <<Ok, v_int(IF FlagOf[pname] \in w.flags[obj] THEN 1 ELSE 0)>>
      [] OTHER -> Result(property_error(w, perms, obj, pname, "Read"),
                         resolve_property(w, obj, pname))

get_property_info(w, perms, obj, pname) ==
    Result(property_error(w, perms, obj, pname, "Read"),
           w.prop[Handle(w, obj, pname)])

is_property_clear(w, perms, obj, pname) ==
    Result(property_error(w, perms, obj, pname, "Read"),
           w.propvalues[obj][Handle(w, obj, pname)] = None)

get_verb(w, perms, obj, vname) ==
    LET vu == get_verb_by_name(w, obj, vname)
    IN  Result(FirstError(<<Found(w, obj), verb_error(w, perms, vu, "Read")>>), vu)

get_verb_at_index(w, perms, obj, vidx) ==
    LET vu == get_verb_by_index(w, obj, vidx)
    IN  Result(verb_error(w, perms, vu, "Read"), vu)

retrieve_verb(w, perms, obj, uuid) ==
    Result(verb_error(w, perms, find(w, obj, uuid), "Read"), uuid)

find_method_verb_on(w, perms, obj, vname) ==
    LET vu == resolve_verb(w, obj, vname, None)
    IN  Result(verb_error(w, perms, vu, "Read"), vu)

spec_for_fn(oid, pco) ==
    IF pco = oid THEN "This" ELSE IF pco = NOTHING THEN "None" ELSE "Any"

\* No such object and no such verb are the answer None, not errors.
find_command_verb_on(w, perms, obj, command_verb, dobj, iobj) ==
    LET argspec == [dobj |-> spec_for_fn(obj, dobj), iobj |-> spec_for_fn(obj, iobj)]
        vu == resolve_verb(w, obj, command_verb, argspec)
        denied == FirstError(Guarded(w, perms, obj, "Read"))
    IN  IF ~valid(w, obj) THEN <<Ok, None>>
        ELSE IF denied # Ok THEN <<denied, None>>
        ELSE IF vu = None THEN <<Ok, None>>
        ELSE Result(verb_error(w, perms, vu, "Read"), vu)

(***************************************************************************)
(* The facade: mutations.  A call that answers an error changes nothing;   *)
(* the action of a call is enabled when its error is Ok.                   *)
(***************************************************************************)
Changes(w) == rel' = w /\ calls' = calls + 1 /\ UNCHANGED max_object

\* A call that answers `err`, and leaves `w` if that is Ok.
Call(err, w) == err = Ok /\ Changes(w)

SetFlagsOf(perms, obj, new_flags) ==
    /\ calls < MaxCalls
    /\ Call(FirstError(Guarded(rel, perms, obj, "Write")),
            [rel EXCEPT !.flags[obj] = new_flags])

\* Faulty variant of create_object_error: the parent is not looked at.
create_object_error_Unchecked(perms, parent) == Ok

create_object_error(perms, parent) ==
    IF parent = NOTHING THEN Ok
    ELSE FirstError(Guarded(rel, perms, parent, "Read") \o
            <<check_object_allows(rel, perms, rel.owner[parent],
                                  rel.flags[parent], "Fertile")>>)

\* The new object takes the next id of sequence 0.
CreateObject(perms, parent, owner, flags) ==
    /\ calls < MaxCalls
    /\ max_object + 1 \in Objs
    /\ create_object_error(perms, parent) = Ok
    /\ max_object' = max_object + 1
    /\ rel' = create_object(rel, max_object + 1, parent, owner, flags)
    /\ calls' = calls + 1

RecycleObject(perms, obj) ==
    /\ calls < MaxCalls
    /\ Call(FirstError(Guarded(rel, perms, obj, "Write")), recycle_object(rel, obj))

MoveObject(perms, obj, new_loc) ==
    /\ calls < MaxCalls
    /\ Call(FirstError(Guarded(rel, perms, obj, "Write")),
            set_object_location(rel, obj, new_loc))

change_parent_error(perms, obj, new_parent) ==
    FirstError(
        <<IF obj = new_parent THEN "RecursiveMove" ELSE Ok, Found(rel, obj)>> \o
        (IF new_parent = NOTHING THEN <<>>
         ELSE Guarded(rel, perms, new_parent, "Write") \o
              <<check_object_allows(rel, perms, rel.owner[new_parent],
                                    rel.flags[new_parent], "Fertile")>>) \o
        <<Found(rel, perms),
          check_object_allows(rel, perms, rel.owner[obj], rel.flags[obj], "Write"),
          set_object_parent_error(rel, obj, new_parent)>>)

\* Faulty variant of ChangeParent: the refusal of the transaction is ignored.
ChangeParent_IgnoresRefusal(perms, obj, new_parent) ==
    /\ calls < MaxCalls
    /\ obj # new_parent
    /\ new_parent # NOTHING => valid(rel, new_parent)
    /\ Call(FirstError(Guarded(rel, perms, obj, "Write")),
            set_object_parent(rel, obj, new_parent))

ChangeParent(perms, obj, new_parent) ==
    /\ calls < MaxCalls
    /\ Call(change_parent_error(perms, obj, new_parent),
            set_object_parent(rel, obj, new_parent))

\* The variant a pseudo-property must be written with.
Wanted == [name |-> "Str", owner |-> "Obj", r |-> "Int", w |-> "Int", f |-> "Int"]

\* Faulty variant of type_error: the variant of the value is not looked at.
type_error_Unchecked(pname, value) == Ok

type_error(pname, value) ==
    IF value.type = Wanted[pname] THEN Ok ELSE "PropertyTypeMismatch"

update_property_error(perms, obj, pname, value) ==
    CASE pname \in {"location", "contents", "parent", "children"} ->
            "PropertyPermissionDenied"
      [] pname \in DOMAIN Wanted ->
            FirstError(Guarded(rel, perms, obj, "Write") \o <<type_error(pname, value)>>)
      [] pname \in {"programmer", "wizard"} ->
            FirstError(<<Found(rel, perms), check_wizard(rel, perms), Found(rel, obj)>>)
      [] OTHER -> property_error(rel, perms, obj, pname, "Write")

\* Faulty variant of with_flag: the flag is set whatever the value is.
with_flag_NeverClears(flags, flag, v) == flags \cup {flag}

\* `r`, `w` and `f`: 1 sets the flag, any other integer clears it.
with_flag(flags, flag, v) == IF v = 1 THEN flags \cup {flag} ELSE flags \ {flag}

\* Faulty variant of update_property: the value of a defined property is
\* written where the property is defined.
update_property_AtDefiner(obj, pname, value) ==
    CASE pname = "name" -> [rel EXCEPT !.name[obj] = value.val]
      [] pname = "owner" -> [rel EXCEPT !.owner[obj] = value.val]
      [] pname \in {"r", "w", "f"} ->
            [rel EXCEPT !.flags[obj] = with_flag(@, FlagOf[pname], value.val)]
      [] pname \in {"programmer", "wizard"} ->
            [rel EXCEPT !.flags[obj] = @ \cup {FlagOf[pname]}]
      [] OTHER -> set_property(rel, rel.prop[Handle(rel, obj, pname)].definer,
                               Handle(rel, obj, pname), value)

\* What a permitted update_property leaves.  `programmer` and `wizard` set
\* their flag whatever the value is.
update_property(obj, pname, value) ==
    CASE pname = "name" -> [rel EXCEPT !.name[obj] = value.val]
      [] pname = "owner" -> [rel EXCEPT !.owner[obj] = value.val]
      [] pname \in {"r", "w", "f"} ->
            [rel EXCEPT !.flags[obj] = with_flag(@, FlagOf[pname], value.val)]
      [] pname \in {"programmer", "wizard"} ->
            [rel EXCEPT !.flags[obj] = @ \cup {FlagOf[pname]}]
      [] OTHER -> set_property(rel, obj, Handle(rel, obj, pname), value)

UpdateProperty(perms, obj, pname, value) ==
    /\ calls < MaxCalls
    /\ Call(update_property_error(perms, obj, pname, value),
            update_property(obj, pname, value))

SetPropertyInfo(perms, obj, pname, attrs) ==
    /\ calls < MaxCalls
    /\ Call(property_error(rel, perms, obj, pname, "Write"),
            [rel EXCEPT !.prop[Handle(rel, obj, pname)] = Patched(@, attrs)])

ClearProperty(perms, obj, pname) ==
    /\ calls < MaxCalls
    /\ Call(property_error(rel, perms, obj, pname, "Write"),
            set_property(rel, obj, Handle(rel, obj, pname), None))

define_property_facade_error(perms, definer, location, pname, propowner) ==
    FirstError(Guarded(rel, perms, location, "Write") \o
        <<check_obj_owner_perms(rel, perms, propowner),
          define_property_error(rel, definer, location, pname)>>)

\* The permission is checked on `location`; the definition goes to `definer`.
DefineProperty(perms, definer, location, pname, propowner, prop_flags, initial_value) ==
    /\ calls < MaxCalls
    /\ define_property_facade_error(perms, definer, location, pname, propowner) = Ok
    /\ \E u \in Uuids :
          /\ rel.prop[u] = None
          /\ Changes(define_property(rel, u, definer, location, pname, propowner,
                                     prop_flags, initial_value))

DeleteProperty(perms, obj, pname) ==
    /\ calls < MaxCalls
    /\ LET denied == property_error(rel, perms, obj, pname, "Write")
       IN  Call(IF denied # Ok THEN denied
                ELSE delete_property_error(rel, obj, Handle(rel, obj, pname)),
                delete_property(rel, obj, Handle(rel, obj, pname)))

AddVerb(perms, obj, vname, owner, flags, dobj, iobj) ==
    /\ calls < MaxCalls
    /\ FirstError(Guarded(rel, perms, obj, "Write")) = Ok
    /\ \E vu \in VerbUuids :
          /\ rel.verb[vu] = None
          /\ Changes(add_object_verb(rel, vu, obj, owner, vname, flags, dobj, iobj))

RemoveVerb(perms, obj, uuid) ==
    /\ calls < MaxCalls
    /\ Call(verb_error(rel, perms, find(rel, obj, uuid), "Write"),
            delete_verb(rel, obj, uuid))

\* update_verb, update_verb_at_index and update_verb_with_id differ in how
\* the verb is looked up.
Updated(perms, vu, verb_attrs) ==
    Call(verb_error(rel, perms, vu, "Write"),
         [rel EXCEPT !.verb[vu] = Patched(@, verb_attrs)])

UpdateVerb(perms, obj, vname, verb_attrs) ==
    /\ calls < MaxCalls
    /\ Updated(perms, get_verb_by_name(rel, obj, vname), verb_attrs)

UpdateVerbAtIndex(perms, obj, vidx, verb_attrs) ==
    /\ calls < MaxCalls
    /\ Updated(perms, get_verb_by_index(rel, obj, vidx), verb_attrs)

UpdateVerbWithId(perms, obj, uuid, verb_attrs) ==
    /\ calls < MaxCalls
    /\ Updated(perms, find(rel, obj, uuid), verb_attrs)

ObjectCall(perms, obj) ==
    \/ \E f \in ObjFlagChoices : SetFlagsOf(perms, obj, f)
    \/ RecycleObject(perms, obj)
    \/ \E o \in Objids : MoveObject(perms, obj, o) \/ ChangeParent(perms, obj, o)

\* The definers the callers of define_property pass.  The facade looks at the
\* location and at the owner only, and no caller of it is among the sources:
\* that a definer is an object is assumed of the callers, not checked here.
Definers == rel.objects

PropertyCall(perms, obj) ==
    \/ \E pname \in PseudoNames \cup PropNames, v \in Values :
          UpdateProperty(perms, obj, pname, v)
    \/ \E pname \in PropNames :
          \/ \E attrs \in PropAttrChoices : SetPropertyInfo(perms, obj, pname, attrs)
          \/ ClearProperty(perms, obj, pname)
          \/ DeleteProperty(perms, obj, pname)
          \/ \E location \in Objs, o \in Objids, f \in PropFlagChoices,
                v \in Values \cup {None} :
                obj \in Definers /\ DefineProperty(perms, obj, location, pname, o, f, v)

VerbCall(perms, obj) ==
    \/ \E vname \in VerbNames, o \in Objids, f \in VerbFlagChoices,
          args \in ArgChoices : AddVerb(perms, obj, vname, o, f, args[1], args[2])
    \/ \E uuid \in VerbUuids : RemoveVerb(perms, obj, uuid)
    \/ \E attrs \in VerbAttrChoices :
          \/ \E vname \in VerbNames : UpdateVerb(perms, obj, vname, attrs)
          \/ \E vidx \in 0 .. Cardinality(VerbUuids) :
                UpdateVerbAtIndex(perms, obj, vidx, attrs)
          \/ \E uuid \in VerbUuids : UpdateVerbWithId(perms, obj, uuid, attrs)

Next ==
    \E perms \in Objs :
        \/ \E parent, owner \in Objids, f \in ObjFlagChoices :
              CreateObject(perms, parent, owner, f)
        \/ \E obj \in Objs :
              ObjectCall(perms, obj) \/ PropertyCall(perms, obj) \/ VerbCall(perms, obj)

Spec == Init /\ [][Next]_vars

(***************************************************************************)
(* Properties                                                              *)
(***************************************************************************)

\* The relations keep their types, and object ids are never handed out twice:
\* every object has an id that sequence 0 has passed.  (create_object takes
\* the next id; update_property refuses a value of the wrong variant before
\* it writes a name, an owner or a flag.)
TypeOK ==
    /\ rel \in Relations
    /\ max_object \in -1 .. MaxObjects - 1
    /\ calls \in 0 .. MaxCalls
    /\ rel.objects \subseteq 0 .. max_object

\* Both directions of the hierarchy and of the containment agree, and the
\* parent of an object is an object: create_object, recycle_object,
\* move_object and change_parent leave neither a child its parent does not
\* list, nor a listed child with another parent, nor a parent that is gone.
EdgesBidirectional ==
    \A o \in Objs :
        /\ rel.parent[o] # NOTHING =>
              o \in rel.objects /\ rel.parent[o] \in rel.objects
                                /\ o \in rel.children[rel.parent[o]]
        /\ rel.location[o] # NOTHING => o \in rel.contents[rel.location[o]]
        /\ \A c \in rel.children[o] : rel.parent[c] = o
        /\ \A c \in rel.contents[o] : rel.location[c] = o

\* No object is its own ancestor: change_parent refuses to move an object
\* under itself or under one of its descendants, whatever sequence of
\* creations, moves and recyclings came before.
ParentAcyclic ==
    \A o \in rel.objects : o \notin ToSet(Chain(rel, rel.parent[o], MaxObjects))

\* No value is left behind by the definition it belongs to: wherever a value
\* is stored, its definition exists and is shown there.  change_parent,
\* recycle_object and delete_property strip the values of what an object no
\* longer inherits, the object's own and those of everything below it.  It
\* holds of callers that define properties on objects (Definers): a value
\* defined at an id that create_object hands out later is left dangling.
NoDanglingValues ==
    \A o \in Objs, u \in Uuids :
        rel.propvalues[o][u] # None => u \in rel.propdefs[o] /\ rel.prop[u] # None

\* The values update_property is given here: a value of every variant for the
\* name and the owner, which take one variant each; the values of the model
\* for a defined property, which keeps any value alike, and for a flag, which
\* reads as 0 or 1 whatever integer was written.
Written(pname) ==
    IF pname \in {"name", "owner"}
    THEN {v_int(2), v_objid(0)} \cup {v_str(s) : s \in Names}
    ELSE Values

\* Every update_property of one of `pnames` that is permitted leaves a world
\* in which retrieve_property answers the value written.
ReadsBack(pnames) ==
    \A perms, obj \in Objs, pname \in pnames : \A v \in Written(pname) :
        update_property_error(perms, obj, pname, v) = Ok =>
            retrieve_property(update_property(obj, pname, v), perms, obj, pname)
                \in {<<Ok, v>>, <<"PropertyPermissionDenied", None>>}

\* What update_property writes, retrieve_property answers, in every world the
\* calls can reach: for the name, the owner, the flags r, w and f, and the
\* defined properties (which the writer may not be allowed to read).
PropertyReadsBack == ReadsBack({"name", "owner", "r", "w", "f"} \cup PropNames)

\* The same for the flags programmer and wizard: `.wizard = 0` followed by
\* a read of `.wizard` answers 0 (kernel/testsuite/regression_suite.rs,
\* test_changing_programmer_and_wizard_flags).
FlagPropertyReadsBack == ReadsBack({"programmer", "wizard"})

\* A definition is shown at its definer and below it, and nowhere else: what
\* define_property leaves when it is given one object as definer and as
\* location.
DefinedInPlace(u) ==
    \A o \in Objs : u \in rel.propdefs[o] => rel.prop[u].definer \in ToSet(ancestors(rel, o))

\* A value written to an object is seen by the object and by what inherits
\* from it, and by nobody else: after update_property of a property that is
\* defined in place, every object that is neither the object written nor
\* one of its descendants reads what it read before, its parent and its
\* siblings included (update_property hands set_property the object it was
\* given, not the definer or the holder of the value that was read).
WritesStayBelow ==
    \A obj \in Objs, pname \in PropNames, v \in Values :
        /\ \E perms \in Objs : update_property_error(perms, obj, pname, v) = Ok
        /\ DefinedInPlace(Handle(rel, obj, pname))
        => LET after == update_property(obj, pname, v)
           IN  \A reader \in Objs, other \in Objs \ ({obj} \cup descendants(rel, obj)) :
                  retrieve_property(after, reader, other, pname)
                      = retrieve_property(rel, reader, other, pname)

=============================================================================
