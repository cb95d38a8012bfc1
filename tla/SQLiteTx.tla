------------------------------ MODULE SQLiteTx ------------------------------
(***************************************************************************)
(* The SQLite store of src/db/sqllite.rs: the tables of objects, property  *)
(* definitions, property values, verbs and verb names, and the calls that  *)
(* read and write them inside one SQLite transaction.                      *)
(*                                                                         *)
(* The store has one caller at a time.  What is hard about it is what the  *)
(* tables may hold after a long sequence of calls: the schema constrains   *)
(* little, row ids are handed out by SQLite, foreign keys are enforced or  *)
(* not depending on how SQLite was built, and several calls assert the     *)
(* number of rows they touched.                                            *)
(*                                                                         *)
(* A call that returns Err changes nothing and is no step.  A call that    *)
(* panics or never returns ends the behaviour.  Names, flags, argument     *)
(* specs and programs are stored and read back untouched and are left out; *)
(* a value is a member of Values.                                          *)
(***************************************************************************)
EXTENDS Integers, Sequences, FiniteSets, FiniteSetsExt, TLC

CONSTANTS
    MaxOid,          \* bound: object ids are 1 .. MaxOid
    MaxPid,          \* bound: property ids are 1 .. MaxPid
    MaxVid,          \* bound: verb ids are 1 .. MaxVid
    MaxCalls,        \* bound: the number of calls made
    PropNames,       \* the names of properties
    VerbNames,       \* the names of verbs
    Values,          \* the values of properties
    ObjAttrChoices,  \* the ObjAttrs callers pass
    Owners,          \* the owners callers give to properties and verbs
    None,            \* Option::None
    NULL,            \* SQL NULL
    Err,             \* a call that returns Err(..)
    Diverges         \* a query that never returns

Oids == 1 .. MaxOid
Pids == 1 .. MaxPid
Vids == 1 .. MaxVid

\* ObjAttrs, without name and flags.
ObjAttrs == [owner : Oids \cup {None}, parent : Oids \cup {None},
             location : Oids \cup {None}]

ASSUME /\ {MaxOid, MaxPid, MaxVid, MaxCalls} \subseteq Nat
       /\ ObjAttrChoices \subseteq ObjAttrs
       /\ Owners \subseteq Oids

VARIABLES
    db,            \* the tables, and `seq`: the largest pid handed out so far
    foreign_keys,  \* whether this build of SQLite enforces foreign keys
    status,        \* "open", or how the caller ended: "panicked", "hung"
    calls          \* the number of calls made

vars == <<db, foreign_keys, status, calls>>

\* initialize_schema: five empty tables.  property_definition.pid is
\* AUTOINCREMENT, so SQLite keeps the largest pid ever used in `seq`; the
\* other integer keys are plain rowids.  property is keyed by (location,
\* pid) and refers to property_definition, verb refers to object twice, both
\* ON DELETE CASCADE; nothing else refers to anything.
Init ==
    /\ db = [object |-> <<>>, property_definition |-> <<>>, property |-> <<>>,
             verb |-> <<>>, verb_name |-> <<>>, seq |-> 0]
    /\ foreign_keys \in BOOLEAN
    /\ status = "open"
    /\ calls = 0

\* The rowid SQLite gives a new row of a table without AUTOINCREMENT.
rowid(table) == IF DOMAIN table = {} THEN 1 ELSE Max(DOMAIN table) + 1

Without(table, keys) == [k \in DOMAIN table \ keys |-> table[k]]

\* A call is made, and returns with the tables as `d`.
Returns(d) ==
    /\ status = "open" /\ calls < MaxCalls
    /\ calls' = calls + 1
    /\ db' = d
    /\ UNCHANGED <<foreign_keys, status>>

\* A call is made, and an assert_eq!, unwrap or todo! in it fails, or it
\* never returns: the transaction is dropped with the caller.
Ends(how) ==
    /\ status = "open" /\ calls < MaxCalls
    /\ calls' = calls + 1
    /\ status' = how
    /\ UNCHANGED <<db, foreign_keys>>

(***************************************************************************)
(* Objects                                                                 *)
(***************************************************************************)
\* Faulty variant of objid_column: no object is stored as #-1.
objid_column_StoresNothing(o) == IF o = None THEN -1 ELSE o

\* An Option<Objid> as the value of a column.
objid_column(o) == IF o = None THEN NULL ELSE o

\* retr_objid: a column as an Option<Objid>.
retr_objid(c) == IF c = NULL THEN None ELSE c

\* create_object: with an id that exists the insert fails and Err is
\* returned; without one the row gets the next rowid.
CreateObject(oid, attrs) ==
    LET id == IF oid = None THEN rowid(db.object) ELSE oid IN
    /\ id \in Oids \ DOMAIN db.object
    /\ Returns([db EXCEPT !.object = @ @@ (id :>
                   [owner |-> objid_column(attrs.owner),
                    parent |-> objid_column(attrs.parent),
                    location |-> objid_column(attrs.location)])])

\* destroy_object: the row of the object goes, and with foreign keys the
\* verbs it defines or owns; everything else that names it stays.
DestroyObject(oid) ==
    IF oid \in DOMAIN db.object
    THEN Returns([db EXCEPT
            !.object = Without(@, {oid}),
            !.verb = IF foreign_keys
                     THEN Without(@, {v \in DOMAIN @ : oid \in {@[v].definer, @[v].owner}})
                     ELSE @])
    ELSE Ends("panicked")

object_valid(d, oid) == oid \in DOMAIN d.object

object_get_attrs(d, oid) ==
    IF oid \in DOMAIN d.object
    THEN [a \in {"owner", "parent", "location"} |-> retr_objid(d.object[oid][a])]
    ELSE Err

\* object_set_attrs: the columns of the attributes given are written; a
\* column cannot be set to NULL.
ObjectSetAttrs(oid, attrs) ==
    /\ \E a \in DOMAIN attrs : attrs[a] # None
    /\ IF oid \in DOMAIN db.object
       THEN Returns([db EXCEPT !.object[oid] =
                        [a \in DOMAIN @ |-> IF attrs[a] = None THEN @[a] ELSE attrs[a]]])
       ELSE Ends("panicked")

object_children(d, oid) == {o \in DOMAIN d.object : d.object[o].parent = oid}

object_contents(d, oid) == {o \in DOMAIN d.object : d.object[o].location = oid}

(***************************************************************************)
(* Property definitions                                                    *)
(***************************************************************************)
DefinedBy(d, oid, pname) ==
    {p \in DOMAIN d.property_definition :
        d.property_definition[p] = [definer |-> oid, name |-> pname]}

get_propdefs(d, oid) ==
    {p \in DOMAIN d.property_definition : d.property_definition[p].definer = oid}

count_propdefs(d, oid) == Cardinality(get_propdefs(d, oid))

\* The row query_row takes of several.  The query states no order; that
\* SQLite reads a table by rowid is assumed of the engine.
first_pid(pids) == Min(pids)

\* get_propdef: the first row, or Err if there is none.
get_propdef(d, oid, pname) ==
    IF DefinedBy(d, oid, pname) = {} THEN Err ELSE first_pid(DefinedBy(d, oid, pname))

\* Faulty variant of insert_propdef: pid is a plain rowid.
insert_propdef_ReusesRowid(d, oid, pname) ==
    [d EXCEPT !.property_definition =
                  @ @@ (rowid(@) :> [definer |-> oid, name |-> pname]),
              !.seq = Max({@, rowid(d.property_definition)})]

\* A row of property_definition with the next pid of the sequence.
insert_propdef(d, oid, pname) ==
    [d EXCEPT !.property_definition =
                  @ @@ (d.seq + 1 :> [definer |-> oid, name |-> pname]),
              !.seq = @ + 1]

\* Faulty variant of set_property: a row that exists is left as it is.
set_property_IgnoresConflict(d, handle, location, value, owner) ==
    IF <<location, handle>> \in DOMAIN d.property THEN d
    ELSE [d EXCEPT !.property = @ @@ (<<location, handle>> :>
                                        [owner |-> owner, value |-> value])]

\* The insert of set_property: the row of (location, pid) is written, or
\* replaced if there is one.
set_property(d, handle, location, value, owner) ==
    [d EXCEPT !.property = (<<location, handle>> :>
                              [owner |-> owner, value |-> value]) @@ @]

\* add_propdef: nothing is asked of the definer or of the name; with a value
\* the property is set on the definer.
AddPropdef(oid, pname, owner, val) ==
    /\ db.seq < MaxPid
    /\ LET d == insert_propdef(db, oid, pname)
           pid == Max(DOMAIN d.property_definition) IN
       Returns(IF val = None THEN d ELSE set_property(d, pid, oid, val, owner))

\* rename_propdef: every definition of that name is renamed, whoever defines
\* it; the call asserts that there was one.
RenamePropdef(oid, old, new) ==
    LET named == {p \in DOMAIN db.property_definition :
                     db.property_definition[p].name = old} IN
    IF Cardinality(named) = 1
    THEN Returns([db EXCEPT !.property_definition =
                     [p \in DOMAIN @ |-> IF p \in named THEN [@[p] EXCEPT !.name = new]
                                         ELSE @[p]]])
    ELSE Ends("panicked")

\* delete_propdef: the definitions of that name by that object go, and with
\* foreign keys their values; the call asserts that there was one.
DeletePropdef(oid, pname) ==
    LET gone == DefinedBy(db, oid, pname) IN
    IF Cardinality(gone) = 1
    THEN Returns([db EXCEPT
            !.property_definition = Without(@, gone),
            !.property = IF foreign_keys
                         THEN Without(@, {k \in DOMAIN @ : k[2] \in gone})
                         ELSE @])
    ELSE Ends("panicked")

(***************************************************************************)
(* Properties                                                              *)
(***************************************************************************)
\* The recursive table parents_of: oid, then the `column` of its object, and
\* so on for as long as there is an object.  UNION ALL keeps a row it has
\* seen before, so on a cycle the table has no end, which Diverges marks.
RECURSIVE parents_of(_, _, _, _)
parents_of(d, column, oid, seen) ==
    IF oid \in seen THEN <<Diverges>>
    ELSE IF oid \notin DOMAIN d.object THEN <<oid>>
    ELSE <<oid>> \o parents_of(d, column, d.object[oid][column], seen \cup {oid})

\* The joins: the rows at which there is a value, of a definition that exists.
Holding(d, rows, handle) ==
    SelectSeq(rows, LAMBDA o : /\ <<o, handle>> \in DOMAIN d.property
                               /\ handle \in DOMAIN d.property_definition)

\* results.nth(0).  The query has no ORDER BY: that the rows of the join come
\* in the order in which SQLite computes the recursive table, first in first
\* out and so nearest first, is assumed of the engine and of its plan.
first_row(rows) == Head(rows)

\* The query of get_property over the recursive table that follows `column`.
\* SQLite computes the rows as they are asked for: with a value on the way
\* the first row is the answer, without one a cycle never answers.
select_property(d, column, oid, handle) ==
    LET rows == parents_of(d, column, oid, {})
        held == Holding(d, rows, handle)
        at == first_row(held)
    IN  IF held # <<>>
        THEN [location |-> retr_objid(at),
              owner |-> retr_objid(d.property[<<at, handle>>].owner),
              value |-> d.property[<<at, handle>>].value]
        ELSE IF rows[Len(rows)] = Diverges THEN Diverges ELSE None

\* Faulty variant of get_property: the recursive table follows location.
get_property_FollowsLocation(d, oid, handle) == select_property(d, "location", oid, handle)

get_property(d, oid, handle) == select_property(d, "parent", oid, handle)

GetPropertyHangs(oid, handle) ==
    /\ get_property(db, oid, handle) = Diverges
    /\ Ends("hung")

\* set_property: with foreign keys a value for a pid without a definition is
\* refused, and the result is unwrapped.
SetProperty(handle, location, value, owner) ==
    IF foreign_keys /\ handle \notin DOMAIN db.property_definition
    THEN Ends("panicked")
    ELSE Returns(set_property(db, handle, location, value, owner))

(***************************************************************************)
(* Verbs                                                                   *)
(***************************************************************************)
\* add_verb: a row of verb, then a row of verb_name for each name.  With
\* foreign keys the definer and the owner must be objects, else Err.
AddVerb(oid, names, owner) ==
    LET vid == rowid(db.verb)
        name_ids == rowid(db.verb_name) .. rowid(db.verb_name) + Cardinality(names) - 1 IN
    /\ vid \in Vids /\ names # {}
    /\ foreign_keys => {oid, owner} \subseteq DOMAIN db.object
    /\ \E named \in [name_ids -> names] :
          /\ \A n \in names : \E i \in name_ids : named[i] = n
          /\ Returns([db EXCEPT
                !.verb = @ @@ (vid :> [definer |-> oid, owner |-> owner]),
                !.verb_name = @ @@ [i \in name_ids |-> [vid |-> vid, name |-> named[i]]]])

\* get_verbs and get_verb join a table called "name" (VerbName::Name, which
\* is a column): there is no such table, and preparing the query fails.
get_verbs(d, oid) == Err

get_verb(d, vid) == Err

\* update_verb, find_command_verb, find_callable_verb, find_indexed_verb.
Unimplemented ==
    /\ status = "open"
    /\ Ends("panicked")

Next ==
    \/ \E oid \in Oids \cup {None}, attrs \in ObjAttrChoices : CreateObject(oid, attrs)
    \/ \E oid \in Oids : DestroyObject(oid)
    \/ \E oid \in Oids, attrs \in ObjAttrChoices : ObjectSetAttrs(oid, attrs)
    \/ \E oid \in Oids, pname \in PropNames, owner \in Owners, val \in Values \cup {None} :
          AddPropdef(oid, pname, owner, val)
    \/ \E oid \in Oids, old, new \in PropNames : RenamePropdef(oid, old, new)
    \/ \E oid \in Oids, pname \in PropNames : DeletePropdef(oid, pname)
    \/ \E handle \in Pids, location \in Oids, value \in Values, owner \in Owners :
          SetProperty(handle, location, value, owner)
    \/ \E oid \in Oids, handle \in Pids : GetPropertyHangs(oid, handle)
    \/ \E oid \in Oids, names \in SUBSET VerbNames, owner \in Owners :
          AddVerb(oid, names, owner)
    \/ Unimplemented

Spec == Init /\ [][Next]_vars

(***************************************************************************)
(* Properties                                                              *)
(***************************************************************************)
Columns == Oids \cup {NULL}

\* The tables hold what their columns are declared to hold: an object column
\* is an object id or NULL (create_object and object_set_attrs write None as
\* NULL, and retr_objid reads NULL as None), keys are within their bounds,
\* and no pid is beyond the sequence.
TypeOK ==
    /\ DOMAIN db.object \subseteq Oids
    /\ \A o \in DOMAIN db.object :
          db.object[o] \in [owner : Columns, parent : Columns, location : Columns]
    /\ DOMAIN db.property_definition \subseteq 1 .. db.seq
    /\ db.seq \in 0 .. MaxPid
    /\ \A p \in DOMAIN db.property_definition :
          db.property_definition[p] \in [definer : Oids, name : PropNames]
    /\ DOMAIN db.property \subseteq Oids \X Pids
    /\ \A k \in DOMAIN db.property : db.property[k] \in [owner : Oids, value : Values]
    /\ DOMAIN db.verb \subseteq Vids
    /\ \A v \in DOMAIN db.verb : db.verb[v] \in [definer : Oids, owner : Oids]
    /\ \A i \in DOMAIN db.verb_name : db.verb_name[i] \in [vid : Vids, name : VerbNames]
    /\ foreign_keys \in BOOLEAN
    /\ status \in {"open", "panicked", "hung"}
    /\ calls \in 0 .. MaxCalls

\* The chains of parents that start at an object, as object_get_attrs
\* reports them: oid, its parent, the parent of that, for as far as there
\* are objects.
Chains == UNION {[1 .. n -> Oids] : n \in 1 .. MaxOid}

ParentChains(oid) ==
    {c \in Chains :
        /\ c[1] = oid
        /\ \A i \in 1 .. Cardinality(DOMAIN c) - 1 :
              object_valid(db, c[i]) /\ object_get_attrs(db, c[i]).parent = c[i + 1]}

Visible(l, pid) == <<l, pid>> \in DOMAIN db.property /\ pid \in DOMAIN db.property_definition

\* Inheritance, as the test property_inheritance expects of get_property:
\* the answer for an object is the value at the nearest of the object and
\* its ancestors that holds one, and None only when none of them does.
NearestValueWins ==
    \A oid \in Oids, pid \in Pids :
        LET answer == get_property(db, oid, pid)
            Nearest(c) == /\ Visible(c[Cardinality(DOMAIN c)], pid)
                          /\ \A i \in 1 .. Cardinality(DOMAIN c) - 1 : ~Visible(c[i], pid) IN
        \/ answer = Diverges
        \/ /\ answer = None
           /\ \A c \in ParentChains(oid) : ~Nearest(c)
        \/ /\ answer \notin {None, Diverges}
           /\ \E c \in ParentChains(oid) :
                 /\ Nearest(c)
                 /\ answer.location = c[Cardinality(DOMAIN c)]
                 /\ answer.value = db.property[<<answer.location, pid>>].value

\* What set_property writes at a location for the handle that get_propdef
\* gives, get_property answers for that location, whether or not there was
\* a value there before (the ON CONFLICT clause of the insert) and whatever
\* the ancestors hold.
PropertyReadsBack ==
    \A definer, location \in Oids, pname \in PropNames, value \in Values, owner \in Owners :
        LET handle == get_propdef(db, definer, pname) IN
        handle # Err =>
            get_property(set_property(db, handle, location, value, owner), location, handle)
                = [location |-> location, owner |-> owner, value |-> value]

\* A value whose definition is gone (delete_propdef without foreign keys
\* leaves it in the table) is never answered again: no later definition gets
\* the pid of an earlier one, because pid is AUTOINCREMENT.
OrphanNeverAdopted ==
    [][\A k \in DOMAIN db.property \cap DOMAIN db'.property :
          k[2] \in 1 .. db.seq \ DOMAIN db.property_definition
              => k[2] \notin DOMAIN db'.property_definition]_vars

=============================================================================
