--------------------------- MODULE MCWorldStateDB ---------------------------
(***************************************************************************)
(* WorldStateDB instantiated for TLC.                                      *)
(***************************************************************************)
EXTENDS WorldStateDB, TLC

\* Two of the twelve relations, in the order the processing thread locks
\* them: enough for a commit to be applied in more than one step.
TwoRelations == <<"object_flags", "object_parent">>
OneRelation  == <<"object_flags">>

\* Keys, values and transaction handles are interchangeable.
Interchangeable ==
    Permutations(Keys) \cup Permutations(Vals) \cup Permutations(Txs)

\* MaxObjid when a run leaves object-id allocation out.
NoObjids == -1

\* Each transaction touches at most MaxTouched entries.
MaxTouched == 2

Touched(t) ==
    Cardinality({c \in Relations \X Keys :
                    \/ ws[t].reads[c[1]][c[2]] # Unseen
                    \/ ws[t].staged[c[1]][c[2]] # Unseen})

FewTouched == \A t \in Txs : Touched(t) <= MaxTouched
=============================================================================
