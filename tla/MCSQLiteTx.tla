----------------------------- MODULE MCSQLiteTx -----------------------------
(***************************************************************************)
(* SQLiteTx for TLC: the attributes callers pass, as a small set.          *)
(***************************************************************************)
EXTENDS SQLiteTx

\* No attribute, a parent, or a location; the owner of an object is read by
\* nothing in the store.
FewAttrs ==
    {a \in ObjAttrs : /\ a.owner = None
                      /\ a.location \in {None, 1}
                      /\ None \in {a.parent, a.location}}

=============================================================================
