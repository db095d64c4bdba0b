------------------------------ MODULE EffectGraph ------------------------------
(***************************************************************************)
(* The closed graph of lifecycle statuses of one governed external effect. *)
(* Optional values (a NULL column, a field that is None) are sets with at  *)
(* most one element.                                                       *)
(***************************************************************************)

Option(S) == {x \in SUBSET S : \A y, z \in x : y = z}

Terminal  == {"delivered", "dead_lettered"}
Claimable == {"enqueued", "claimed", "retry_scheduled"}
Status    == Terminal \cup Claimable \cup {"delivering", "ambiguous"}

\* The allowed successors of a lifecycle status.
Follows ==
  [ enqueued        |-> {"claimed", "dead_lettered"},
    claimed         |-> {"claimed", "delivering", "dead_lettered"},
    delivering      |-> {"delivered", "retry_scheduled", "ambiguous", "dead_lettered"},
    retry_scheduled |-> {"claimed", "dead_lettered"},
    ambiguous       |-> {"delivered", "retry_scheduled", "dead_lettered"},
    delivered       |-> {},
    dead_lettered   |-> {} ]

================================================================================
