-------------------------- MODULE MCIdentifierRules --------------------------
(* Registered numbers without their check digits. *)
EXTENDS IdentifierRules

MCStems ==
  [INN |-> {<<7, 7, 0, 7, 0, 8, 3, 8, 9>>, <<5, 0, 0, 1, 0, 0, 7, 3, 2, 2>>},
   OGRN |-> {<<1, 0, 2, 7, 7, 0, 0, 1, 3, 2, 1, 9>>},
   OGRNIP |-> {<<3, 0, 4, 5, 0, 0, 1, 1, 6, 0, 0, 0, 1, 5>>}]

=============================================================================
