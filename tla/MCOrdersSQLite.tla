-------------------------- MODULE MCOrdersSQLite --------------------------
(* TLC's instances of OrdersSQLite. *)
EXTENDS OrdersSQLite, TLC

CONSTANTS small, large

(* One basket of one line and one of two. *)
MCLineCount == [b \in Baskets |-> IF b = small THEN 1 ELSE 2]

Symmetry == Permutations(Requests) \cup Permutations(Shoppers)
=============================================================================
