------------------------- MODULE MCRegistryStorage -------------------------
(***************************************************************************)
(* Two controllers, three semantic keys, one of them submitted with two    *)
(* different contents, room for two events.                                *)
(***************************************************************************)
EXTENDS RegistryStorage, TLC

CONSTANTS c1, c2, k1, k2, k3, d1, d2

MCEvent == {[key |-> k1, data |-> d1], [key |-> k1, data |-> d2], [key |-> k2, data |-> d1],
            [key |-> k3, data |-> d1]}
Symmetry == Permutations(Client) \cup Permutations({k2, k3})
=============================================================================
