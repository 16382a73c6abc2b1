--------------------------- MODULE MCPropertyImports ---------------------------
(* A small instance of PropertyImports for TLC: a file lists one parcel, both or *)
(* none, and may change the address of the first or the key of its building.     *)
EXTENDS PropertyImports, TLC

CONSTANTS p, q, a, b, k, m

Says(address, key) == [address |-> address, key |-> key]
Lists(first, second) == [x \in Parcel |-> IF x = p THEN first ELSE second]
Payloads ==
    {Lists(one, None) : one \in {None, Says(a, k), Says(a, m), Says(b, k)}}
        \cup {Lists(one, Says(a, k)) : one \in {None, Says(a, k)}}
Symmetry == Permutations(Session)
=============================================================================
