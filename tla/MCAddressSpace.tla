--------------------------- MODULE MCAddressSpace ---------------------------
(* AddressSpace with pages of two bytes; directories are interchangeable.    *)
EXTENDS AddressSpace, TLC

Symmetry == Permutations(Pgdir)

\* Less and a whole page up, more than one down; -3 exceeds the first size.
Steps == {-3, 1, 2}
=============================================================================
