------------------------------ MODULE MCToyRcu ------------------------------
(* Small instances of ToyRcu for TLC.                                      *)
EXTENDS ToyRcu, TLC

Symmetry == Permutations(Readers) \cup Permutations(Writers)
            \cup Permutations(Addr)

=============================================================================
