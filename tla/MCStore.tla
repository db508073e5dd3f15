------------------------------ MODULE MCStore ------------------------------
EXTENDS Store, TLC

Symmetry == Permutations(Thread) \cup Permutations(Snap) \cup Permutations(Iter)
            \cup Permutations(Batch) \cup Permutations(Value)
============================================================================
