----------------------------- MODULE MCHandles -----------------------------
EXTENDS HandlesInv, TLC

Symmetry == Permutations(Thread) \cup Permutations(Db) \cup Permutations(Snap)
            \cup Permutations(Iter)
============================================================================
