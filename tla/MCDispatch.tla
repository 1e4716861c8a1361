----------------------------- MODULE MCDispatch -----------------------------
EXTENDS QPMDispatch, TLC

\* Tasks, runners and clients are interchangeable among themselves.
Symmetry ==
    Permutations(Tasks) \cup Permutations(Runners)
        \cup Permutations(Threads \ Runners)
=============================================================================
