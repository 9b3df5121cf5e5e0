------------------------ MODULE MCRecoveryController ------------------------
EXTENDS RecoveryController, TLC

Interchangeable == Permutations(Pairs)
=============================================================================
