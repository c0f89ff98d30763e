------------------------------ MODULE MCGuard ------------------------------
EXTENDS Guard, TLC

Perms == Permutations(Conns)
=============================================================================
