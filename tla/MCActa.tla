------------------------------- MODULE MCActa -------------------------------
EXTENDS Acta, TLC
Perms == Permutations(Cli)
=============================================================================
