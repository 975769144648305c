---------------------------- MODULE MCObfuscator ----------------------------
EXTENDS Obfuscator, TLC
Symmetry == Permutations(Calls)
=============================================================================
