----------------------------- MODULE MCHandshake -----------------------------
EXTENDS Handshake, TLC

Symmetry == Permutations(Handlers)
=============================================================================
