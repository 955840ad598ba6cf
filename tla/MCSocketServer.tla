--------------------------- MODULE MCSocketServer ---------------------------
EXTENDS SocketServer, TLC

Symmetry == Permutations(Sender)
=============================================================================
