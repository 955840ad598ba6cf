---------------------------- MODULE MCLuaService ----------------------------
EXTENDS LuaService, TLC

Symmetry == Permutations(Service)
=============================================================================
