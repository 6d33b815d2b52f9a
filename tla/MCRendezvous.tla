---------------------------- MODULE MCRendezvous ----------------------------
EXTENDS Rendezvous, TLC

Sym == Permutations(Cids)

IdentBodies == Idents
=============================================================================
