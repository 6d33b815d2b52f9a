----------------------------- MODULE MCRdvHost -----------------------------
\* RdvHost over a table smaller than the claimants that ask, so that rows are
\* evicted and re-used.
EXTENDS RdvHost, TLC

Sym == Permutations(Cids)
=============================================================================
