------------------------------ MODULE RdvNames ------------------------------
(***************************************************************************)
(* The names both ends of the rendezvous speak of.                          *)
(***************************************************************************)
EXTENDS Integers

CONSTANTS
  Cids,           \* claimants' instance ids (sig_instance_id, one per process)
  HostIds,        \* host instance ids
  Gens,           \* host generations
  NoBody,         \* a statement without a payload
  MaxAsk          \* bound: a claimant's ask numbers

ASSUME AskBound == MaxAsk \in Nat
=============================================================================
