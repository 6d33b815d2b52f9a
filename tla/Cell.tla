-------------------------------- MODULE Cell --------------------------------
(***************************************************************************)
(* What the rendezvous cell promises to its writers (PROTOCOL.md 4): one    *)
(* register with two places, numbered by its changes.  A host statement     *)
(* goes into h over an older one and may hand the turn back, a tombstone    *)
(* always does; a claimant's ask or the host's answer goes into the turn    *)
(* and leaves h alone.  No write is ever lost to one that had not seen it.  *)
(***************************************************************************)
EXTENDS Integers

CONSTANT NoMsg

VARIABLE reg

CellInit == reg = [seq |-> 0, h |-> NoMsg, c |-> NoMsg]

\* Statements of one host are ordered by its instance, run and number.
Supersedes(new, old) ==
  \/ old = NoMsg
  \/ new.from > old.from
  \/ new.from = old.from /\ new.gen > old.gen
  \/ new.from = old.from /\ new.gen = old.gen /\ new.seq >= old.seq

HostWrites ==
  /\ reg'.seq = reg.seq + 1
  /\ reg'.h # NoMsg /\ Supersedes(reg'.h, reg.h)
  /\ reg'.c \in {reg.c, NoMsg}
  /\ reg'.h.kind = "TOMB" => reg'.c = NoMsg

TurnWrites ==
  /\ reg'.seq = reg.seq + 1
  /\ reg'.c # NoMsg
  /\ reg'.h = reg.h

CellNext == HostWrites \/ TurnWrites

CellSpec == CellInit /\ [][CellNext]_reg
=============================================================================
