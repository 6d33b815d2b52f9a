---------------------------- MODULE MCRdvClient ----------------------------
(***************************************************************************)
(* A claimant against a store that serves it any copy in any order: each    *)
(* host instance alive or entombed, each answer or refusal, with and        *)
(* without a payload, at any of the store's sequences.                      *)
(*                                                                         *)
(* The history variable is whom the claimant followed: the ring of          *)
(* superseded instances in the record forgets.                              *)
(***************************************************************************)
EXTENDS RdvClient

CONSTANTS
  Other,          \* a rival claimant
  MaxSeq,         \* bound: the store's sequences
  MaxHostSeq      \* bound: a host's statement numbers

VARIABLE met      \* the host instances each claimant has followed

Statements == [kind: {"HOSTINFO", "TOMB"}, gen: Gens, from: HostIds, seq: {1}]

Answers ==
  [kind: {"ANSWER"}, from: HostIds, to: Cids, seq: 1 .. MaxHostSeq,
   re: 1 .. MaxAsk, body: Idents \cup {NoBody}]
  \cup [kind: {"REFUSE"}, from: HostIds, to: Cids, seq: 1 .. MaxHostSeq,
        re: 1 .. MaxAsk, body: {NoBody}]

OtherAsks == [kind: {"OFFER"}, from: {Other}, to: HostIds, seq: {1}, re: {0}, body: {NoBody}]

Copies == [seq: 1 .. MaxSeq, h: Statements \cup {NoMsg},
             c: Answers \cup OtherAsks \cup {NoMsg}]

MCInit == ClientInit /\ met = [c \in Cids |-> {}]

Acts(c) ==
  \/ Ask(c) \/ Post(c) \/ Regather(c) \/ Move(c) \/ Reask(c) \/ Withdraw(c) \/ TombSettles(c)
  \/ \E v \in Copies : Read(c, v)

MCNext ==
  /\ \E c \in Cids : Stays(c) /\ Acts(c)
  /\ met' = [c \in Cids |-> met[c] \cup ({cl'[c].host_cid} \ {NoHost})]

-----------------------------------------------------------------------------
\* Whatever copy is served next, one below the highest sequence the claimant
\* has acted on, from an instance it has followed, moves neither its idea of
\* which host serves nor whether that host is over nor the tombstone's clock
\* (client_copy_acts): a lagging replica cannot forge an end, hide one, or
\* pull it back.
LaggingCopyIsNoOp ==
  \A c \in Cids, m \in Statements :
    m.from \in met[c] =>
      \A s \in 1 .. (cl[c].h_seq - 1) :
        LET k == on_slot_get(c, cl[c], [seq |-> s, h |-> m, c |-> NoMsg])
        IN /\ k.host_cid = cl[c].host_cid
           /\ k.host_gone = cl[c].host_gone
           /\ k.tomb = cl[c].tomb
=============================================================================
