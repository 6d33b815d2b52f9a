----------------------------- MODULE RdvClient -----------------------------
(***************************************************************************)
(* A claimant's half of the rendezvous: rdv.c's client, the reading side of *)
(* sig.c (host_slot_read, answer_read, on_slot_get) and the calls by which  *)
(* the session asks, asks again, changes its ICE identity and withdraws.    *)
(*                                                                         *)
(* A claimant is a record, and each C function an operator from the record  *)
(* before the call to the record after it: on_slot_get runs two of them on  *)
(* one reply.  A copy of the cell is [seq, h, c]: the store's sequence, the *)
(* host's statement and what stands in the turn, NoMsg where there is none. *)
(* A credential class the claimant cannot open reads exactly as a statement *)
(* addressed to somebody else, so classes are not told apart.               *)
(***************************************************************************)
EXTENDS RdvNames

CONSTANTS
  NoHost,         \* have_host = 0
  NoMsg,          \* an empty place of the cell
  RDV_PREV_MAX,   \* superseded host instances remembered
  MaxIdent,       \* bound: ICE identities a claimant mints
  MaxRev          \* bound: descriptions posted under one identity

ASSUME PrevMaxAssumption == RDV_PREV_MAX \in Nat \ {0}
ASSUME ClientBounds == MaxIdent \in Nat \ {0} /\ MaxRev \in Nat

VARIABLE cl       \* the claimants' records

Idents == 1 .. MaxIdent

\* What a claimant posts: the identity its agent presents, and how often the
\* description was amended under it (a candidate that came late).
Descriptions == [ident: Idents, rev: 0 .. MaxRev]

ClientStates == {"ANNOUNCING", "OFFERED", "ANSWERED", "REFUSED"}

Client ==
  [host_cid: HostIds \cup {NoHost}, host_gen: Gens \cup {0},
   prev_cid: [1 .. RDV_PREV_MAX -> HostIds \cup {NoHost}], nprev: 0 .. RDV_PREV_MAX,
   h_seq: Int, seq: Nat, offer_seq: Nat, prev_offer_seq: Nat, answer_seq: Nat,
   state: ClientStates, live: BOOLEAN, reask: BOOLEAN, host_gone: BOOLEAN,
   offer: Descriptions \cup {NoBody}, answer: Idents \cup {NoBody},
   tomb: {"no", "seen", "settled"},   \* sig.tomb_seen_ms and its clock
   my_packed: Descriptions \cup {NoBody},   \* sig.my_packed
   ident: Idents]                     \* the identity its agent presents now

\* rdv_client_init and sig_create: no description is posted yet, and the ask
\* made meanwhile is the bare announcement.
rdv_client_init ==
  [host_cid |-> NoHost, host_gen |-> 0,
   prev_cid |-> [i \in 1 .. RDV_PREV_MAX |-> NoHost], nprev |-> 0,
   h_seq |-> -1, seq |-> 0, offer_seq |-> 0, prev_offer_seq |-> 0,
   answer_seq |-> 0, state |-> "ANNOUNCING", live |-> FALSE, reask |-> FALSE,
   host_gone |-> FALSE, offer |-> NoBody, answer |-> NoBody, tomb |-> "no",
   my_packed |-> NoBody, ident |-> 1]

\* A definition whose name ends in _wrong is the next one with a slip in it, and
\* part of no specification: it shows that a property notices the slip.

Larger(x, y) == IF x >= y THEN x ELSE y

(***************************************************************************)
(* The host's place of a copy.                                              *)
(***************************************************************************)
\* Superseded instances are not looked at.
client_knew_wrong(k, h) == k.host_cid = h

client_knew(k, h) ==
  k.host_cid = h \/ \E i \in 1 .. k.nprev : k.prev_cid[i] = h

\* A copy below the highest seen, from an instance already dealt with, says
\* nothing new.
client_copy_acts(k, m, seq) == ~(seq < k.h_seq /\ client_knew(k, m.from))

\* nprev has no ceiling.
Superseded_wrong(k, m) ==
  IF k.host_cid \in {NoHost, m.from} THEN k
  ELSE [k EXCEPT !.prev_cid[(k.nprev % RDV_PREV_MAX) + 1] = k.host_cid,
                 !.nprev = k.nprev + 1, !.answer_seq = 0]

\* Another instance than the one met: remember that one, and take the new
\* one's statements from the first.
Superseded(k, m) ==
  IF k.host_cid \in {NoHost, m.from} THEN k
  ELSE [k EXCEPT !.prev_cid[(k.nprev % RDV_PREV_MAX) + 1] = k.host_cid,
                 !.nprev = IF k.nprev < RDV_PREV_MAX THEN k.nprev + 1 ELSE k.nprev,
                 !.answer_seq = 0]

rdv_client_host_slot(k, m, seq) ==
  LET seen == [k EXCEPT !.h_seq = Larger(k.h_seq, seq)]
      moved == k.host_cid # m.from \/ k.host_gen # m.gen
  IN IF m.kind = "TOMB" THEN [seen EXCEPT !.host_gone = TRUE]
     ELSE IF ~moved THEN [seen EXCEPT !.host_gone = FALSE]
     ELSE [Superseded(seen, m) EXCEPT
             !.host_gone = FALSE, !.host_cid = m.from, !.host_gen = m.gen,
             !.state = "ANNOUNCING", !.answer = NoBody, !.offer_seq = 0]

\* sig.c's end of it: the tombstone's clock starts at the first sight of one
\* and is put back by a live statement.
host_slot_read(k, m, seq) ==
  IF m = NoMsg THEN k
  ELSE IF ~client_copy_acts(k, m, seq) THEN k
  ELSE [rdv_client_host_slot(k, m, seq) EXCEPT
          !.tomb = IF m.kind = "HOSTINFO" THEN "no"
                   ELSE IF k.tomb = "no" THEN "seen" ELSE k.tomb]

(***************************************************************************)
(* The turn of a copy.                                                      *)
(***************************************************************************)
rdv_client_ask_gone(k, seq) ==
  IF seq >= k.h_seq /\ k.state = "OFFERED" THEN [k EXCEPT !.reask = TRUE] ELSE k

\* An answer already taken is taken again.
rdv_client_would_take_wrong(c, k, m) ==
  /\ m.kind \in {"ANSWER", "REFUSE"}
  /\ m.to = c
  /\ k.host_cid \in {NoHost, m.from}
  /\ k.offer_seq # 0
  /\ m.re \in {k.offer_seq, k.prev_offer_seq}

\* The answer to an ask just superseded is not taken.
rdv_client_would_take_late_wrong(c, k, m) ==
  /\ m.kind \in {"ANSWER", "REFUSE"}
  /\ m.to = c
  /\ k.host_cid \in {NoHost, m.from}
  /\ k.offer_seq # 0
  /\ m.re = k.offer_seq
  /\ m.seq > k.answer_seq

rdv_client_would_take(c, k, m) ==
  /\ m.kind \in {"ANSWER", "REFUSE"}
  /\ m.to = c
  /\ k.host_cid \in {NoHost, m.from}
  /\ k.offer_seq # 0
  /\ m.re = k.offer_seq \/ (k.prev_offer_seq # 0 /\ m.re = k.prev_offer_seq)
  /\ m.seq > k.answer_seq

rdv_client_own_slot(k, m) ==
  [k EXCEPT !.answer_seq = m.seq,
            !.state = IF m.kind = "REFUSE" THEN "REFUSED" ELSE "ANSWERED",
            !.answer = m.body]

\* Spent, not taken: an answer with no payload does not decode, and the ask
\* goes again.
rdv_client_answer_unusable(k, m) ==
  [k EXCEPT !.answer_seq = m.seq, !.answer = NoBody, !.reask = TRUE]

answer_read(c, k, m, seq) ==
  IF m.from = c THEN k
  ELSE IF ~rdv_client_would_take(c, k, m) THEN rdv_client_ask_gone(k, seq)
  ELSE IF m.kind = "ANSWER" /\ m.body = NoBody THEN rdv_client_answer_unusable(k, m)
  ELSE rdv_client_own_slot(k, m)

\* One reply of the store: the host's place, then the turn.
on_slot_get(c, k, v) ==
  LET k1 == host_slot_read(k, v.h, v.seq)
  IN IF v.c = NoMsg THEN rdv_client_ask_gone(k1, v.seq)
     ELSE answer_read(c, k1, v.c, v.seq)

\* Whatever the host put there is written over.
rdv_client_may_replace_wrong(c, k, m) ==
  IF m = NoMsg THEN TRUE
  ELSE m.from = c => m.seq # k.offer_seq

\* What a claimant must not write over: its own standing ask, and an answer
\* of its host that it would take.
rdv_client_may_replace(c, k, m) ==
  IF m = NoMsg THEN TRUE
  ELSE IF m.from = c THEN m.seq # k.offer_seq
  ELSE IF m.from # k.host_cid THEN TRUE
  ELSE ~rdv_client_would_take(c, k, m)

(***************************************************************************)
(* Asking.                                                                  *)
(***************************************************************************)
\* An unchanged ask keeps its number while it stands.
Renumbered(k) == k.reask \/ k.offer_seq = 0 \/ k.offer # k.my_packed

\* Numbered from the ask standing, which a change of host takes away.
offer_seq_wrong(k) ==
  IF Renumbered(k)
  THEN [k EXCEPT !.reask = FALSE, !.offer = k.my_packed,
                 !.prev_offer_seq = k.offer_seq,
                 !.seq = k.seq + 1, !.offer_seq = k.offer_seq + 1]
  ELSE k

offer_seq(k) ==
  IF Renumbered(k)
  THEN [k EXCEPT !.reask = FALSE, !.offer = k.my_packed,
                 !.prev_offer_seq = k.offer_seq,
                 !.seq = k.seq + 1, !.offer_seq = k.seq + 1]
  ELSE k

Asking(k) ==
  /\ ~k.live /\ ~k.host_gone
  /\ k.state \notin {"REFUSED", "ANSWERED"}
  /\ k.host_cid # NoHost

MayAsk(k) == Asking(k) /\ (Renumbered(k) => k.seq < MaxAsk)

rdv_client_next(k) == [offer_seq(k) EXCEPT !.state = "OFFERED"]

OfferMsg(c, k) ==
  [kind |-> "OFFER", gen |-> k.host_gen, from |-> c, to |-> k.host_cid,
   seq |-> k.offer_seq, re |-> 0, body |-> k.my_packed]

rdv_client_set_live(k, live) ==
  [k EXCEPT !.live = live,
            !.state = IF ~live /\ k.state = "ANSWERED" THEN "ANNOUNCING" ELSE k.state]

rdv_client_ident_changed(k) == [k EXCEPT !.prev_offer_seq = 0]

\* sig_post: publish the description gathered under the current identity.
sig_post(k, rev) ==
  LET k1 == IF k.my_packed # NoBody /\ k.my_packed.ident # k.ident
            THEN rdv_client_ident_changed(k) ELSE k
  IN rdv_client_set_live([k1 EXCEPT !.my_packed = [ident |-> k.ident, rev |-> rev]], FALSE)

\* conn_gen_ice: a regather mints a fresh identity and says so before the
\* next description is posted.
conn_gen_ice(k) == rdv_client_ident_changed([k EXCEPT !.ident = k.ident + 1])

\* sig_rebuild: a fresh signaller, on the same rdv_client, has posted nothing
\* and seen no tombstone.
sig_rebuild(k) == [k EXCEPT !.my_packed = NoBody, !.tomb = "no"]

(***************************************************************************)
(* The steps of a claimant, each on its own record.                         *)
(***************************************************************************)
Changes(c, k) == cl' = [cl EXCEPT ![c] = k]

Read(c, v) == Changes(c, on_slot_get(c, cl[c], v))

Ask(c) == MayAsk(cl[c]) /\ Changes(c, rdv_client_next(cl[c]))

\* A description posted before the first ask, amended, or after a regather.
Posts(k) ==
  {rev \in 0 .. MaxRev :
     IF k.my_packed = NoBody \/ k.my_packed.ident # k.ident THEN rev = 0
     ELSE rev \in {k.my_packed.rev, k.my_packed.rev + 1}}

Post(c) == \E rev \in Posts(cl[c]) : Changes(c, sig_post(cl[c], rev))

Regather(c) == cl[c].ident < MaxIdent /\ Changes(c, conn_gen_ice(cl[c]))

\* The network moved: the signaller is rebuilt on the new one first.
Move(c) == cl[c].ident < MaxIdent /\ Changes(c, conn_gen_ice(sig_rebuild(cl[c])))

\* path_probe_expired: the same thing said again, as one the host has not read.
Reask(c) ==
  /\ cl[c].my_packed # NoBody
  /\ Changes(c, [rdv_client_set_live(cl[c], FALSE) EXCEPT !.reask = TRUE])

\* sig_withdraw: a path is live, over the segment if not punched, and nothing
\* more is asked.
Withdraw(c) == Changes(c, rdv_client_set_live(cl[c], TRUE))

\* sig_peer_ended: the tombstone has stood SIG_TOMB_SETTLE_MS.
TombSettles(c) == cl[c].tomb = "seen" /\ Changes(c, [cl[c] EXCEPT !.tomb = "settled"])

ClientInit == cl = [c \in Cids |-> rdv_client_init]

\* A claimant that believes the tombstone leaves.
Stays(c) == cl[c].tomb # "settled"

-----------------------------------------------------------------------------
\* Types of the rdv_client structure and what sig.c keeps beside it.
ClientTypeOK == cl \in [Cids -> Client]

\* The ask standing carries the newest number minted, and the one whose answer
\* is still taken is older: the host answers a number once, so an ask under a
\* number already used would be a replay to it and go unanswered for ever.
AskNumbersFresh ==
  \A c \in Cids :
    cl[c].offer_seq # 0
      => cl[c].offer_seq = cl[c].seq /\ cl[c].prev_offer_seq < cl[c].offer_seq

\* A statement is taken at most once: between two changes of host, every
\* answer or refusal that changes the claimant's state is numbered above the
\* last, so duplicates and lagging replicas are no-ops.
TakesOnce ==
  [][\A c \in Cids :
       (cl'[c].host_cid = cl[c].host_cid /\ cl'[c].state \in {"ANSWERED", "REFUSED"}
        /\ (cl'[c].state # cl[c].state \/ cl'[c].answer # cl[c].answer))
         => cl'[c].answer_seq > cl[c].answer_seq]_cl
=============================================================================
