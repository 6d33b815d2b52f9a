----------------------------- MODULE Rendezvous -----------------------------
(***************************************************************************)
(* A host and its claimants meeting in one replicated BEP44 cell.           *)
(*                                                                         *)
(* The cell (sig.c: cell_pack) has the host's place h and the turn c; every *)
(* writer keeps the place it did not author.  A write is a bep44_update: a  *)
(* lookup, a merge into the newest copy found, a compare-and-swap store on  *)
(* the nodes that replied, and the outcome reported to on_slot_put.  Nodes  *)
(* may miss a lookup or a store, acknowledgements may be lost, and a node   *)
(* may drop what it holds.  One write per party is in flight                *)
(* (slot_inflight), and between its phases everything else may happen.      *)
(*                                                                         *)
(* Above the cell stands the host's turnstile (session.c): offers queued,   *)
(* punches run for an ICE identity, workers serving it, and the calls they  *)
(* make into rdv_host.  A direct and a wide route differ in which nodes     *)
(* they reach, which here is any set of nodes.                              *)
(***************************************************************************)
EXTENDS RdvHost, RdvClient, FiniteSetsExt

CONSTANTS
  Nodes,            \* DHT nodes holding the cell
  HOST_MAX_WORKERS, \* punches and workers at once
  Events,           \* which of the rare events below may happen
  MaxSeq            \* bound: the store's sequences

ASSUME SlotsAssumption == HOST_MAX_WORKERS \in Nat \ {0}
ASSUME EventsAssumption ==
  Events \subseteq {"announce", "hold", "restore", "loss", "expire", "regather", "amend", "refuse", "spent",
                    "dropped", "reaped", "relay",
                    "roam", "rebuild", "reserve", "restart", "entomb"}

VARIABLES
  cell,      \* each node's copy of the cell
  ops,       \* the store each party has in flight
  hs,        \* the host signaller: its statement, and where it stands
  hcopy,     \* each claimant's copy of the host's statement, to relay
  offers,    \* sess.offers: the description queued for each claimant
  punch,     \* sess.punching: the punches running
  work       \* the workers

turnstile == <<offers, punch, work>>
vars == <<rh, cl, cell, ops, hs, hcopy, offers, punch, work>>

host == "host"
Parties == Cids \cup {host}

\* A definition whose name ends in _wrong is the next one with a slip in it, and
\* part of no specification: it shows that a property notices the slip.

Empty == [seq |-> 0, h |-> NoMsg, c |-> NoMsg]

\* struct sig_op and the bep44 operation under it.
Idle == [phase |-> "idle", kind |-> "NONE", val |-> NoMsg, free_turn |-> FALSE,
         wide |-> FALSE, seq_seen |-> -1, new |-> Empty, got |-> <<>>, cas |-> 0,
         stored |-> FALSE]

(***************************************************************************)
(* bep44: merge into the newest copy of the nodes R that replied, numbered  *)
(* above it unless nothing changed, and remember what each node holds.      *)
(***************************************************************************)
Newest(R) == {n \in R : \A o \in R : cell[n].seq >= cell[o].seq}

store_seq(cur, h, c) ==
  IF cur.seq = 0 THEN 1
  ELSE IF cur.h = h /\ cur.c = c THEN cur.seq
  ELSE cur.seq + 1

\* An old copy of the host's statement is relayed.
merge_refused_wrong(p, op, cur) ==
  op.kind = "OFFER" /\ ~rdv_client_may_replace(p, cl[p], cur.c)

\* turn_is_ours, for an ask; the relay of an old copy of the host's statement.
merge_refused(p, op, cur) ==
  \/ op.kind = "OFFER" /\ ~rdv_client_may_replace(p, cl[p], cur.c)
  \/ op.seq_seen >= 0 /\ cur.seq > op.seq_seen

\* The place it did not author is not kept.
merge_mine_wrong(op, cur) ==
  IF op.kind \in {"HOSTINFO", "TOMB"} THEN [h |-> op.val, c |-> NoMsg]
  ELSE [h |-> NoMsg, c |-> op.val]

\* A tombstone ends the session, and a host that has the turn back clears it.
merge_mine(op, cur) ==
  IF op.kind \in {"HOSTINFO", "TOMB"}
  THEN [h |-> op.val, c |-> IF op.kind = "TOMB" \/ op.free_turn THEN NoMsg ELSE cur.c]
  ELSE [h |-> cur.h, c |-> op.val]

Merged(op, cur, R) ==
  LET m == merge_mine(op, cur)
  IN [op EXCEPT !.phase = "store",
                !.new = [seq |-> store_seq(cur, m.h, m.c), h |-> m.h, c |-> m.c],
                !.got = [n \in R |-> cell[n].seq], !.cas = cur.seq]

\* op_finish: the outcome waits for on_slot_put, which has nothing to do for a
\* claimant.
Finished(p, stored) ==
  IF p = host
  THEN [ops[p] EXCEPT !.phase = "done", !.stored = stored,
                      !.new = Empty, !.got = <<>>, !.cas = 0]
  ELSE Idle

\* Of several newest copies the one that replied first, n, is merged into.
update_store(p, R, n) ==
  /\ ops[p].phase = "lookup" /\ n \in Newest(R)
  /\ \/ /\ merge_refused(p, ops[p], cell[n])
        /\ ops' = [ops EXCEPT ![p] = Finished(p, FALSE)]
     \/ /\ ~merge_refused(p, ops[p], cell[n])
        /\ Merged(ops[p], cell[n], R).new.seq <= MaxSeq
        /\ ops' = [ops EXCEPT ![p] = Merged(ops[p], cell[n], R)]
  /\ UNCHANGED <<rh, cl, cell, hs, hcopy, turnstile>>

\* A node takes a store that names the sequence it holds, at a higher one, or
\* at the same one for the same bytes.
node_cas(op, n) == IF op.got[n] # 0 THEN op.got[n] ELSE op.cas

\* A store at the sequence the node holds is taken, whatever it says.
handle_put_wrong(old, new, cas) == new.seq >= old.seq

handle_put(old, new, cas) ==
  \/ old.seq = 0
  \/ /\ cas \in {0, old.seq}
     /\ new.seq > old.seq \/ new = old

Accepting(op) == {n \in DOMAIN op.got : handle_put(cell[n], op.new, node_cas(op, n))}

\* The store reaches the nodes of W; it counts as stored if an acknowledgement
\* comes back.
StoreReaches(p, W, acked) ==
  /\ ops[p].phase = "store"
  /\ cell' = [n \in Nodes |-> IF n \in W \cap Accepting(ops[p]) THEN ops[p].new ELSE cell[n]]
  /\ ops' = [ops EXCEPT ![p] = Finished(p, acked /\ W \cap Accepting(ops[p]) # {})]
  /\ UNCHANGED <<rh, cl, hs, hcopy, turnstile>>

slot_put(p, op) == ops' = [ops EXCEPT ![p] = op]

Put(kind, val) == [Idle EXCEPT !.phase = "lookup", !.kind = kind, !.val = val]

slot_inflight(p) == ops[p].phase # "idle"

(***************************************************************************)
(* The host's signaller: host_pump_puts seals a statement that is due, then *)
(* puts an answer that is due, or its statement, unless a store is in       *)
(* flight; its timers say which of the two is tried in a given round.       *)
(***************************************************************************)
Sealed == IF rh.info_pending THEN NextInfo(rh) ELSE rh

SealedVal == IF rh.info_pending THEN InfoMsg(rh) ELSE hs.hval

host_info_seal ==
  /\ rh.seq < MaxHSeq
  /\ hs' = [hs EXCEPT !.hval = SealedVal, !.h_stale = @ \/ rh.info_pending]

\* An answer that finds a store in flight is owed again, its number spent.
host_answers ==
  /\ ~rh.gone /\ Sealed.seq < MaxHSeq
  /\ Due(Sealed) # {}
  /\ slot_inflight(host) => "hold" \in Events
  /\ host_info_seal
  /\ LET i == Lowest(Due(Sealed))
         h == NextAnswer(Sealed, i)
     IN IF slot_inflight(host)
        THEN rh' = rdv_host_unsent(h, h.tab[i].cid) /\ UNCHANGED ops
        ELSE rh' = h /\ slot_put(host, Put("ANSWER", AnswerMsg(Sealed, i)))
  /\ UNCHANGED <<cl, cell, hcopy, turnstile>>

\* Only what a read has shown to be stale is stored again.
StoreDue_wrong == hs.h_stale \/ rh.info_pending

\* A stale statement, one still to be located, or the cadence that places it
\* where the key belongs now.
StoreDue == hs.h_stale \/ rh.info_pending \/ ~hs.anchored \/ "restore" \in Events

host_slot_put ==
  /\ ~rh.gone /\ ~slot_inflight(host)
  /\ SealedVal # NoMsg
  /\ StoreDue
  /\ host_info_seal
  /\ rh' = Sealed
  /\ slot_put(host, [Put("HOSTINFO", SealedVal) EXCEPT !.free_turn = rh.turn_spent])
  /\ UNCHANGED <<cl, cell, hcopy, turnstile>>

\* The rendezvous node first, then where the key belongs.
host_tomb_put ==
  LET direct == hs.anchored /\ "direct" \notin hs.end_placed
  IN /\ rh.gone /\ ~slot_inflight(host)
     /\ direct \/ "wide" \notin hs.end_placed
     /\ host_info_seal
     /\ rh' = Sealed
     /\ slot_put(host, [Put("TOMB", SealedVal) EXCEPT !.free_turn = rh.turn_spent,
                                                      !.wide = ~direct])
     /\ UNCHANGED <<cl, cell, hcopy, turnstile>>

\* A round that seals and finds a store in flight.
SealOnly ==
  /\ rh.info_pending /\ slot_inflight(host)
  /\ host_info_seal
  /\ rh' = Sealed
  /\ UNCHANGED <<cl, cell, ops, hcopy, turnstile>>

\* on_slot_put, the host's.
on_slot_put ==
  LET op == ops[host]
  IN /\ op.phase = "done"
     /\ slot_put(host, Idle)
     /\ hs' = [hs EXCEPT
                 !.h_stale = @ /\ ~(op.kind = "HOSTINFO" /\ op.stored),
                 !.end_placed = IF op.kind = "TOMB" /\ op.stored
                                THEN @ \cup {IF op.wide THEN "wide" ELSE "direct"} ELSE @]
     /\ rh' = IF op.kind = "HOSTINFO" /\ op.stored /\ op.free_turn THEN rdv_host_turn_kept(rh)
              ELSE IF op.kind = "ANSWER" /\ ~op.stored THEN rdv_host_unsent(rh, op.val.to)
              ELSE rh
     /\ UNCHANGED <<cl, cell, hcopy, turnstile>>

\* The tombstone stands wherever it has to, and the process exits.
sig_end_placed ==
  rh.gone /\ "wide" \in hs.end_placed /\ (hs.anchored => "direct" \in hs.end_placed)

\* on_slot_get, the host's: node_note captures the node as the rendezvous if
\* there is none, host_slot_read finds its statement standing or not, and
\* claimant_read takes an ask up and queues its description (offers_push).
HostRead(n) ==
  LET v == cell[n]
      h == IF hs.anchored THEN rh ELSE [rh EXCEPT !.info_pending = TRUE]
      asks == v.c # NoMsg /\ v.c.kind = "OFFER" /\ NewAsk(h, v.c)
      room == offers[v.c.from] # NoBody
              \/ Cardinality({c \in Cids : offers[c] # NoBody}) < RDV_HOST_MAX
  IN /\ v.seq > 0
     /\ hs' = [hs EXCEPT !.anchored = TRUE,
                         !.h_stale = @ \/ (v.h # NoMsg /\ v.h # hs.hval)]
     /\ rh' = IF asks THEN rdv_host_slot(h, v.c) ELSE h
     /\ offers' = IF asks /\ ~FullFor(h, v.c) /\ v.c.body # NoBody /\ room
                  THEN [offers EXCEPT ![v.c.from] = v.c.body] ELSE offers
     /\ UNCHANGED <<cl, cell, ops, hcopy, punch, work>>

(***************************************************************************)
(* The turnstile (session.c: host_offer_take, punch_scan, punch_release and *)
(* the worker reap), while the session is served.                           *)
(***************************************************************************)
Serving == ~rh.gone

Punched(c, i) == [cid |-> c, ident |-> i, named |-> TRUE]

\* punch_dup and worker_by_ufrag: in hand for that identity already.
PunchDup(c, i) == Punched(c, i) \in punch

HasWorker(c, i) == \E w \in work : w.cid = c /\ w.ident = i

Taken(c) == offers' = [offers EXCEPT ![c] = NoBody]

\* The punch runs or the worker is not lost: the answer it was given stands.
OfferKept(c) ==
  /\ Serving /\ offers[c] # NoBody
  /\ PunchDup(c, offers[c].ident) \/ HasWorker(c, offers[c].ident)
  /\ rh' = rdv_host_keep(rh, c)
  /\ Taken(c)
  /\ UNCHANGED <<cl, cell, ops, hs, hcopy, punch, work>>

\* The admission budget is spent.
OfferRefused(c) ==
  /\ Serving /\ "refuse" \in Events /\ offers[c] # NoBody
  /\ ~PunchDup(c, offers[c].ident) /\ ~HasWorker(c, offers[c].ident)
  /\ rh' = rdv_host_refuse(rh, c)
  /\ Taken(c)
  /\ UNCHANGED <<cl, cell, ops, hs, hcopy, punch, work>>

InFlight == Cardinality(punch) + Cardinality(work)

\* punch_evict_idle's candidates: not a resumption and not asking now.
IdlePunches ==
  {q \in punch : ~q.named \/ (~HasWorker(q.cid, q.ident)
                              /\ ~(offers[q.cid] # NoBody /\ offers[q.cid].ident = q.ident))}

\* The ready agent is spent on it: a fresh punch, or one that resumes a proven
\* worker whose link is lost, evicting an idle one when every slot is taken.
OfferPunched(c) ==
  /\ Serving /\ offers[c] # NoBody
  /\ ~PunchDup(c, offers[c].ident)
  /\ \A w \in work : w.cid = c /\ w.ident = offers[c].ident => w.proven
  /\ LET i == offers[c].ident
     IN \/ /\ InFlight < HOST_MAX_WORKERS
           /\ punch' = punch \cup {Punched(c, i)}
           /\ rh' = rdv_host_answer(rh, c, i)
        \/ /\ InFlight >= HOST_MAX_WORKERS
           /\ \E q \in IdlePunches :
                /\ punch' = (punch \ {q}) \cup {Punched(c, i)}
                /\ rh' = rdv_host_answer(rdv_host_release(rh, q.cid), c, i)
  /\ Taken(c)
  /\ UNCHANGED <<cl, cell, ops, hs, hcopy, work>>

\* The claimant's agent answers checks under its current identity, whether or
\* not it has read the answer.  The punch becomes a worker, or is grafted onto
\* the one that serves this identity.
PunchConnects(q) ==
  /\ Serving /\ cl[q.cid].ident = q.ident
  /\ punch' = punch \ {q}
  /\ work' = IF q.named /\ HasWorker(q.cid, q.ident) THEN work
             ELSE work \cup {[cid |-> q.cid, ident |-> q.ident, proven |-> FALSE]}
  /\ UNCHANGED <<rh, cl, cell, ops, hs, hcopy, offers>>

PunchSpent(q) ==
  /\ Serving /\ "spent" \in Events
  /\ punch' = punch \ {q}
  /\ UNCHANGED <<rh, cl, cell, ops, hs, hcopy, offers, work>>

\* punch_drop_unreachable: it answered no v4 target and there is one now.
PunchDropped(q) ==
  /\ Serving /\ "dropped" \in Events
  /\ punch' = punch \ {q}
  /\ rh' = rdv_host_release(rh, q.cid)
  /\ UNCHANGED <<cl, cell, ops, hs, hcopy, offers, work>>

\* A pong, which only a claimant that read its answer sends.
WorkerProven(w) ==
  /\ Serving /\ ~w.proven
  /\ cl[w.cid].ident = w.ident /\ cl[w.cid].answer = w.ident
  /\ work' = (work \ {w}) \cup {[w EXCEPT !.proven = TRUE]}
  /\ rh' = rdv_host_release(rh, w.cid)
  /\ UNCHANGED <<cl, cell, ops, hs, hcopy, offers, punch>>

\* Its link was lost or never proven, or its client left: the claimant is
\* forgotten, and a punch for that identity goes on without its name.
WorkerReaped(w) ==
  /\ Serving /\ "reaped" \in Events
  /\ work' = work \ {w}
  /\ punch' = {IF q = Punched(w.cid, w.ident) THEN [q EXCEPT !.named = FALSE] ELSE q : q \in punch}
  /\ rh' = rdv_host_forget(rh, w.cid)
  /\ UNCHANGED <<cl, cell, ops, hs, hcopy, offers>>

(***************************************************************************)
(* What befalls the host.                                                   *)
(***************************************************************************)
\* punch_release for every punch.
Released(S) == FoldSet(LAMBDA c, h : rdv_host_release(h, c), rh, S)

NewSig == [hval |-> NoMsg, h_stale |-> FALSE, end_placed |-> {}, anchored |-> FALSE]

\* sig_rebuild: the store in flight dies with the old signaller, and the anchor
\* the model holds is handed to the new one (sig_reinforce makes the statement
\* due again).
sig_rebuilt(h) ==
  /\ hs' = [NewSig EXCEPT !.anchored = hs.anchored]
  /\ slot_put(host, Idle)
  /\ rh' = [h EXCEPT !.info_pending = @ \/ hs.anchored]

\* The network moved: its punches are released, and a fresh signaller speaks
\* under the next generation.
HostRoam ==
  /\ Serving /\ "roam" \in Events /\ rh.gen + 1 \in Gens
  /\ sig_rebuilt(rdv_host_set_gen(Released({q.cid : q \in punch}), rh.gen + 1))
  /\ punch' = {}
  /\ UNCHANGED <<cl, cell, hcopy, offers, work>>

\* Nothing came back for a while: a fresh signaller, the same generation.
HostRebuild ==
  /\ Serving /\ "rebuild" \in Events /\ hs.hval # NoMsg
  /\ sig_rebuilt(rh)
  /\ UNCHANGED <<cl, cell, hcopy, turnstile>>

\* session_run again in this process, and the process started again.
HostAgain(id, g) ==
  /\ rh' = rdv_host_init(id, g)
  /\ hs' = NewSig
  /\ slot_put(host, Idle)
  /\ offers' = [c \in Cids |-> NoBody]
  /\ punch' = {} /\ work' = {}
  /\ UNCHANGED <<cl, cell, hcopy>>

HostReserve ==
  "reserve" \in Events /\ Serving /\ rh.gen + 1 \in Gens /\ HostAgain(rh.cid, rh.gen + 1)

HostRestart ==
  "restart" \in Events /\ rh.cid + 1 \in HostIds /\ HostAgain(rh.cid + 1, rh.gen)

\* The shared session is over: the turnstile is left and the tombstone due.
HostEnds ==
  /\ Serving /\ "entomb" \in Events
  /\ rh' = rdv_host_entomb(rh)
  /\ offers' = [c \in Cids |-> NoBody]
  /\ punch' = {} /\ work' = {}
  /\ UNCHANGED <<cl, cell, ops, hcopy, hs>>

(***************************************************************************)
(* The claimants.                                                           *)
(***************************************************************************)
hostVars == <<rh, hs, turnstile>>

\* client_pump_puts: the ask if there is one to make, else the relay of the
\* host's statement.  Whether the peer asked for the relay is not tracked.
ClientAsks(c) ==
  /\ ~slot_inflight(c) /\ MayAsk(cl[c])
  /\ "announce" \in Events \/ cl[c].my_packed # NoBody
  /\ Changes(c, rdv_client_next(cl[c]))
  /\ slot_put(c, Put("OFFER", OfferMsg(c, rdv_client_next(cl[c]))))
  /\ UNCHANGED <<cell, hcopy, hostVars>>

ClientRelays(c) ==
  /\ ~slot_inflight(c) /\ ~Asking(cl[c])
  /\ "relay" \in Events /\ hcopy[c].val # NoMsg
  /\ slot_put(c, [Put("HOSTINFO", hcopy[c].val) EXCEPT !.seq_seen = hcopy[c].seq])
  /\ UNCHANGED <<cl, cell, hcopy, hostVars>>

\* host_slot_read keeps the newest statement for the relay, which is all it is
\* read for.
ClientReads(c, n) ==
  /\ cell[n].seq > 0
  /\ Read(c, cell[n])
  /\ hcopy' = IF "relay" \in Events /\ cell[n].h # NoMsg /\ cell[n].seq >= hcopy[c].seq
              THEN [hcopy EXCEPT ![c] = [val |-> cell[n].h, seq |-> cell[n].seq]] ELSE hcopy
  /\ UNCHANGED <<cell, ops, hostVars>>

Presents(k) == k.my_packed # NoBody /\ k.my_packed.ident = k.ident

\* A description gathered for the first time or under a fresh identity.
ClientPosts(c) == ~Presents(cl[c]) /\ Post(c) /\ UNCHANGED <<cell, ops, hcopy, hostVars>>

\* The same one again, or with a candidate that came late.
ClientReposts(c) ==
  "amend" \in Events /\ Presents(cl[c]) /\ Post(c) /\ UNCHANGED <<cell, ops, hcopy, hostVars>>

ClientReasks(c) == "amend" \in Events /\ Reask(c) /\ UNCHANGED <<cell, ops, hcopy, hostVars>>

ClientRegathers(c) ==
  "regather" \in Events /\ Regather(c) /\ UNCHANGED <<cell, ops, hcopy, hostVars>>

ClientMoves(c) ==
  /\ "regather" \in Events /\ Move(c)
  /\ slot_put(c, Idle)
  /\ hcopy' = [hcopy EXCEPT ![c] = [val |-> NoMsg, seq |-> -1]]
  /\ UNCHANGED <<cell, hostVars>>

\* A path is ready under the answer taken.
ClientConnected(c) ==
  /\ ~cl[c].live /\ cl[c].answer = cl[c].ident /\ HasWorker(c, cl[c].ident)
  /\ Withdraw(c)
  /\ UNCHANGED <<cell, ops, hcopy, hostVars>>

ClientLeaves(c) == TombSettles(c) /\ UNCHANGED <<cell, ops, hcopy, hostVars>>

(***************************************************************************)
(* The nodes.                                                               *)
(***************************************************************************)
Expire(n) ==
  /\ "expire" \in Events /\ cell[n].seq > 0
  /\ cell' = [cell EXCEPT ![n] = Empty]
  /\ UNCHANGED <<rh, cl, ops, hs, hcopy, turnstile>>

Init ==
  /\ rh = rdv_host_init(1, 1)
  /\ ClientInit
  /\ cell = [n \in Nodes |-> Empty]
  /\ ops = [p \in Parties |-> Idle]
  /\ hs = NewSig
  /\ hcopy = [c \in Cids |-> [val |-> NoMsg, seq |-> -1]]
  /\ offers = [c \in Cids |-> NoBody]
  /\ punch = {} /\ work = {}

StoreLost(p) ==
  "loss" \in Events /\ \E W \in SUBSET Nodes : StoreReaches(p, W, FALSE)

StoreArrives(p) == \E W \in SUBSET Nodes \ {{}} : StoreReaches(p, W, TRUE)

HostSteps ==
  \/ /\ ~sig_end_placed
     /\ \/ host_answers \/ host_slot_put \/ host_tomb_put \/ SealOnly \/ on_slot_put
        \/ \E n \in Nodes : HostRead(n)
        \/ HostRoam \/ HostRebuild \/ HostReserve \/ HostEnds
  \/ HostRestart

TurnstileSteps ==
  \/ \E c \in Cids : OfferKept(c) \/ OfferRefused(c) \/ OfferPunched(c)
  \/ \E q \in punch : PunchConnects(q) \/ PunchSpent(q) \/ PunchDropped(q)
  \/ \E w \in work : WorkerProven(w) \/ WorkerReaped(w)

ClientSteps(c) ==
  /\ Stays(c)
  /\ \/ ClientAsks(c) \/ ClientRelays(c) \/ ClientPosts(c) \/ ClientReposts(c)
     \/ ClientReasks(c) \/ ClientRegathers(c) \/ ClientMoves(c)
     \/ ClientConnected(c) \/ ClientLeaves(c)
     \/ \E n \in Nodes : ClientReads(c, n)

StoreSteps(p) ==
  \/ \E R \in SUBSET Nodes \ {{}} : \E n \in R : update_store(p, R, n)
  \/ StoreLost(p) \/ StoreArrives(p)

Next ==
  \/ HostSteps
  \/ TurnstileSteps
  \/ \E c \in Cids : ClientSteps(c)
  \/ \E p \in Parties : StoreSteps(p)
  \/ \E n \in Nodes : Expire(n)

Spec == Init /\ [][Next]_vars

(***************************************************************************)
(* Every party pumps its signaller on a timer (sig_dispatch), so what it    *)
(* may do it does, and an answer is tried before the statement in each      *)
(* round, so it is not passed over for ever.  A lookup and a store retried  *)
(* for ever reach every node in the end, and of several newest copies each  *)
(* is at some time the first to reply.  A node stops losing what it holds.  *)
(* A connected punch is proven or, unproven, reaped by the host's own       *)
(* timer.  Nothing else is assumed of the rare events.                      *)
(***************************************************************************)
Runs(A) == ~sig_end_placed /\ A

ReachesAll(p) == StoreReaches(p, Nodes, TRUE) /\ Accepting(ops[p]) = Nodes

Fairness ==
  /\ SF_vars(Runs(host_answers /\ ~slot_inflight(host)))
  /\ WF_vars(Runs(host_slot_put)) /\ WF_vars(Runs(host_tomb_put))
  /\ WF_vars(Runs(on_slot_put))
  /\ \A n \in Nodes : WF_vars(Runs(HostRead(n)))
  /\ \A p \in Parties : /\ \A n \in Nodes : SF_vars(update_store(p, Nodes, n))
                         /\ WF_vars(StoreArrives(p)) /\ SF_vars(ReachesAll(p))
  /\ <>[][\A n \in Nodes : ~Expire(n)]_vars
  /\ WF_vars(\E c \in Cids : OfferKept(c) \/ OfferPunched(c))
  /\ WF_vars(\E q \in punch : PunchConnects(q))
  /\ WF_vars(\E w \in work : WorkerProven(w))
  /\ WF_vars(\E w \in work : ~w.proven /\ WorkerReaped(w))
  /\ \A c \in Cids :
       /\ WF_vars(Stays(c) /\ ClientPosts(c)) /\ WF_vars(Stays(c) /\ ClientAsks(c))
       /\ \A n \in Nodes : WF_vars(Stays(c) /\ ClientReads(c, n))
       /\ WF_vars(Stays(c) /\ ClientConnected(c)) /\ WF_vars(Stays(c) /\ ClientLeaves(c))

LiveSpec == Spec /\ Fairness

-----------------------------------------------------------------------------
Messages ==
  [kind: {"OFFER"}, gen: Gens, from: Cids, to: HostIds, seq: Nat, re: {0},
   body: Descriptions \cup {NoBody}]
  \cup [kind: {"ANSWER", "REFUSE"}, gen: Gens, from: HostIds, to: Cids, seq: Nat, re: Nat,
        body: Idents \cup {NoBody}]

Cell == [seq: Nat, h: [kind: {"HOSTINFO", "TOMB"}, gen: Gens, from: HostIds, seq: Nat] \cup {NoMsg},
         c: Messages \cup {NoMsg}]

\* Types of the two ends, of the cell and of what the turnstile keeps.
TypeOK ==
  /\ HostTypeOK /\ ClientTypeOK
  /\ cell \in [Nodes -> Cell]
  /\ \A p \in Parties : ops[p].phase \in {"idle", "lookup", "store", "done"} /\ ops[p].new \in Cell
  /\ hs.h_stale \in BOOLEAN /\ hs.end_placed \subseteq {"direct", "wide"} /\ hs.anchored \in BOOLEAN
  /\ offers \in [Cids -> Descriptions \cup {NoBody}]
  /\ punch \subseteq [cid: Cids, ident: Idents, named: BOOLEAN]
  /\ work \subseteq [cid: Cids, ident: Idents, proven: BOOLEAN]

\* With one node, every store is the merge of its statement into the cell as it
\* stands when the store lands: no claimant's ask rolls the host's place back,
\* no relay of an old copy takes a tombstone away, and no statement of the host
\* is lost to an ask that had not seen it (the compare-and-swap of bep44.c and
\* the sequence merge_mine refuses a relay at).
TheCell == INSTANCE Cell WITH reg <- cell[CHOOSE n \in Nodes : TRUE]

ImplementsCell == TheCell!CellSpec

\* A claimant never writes over an answer it would take (turn_is_ours): "written
\* over before that, it leaves both ends waiting on each other".
AnswerIsRead ==
  [][\A n \in Nodes, c \in Cids :
       (cell'[n] # cell[n] /\ cell'[n].c # NoMsg /\ cell'[n].c.from = c /\ cell[n].c # NoMsg)
         => ~rdv_client_would_take(c, cl[c], cell[n].c)]_vars

\* L2, the host never answers with silence: an ask it took that carries a
\* description waits in the turnstile's queue until the turnstile answers,
\* keeps or refuses it.
NeverSilent ==
  Serving => \A i \in Rows : rh.tab[i].state = "HARVESTED" => offers[rh.tab[i].cid] # NoBody

\* An answer taken answers the identity the claimant presents when it takes it
\* (conn_gen_ice tells sig of a fresh one "before the next offer is posted,
\* since an answer to the one it supersedes can arrive in between").
TakenForIdentity ==
  [][\A c \in Cids :
       (cl'[c].answer_seq > cl[c].answer_seq /\ cl'[c].answer # NoBody)
         => cl'[c].answer = cl[c].ident]_vars

\* The bounds of the model were met: a claimant may renumber its ask, and the
\* host spend a number on a held answer, as often as a store stays in flight.
OutOfNumbers ==
  \/ rh.seq >= MaxHSeq - 1
  \/ \E c \in Cids : cl[c].seq = MaxAsk
  \/ \E n \in Nodes : cell[n].seq = MaxSeq

\* A claimant that can be reached joins: it finds the host's statement, asks, is
\* answered under the identity it presents or refused, and is connected, with
\* no timer at its end to rescue it (ST_SIGNAL waits).
Joins == \A c \in Cids : <>(cl[c].live \/ cl[c].state = "REFUSED" \/ OutOfNumbers)

\* A host that ends is believed: the tombstone, once placed, reaches every
\* claimant and nothing takes it away before it settles.
EndIsLearned == sig_end_placed ~> (\A c \in Cids : ~Stays(c))

\* A serving host's statement keeps coming back to every node, whatever they
\* lose or miss (h_stale, and the cadence of host_slot_put).
HostHeals ==
  []<>(rh.gone \/ \A n \in Nodes : cell[n].h # NoMsg /\ cell[n].h = hs.hval)
=============================================================================
