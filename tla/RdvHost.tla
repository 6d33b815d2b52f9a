------------------------------ MODULE RdvHost ------------------------------
(***************************************************************************)
(* The host's half of the rendezvous (rdv.c): the table of claimants it     *)
(* has read an ask from, whose answer is owed (pending) and whose stands in *)
(* the cell's turn (holds), the statement counter, and the flags that say   *)
(* its own statement is due and that the turn is its to clear.              *)
(*                                                                         *)
(* struct rdv_host is the record rh, and each C function an operator from   *)
(* the record before the call to the record after it, so that a caller that *)
(* makes two calls in one step composes them.  HostSpec is the C file's     *)
(* call interface with no assumption on the order of the calls: sig.c and   *)
(* the turnstile of session.c make them, and Rendezvous composes the three. *)
(* What holds here holds for every caller.                                  *)
(***************************************************************************)
EXTENDS RdvNames, FiniteSets

CONSTANTS
  Bodies,         \* answer payloads
  NoCid,          \* a row of the table nobody has used
  Grant,          \* rdv_host.grant: answers handed out at once, 0 is unlimited
  RDV_HOST_MAX,   \* rows of the table
  MaxHSeq         \* bound: the host's statement numbers

ASSUME HostMaxAssumption == RDV_HOST_MAX \in Nat \ {0}
ASSUME GrantAssumption == Grant \in Nat
ASSUME HostBounds == MaxHSeq \in Nat
ASSUME NamesAssumption == NoCid \notin Cids /\ NoBody \notin Bodies

VARIABLE rh

Rows == 1 .. RDV_HOST_MAX

RowStates == {"FREE", "HARVESTED", "ANSWERED", "REFUSED", "GONE"}

Row == [cid: Cids \cup {NoCid}, state: RowStates, have_seq: BOOLEAN,
        last_seq: Nat, answer_re: Nat, pending: BOOLEAN, holds: BOOLEAN,
        answer: Bodies \cup {NoBody}]

Host == [cid: HostIds, gen: Gens, seq: Nat, tab: [Rows -> Row], answered: Nat,
         info_pending: BOOLEAN, turn_spent: BOOLEAN, gone: BOOLEAN]

FreeRow == [cid |-> NoCid, state |-> "FREE", have_seq |-> FALSE, last_seq |-> 0,
            answer_re |-> 0, pending |-> FALSE, holds |-> FALSE,
            answer |-> NoBody]

rdv_host_init(id, g) ==
  [cid |-> id, gen |-> g, seq |-> 0, tab |-> [i \in Rows |-> FreeRow],
   answered |-> 0, info_pending |-> TRUE, turn_spent |-> FALSE, gone |-> FALSE]

\* A definition whose name ends in _wrong is the next one with a slip in it, and
\* part of no specification: it shows that a property notices the slip.

(***************************************************************************)
(* rdv_host_find, host_evict and host_admit.  The searches run from the     *)
(* first row up, so each picks the lowest row of a set.                     *)
(***************************************************************************)
Lowest(S) == CHOOSE i \in S : \A j \in S : i <= j

RowsOf(h, cid) == {i \in Rows : h.tab[i].state # "FREE" /\ h.tab[i].cid = cid}

Known(h, cid) == RowsOf(h, cid) # {}

rdv_host_find(h, cid) == Lowest(RowsOf(h, cid))

InState(h, st) == {i \in Rows : h.tab[i].state = st}

Admissible(h, cid) ==
  Known(h, cid) \/ \E st \in {"FREE", "GONE", "REFUSED"} : InState(h, st) # {}

\* The claimant is not looked for.
host_admit_wrong(h, cid) ==
  IF InState(h, "FREE") # {} THEN Lowest(InState(h, "FREE"))
  ELSE IF InState(h, "GONE") # {} THEN Lowest(InState(h, "GONE"))
  ELSE Lowest(InState(h, "REFUSED"))

\* The first row is evicted, whoever has it.
host_evict_wrong(h, cid) ==
  IF Known(h, cid) THEN rdv_host_find(h, cid)
  ELSE IF InState(h, "FREE") # {} THEN Lowest(InState(h, "FREE"))
  ELSE Lowest(Rows)

host_admit(h, cid) ==
  IF Known(h, cid) THEN rdv_host_find(h, cid)
  ELSE IF InState(h, "FREE") # {} THEN Lowest(InState(h, "FREE"))
  ELSE IF InState(h, "GONE") # {} THEN Lowest(InState(h, "GONE"))
  ELSE Lowest(InState(h, "REFUSED"))

\* The row an ask from cid is judged against: its own, or a fresh one.
AdmittedRow(h, cid) ==
  IF Known(h, cid) THEN h.tab[rdv_host_find(h, cid)]
  ELSE [FreeRow EXCEPT !.cid = cid, !.state = "HARVESTED"]

\* Another claimant than row i's believes its answer stands in the cell.
answer_stands(h, i) == \E j \in Rows : j # i /\ h.tab[j].holds

\* Neither the state nor the floor is looked at.
Less_wrong(h, st) == h.answered - 1

\* `answered` without a claimant in state st, and with one.
Less(h, st) == IF st = "ANSWERED" /\ h.answered > 0 THEN h.answered - 1 ELSE h.answered

More(h, st) == IF st # "ANSWERED" THEN h.answered + 1 ELSE h.answered

(***************************************************************************)
(* rdv_host_slot: an ask m = [from, to, seq, ...] read from the turn.       *)
(***************************************************************************)
\* A replay is new.
NewAsk_wrong(h, m) == m.to = h.cid /\ Admissible(h, m.from)

\* Addressed to this instance, and above the last sequence taken from that
\* claimant, or its first.
NewAsk(h, m) ==
  /\ m.to = h.cid
  /\ Admissible(h, m.from)
  /\ ~(AdmittedRow(h, m.from).have_seq /\ m.seq <= AdmittedRow(h, m.from).last_seq)

\* The grant is spent: rdv_host_slot refuses and the session never hears.
FullFor(h, m) == Grant > 0 /\ Less(h, AdmittedRow(h, m.from).state) >= Grant

rdv_host_slot(h, m) ==
  LET i == host_admit(h, m.from)
      r == AdmittedRow(h, m.from)
      asked == [r EXCEPT !.last_seq = m.seq, !.have_seq = TRUE,
                         !.holds = FALSE, !.state = "HARVESTED"]
      refused == [asked EXCEPT !.state = "REFUSED", !.pending = TRUE,
                               !.answer_re = m.seq]
  IN [h EXCEPT
        !.tab = [j \in Rows |->
                   IF j = i THEN IF FullFor(h, m) THEN refused ELSE asked
                   ELSE [h.tab[j] EXCEPT !.holds = FALSE]],
        !.answered = Less(h, r.state),
        !.turn_spent = FALSE]

(***************************************************************************)
(* What the session and sig.c say of a claimant.  Each is a no-op for one   *)
(* the table does not hold.                                                 *)
(***************************************************************************)
WithRow(h, i, r) == [h.tab EXCEPT ![i] = r]

\* One answer is owed at a time, and the second is dropped.
rdv_host_answer_wrong(h, cid, body) ==
  LET i == rdv_host_find(h, cid)
      r == h.tab[i]
  IN IF ~Known(h, cid) \/ \E j \in Rows : h.tab[j].pending THEN h
     ELSE [h EXCEPT
             !.answered = More(h, r.state),
             !.tab = WithRow(h, i, [r EXCEPT !.state = "ANSWERED", !.pending = TRUE,
                                             !.answer_re = r.last_seq, !.answer = body])]

rdv_host_answer(h, cid, body) ==
  LET i == rdv_host_find(h, cid)
      r == h.tab[i]
  IN IF ~Known(h, cid) THEN h
     ELSE [h EXCEPT
             !.answered = More(h, r.state),
             !.tab = WithRow(h, i, [r EXCEPT !.state = "ANSWERED", !.pending = TRUE,
                                             !.answer_re = r.last_seq, !.answer = body])]

rdv_host_refuse(h, cid) ==
  LET i == rdv_host_find(h, cid)
      r == h.tab[i]
  IN IF ~Known(h, cid) THEN h
     ELSE [h EXCEPT
             !.answered = Less(h, r.state),
             !.tab = WithRow(h, i, [r EXCEPT !.state = "REFUSED", !.pending = TRUE,
                                             !.answer_re = r.last_seq, !.answer = NoBody])]

\* Only an answer whose claimant has not asked again is kept.
MayKeep_wrong(r) == r.state \in {"ANSWERED", "REFUSED"}

\* The same answer stated again, against the ask in hand now; with none to
\* state, nothing.
MayKeep(r) == r.state # "GONE" /\ (r.state = "REFUSED" \/ r.answer # NoBody)

rdv_host_keep(h, cid) ==
  LET i == rdv_host_find(h, cid)
      r == h.tab[i]
      owed == r.pending \/ ~r.holds
  IN IF ~Known(h, cid) \/ ~MayKeep(r) THEN h
     ELSE [h EXCEPT
             !.answered = More(h, r.state),
             !.tab = WithRow(h, i, [r EXCEPT !.state = "ANSWERED", !.pending = owed,
                                             !.answer_re = IF owed THEN r.last_seq ELSE @])]

\* An emission that never went out is owed again.
rdv_host_unsent(h, cid) ==
  LET i == rdv_host_find(h, cid)
  IN IF ~Known(h, cid) \/ h.tab[i].state = "GONE" THEN h
     ELSE [h EXCEPT !.tab = WithRow(h, i, [h.tab[i] EXCEPT !.pending = TRUE, !.holds = FALSE])]

\* `answered` is not decremented.
rdv_host_forget_wrong(h, cid) ==
  LET i == rdv_host_find(h, cid)
      r == h.tab[i]
  IN IF ~Known(h, cid) THEN h
     ELSE [h EXCEPT
             !.tab = WithRow(h, i, [r EXCEPT !.state = "GONE", !.pending = FALSE,
                                             !.holds = FALSE, !.answer = NoBody]),
             !.info_pending = TRUE, !.turn_spent = TRUE]

rdv_host_forget(h, cid) ==
  LET i == rdv_host_find(h, cid)
      r == h.tab[i]
  IN IF ~Known(h, cid) THEN h
     ELSE [h EXCEPT
             !.answered = Less(h, r.state),
             !.tab = WithRow(h, i, [r EXCEPT !.state = "GONE", !.pending = FALSE,
                                             !.holds = FALSE, !.answer = NoBody]),
             !.info_pending = TRUE, !.turn_spent = TRUE]

\* The cell is the host's again, unless it still owes this claimant.
rdv_host_release(h, cid) ==
  LET i == rdv_host_find(h, cid)
      known == Known(h, cid)
      owes == known /\ h.tab[i].pending
  IN [h EXCEPT
        !.tab = IF known THEN WithRow(h, i, [h.tab[i] EXCEPT !.holds = FALSE]) ELSE @,
        !.info_pending = @ \/ ~owes, !.turn_spent = @ \/ ~owes]

rdv_host_turn_kept(h) == [h EXCEPT !.turn_spent = FALSE]

rdv_host_set_gen(h, g) == IF g = h.gen THEN h ELSE [h EXCEPT !.gen = g, !.info_pending = TRUE]

rdv_host_entomb(h) == [h EXCEPT !.gone = TRUE, !.info_pending = TRUE]

(***************************************************************************)
(* rdv_host_next: the host's own statement first, then the lowest row owed  *)
(* an answer that no other claimant's standing answer keeps waiting.  Each  *)
(* half is the statement emitted and the record after it.                   *)
(***************************************************************************)
InfoMsg(h) == [kind |-> IF h.gone THEN "TOMB" ELSE "HOSTINFO", gen |-> h.gen,
               from |-> h.cid, seq |-> h.seq + 1]

NextInfo(h) == [h EXCEPT !.seq = @ + 1, !.info_pending = FALSE]

\* Nobody's standing answer is waited for.
Due_wrong(h) == {i \in Rows : h.tab[i].pending}

Due(h) == {i \in Rows : h.tab[i].pending /\ ~answer_stands(h, i)}

AnswerMsg(h, i) ==
  [kind |-> IF h.tab[i].state = "REFUSED" THEN "REFUSE" ELSE "ANSWER",
   gen |-> h.gen, from |-> h.cid, to |-> h.tab[i].cid, seq |-> h.seq + 1,
   re |-> h.tab[i].answer_re,
   body |-> IF h.tab[i].state = "REFUSED" THEN NoBody ELSE h.tab[i].answer]

NextAnswer(h, i) ==
  [h EXCEPT !.seq = @ + 1,
            !.tab = WithRow(h, i, [h.tab[i] EXCEPT !.pending = FALSE, !.holds = TRUE])]

(***************************************************************************)
(* Every call in any order, over the life of one rdv_host_init.            *)
(***************************************************************************)
Asks == [from: Cids, to: HostIds, seq: 1 .. MaxAsk]

HostInit == \E id \in HostIds, g \in Gens : rh = rdv_host_init(id, g)

Slot == \E m \in Asks : NewAsk(rh, m) /\ rh' = rdv_host_slot(rh, m)

Speak ==
  \/ rh.info_pending /\ rh.seq < MaxHSeq /\ rh' = NextInfo(rh)
  \/ /\ ~rh.info_pending /\ Due(rh) # {} /\ rh.seq < MaxHSeq
     /\ rh' = NextAnswer(rh, Lowest(Due(rh)))

HostNext ==
  \/ Slot
  \/ Speak
  \/ \E cid \in Cids :
       \/ \E b \in Bodies : rh' = rdv_host_answer(rh, cid, b)
       \/ rh' = rdv_host_refuse(rh, cid)
       \/ rh' = rdv_host_keep(rh, cid)
       \/ rh' = rdv_host_unsent(rh, cid)
       \/ rh' = rdv_host_forget(rh, cid)
       \/ rh' = rdv_host_release(rh, cid)
  \/ rh' = rdv_host_turn_kept(rh)
  \/ \E g \in Gens : rh' = rdv_host_set_gen(rh, g)
  \/ rh' = rdv_host_entomb(rh)

HostSpec == HostInit /\ [][HostNext]_rh

-----------------------------------------------------------------------------
\* Types of the rdv_host structure.
HostTypeOK == rh \in Host

\* A claimant has at most one row, so an ask, an answer and a release all
\* speak of the same one (rdv_host_find stops at the first it meets).
OneRowEach ==
  \A i, j \in Rows :
    (i # j /\ rh.tab[i].state # "FREE" /\ rh.tab[j].state # "FREE")
      => rh.tab[i].cid # rh.tab[j].cid

\* rdv_host.answered, kept by hand in five functions and decremented behind
\* an `if (h->answered > 0)` that would hide an underflow, is the number of
\* claimants holding an answer: it is what the grant is judged against.
AnsweredExact ==
  rh.answered = Cardinality({i \in Rows : rh.tab[i].state = "ANSWERED"})

\* The cell has one turn: at most one claimant's answer is believed to stand
\* in it, and a row nobody answers any more neither owes nor stands.
OneStands ==
  /\ \A i, j \in Rows : (rh.tab[i].holds /\ rh.tab[j].holds) => i = j
  /\ \A i \in Rows : (rh.tab[i].pending \/ rh.tab[i].holds)
                       => rh.tab[i].state \notin {"FREE", "GONE"}

\* An answered claimant is never evicted for a newcomer, and neither is one
\* still waiting for its answer: whatever is called, their rows stay theirs.
EngagedKeepsRow ==
  [][\A i \in Rows : rh.tab[i].state \in {"HARVESTED", "ANSWERED"}
                       => rh'.tab[i].cid = rh.tab[i].cid]_rh

\* A replayed or reordered ask changes nothing: while a claimant keeps its
\* row, GONE included, the last sequence taken from it never goes back.
SeqMonotone ==
  [][\A i \in Rows : rh'.tab[i].cid = rh.tab[i].cid
                       => rh'.tab[i].last_seq >= rh.tab[i].last_seq]_rh

=============================================================================
