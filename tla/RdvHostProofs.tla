--------------------------- MODULE RdvHostProofs ---------------------------
(***************************************************************************)
(* The host's claimant table is sound whatever its callers do: the          *)
(* properties of RdvHost, proved for every set of claimants, every grant    *)
(* and every size of the table.                                            *)
(*                                                                         *)
(* The induction is on HostInv.  Each call of rdv.c replaces the row of one *)
(* claimant, so the argument has two halves: what replacing a row needs to  *)
(* keep the invariant (RowReplaced, Recounted), and that each call replaces *)
(* a row in that way.                                                      *)
(***************************************************************************)
EXTENDS RdvHost, FiniteSetTheorems, WellFoundedInduction, TLAPS

\* The properties of RdvHost, of a record rather than of the variable.
Unique(h) ==
  \A i, j \in Rows :
    (i # j /\ h.tab[i].state # "FREE" /\ h.tab[j].state # "FREE")
      => h.tab[i].cid # h.tab[j].cid

Answered(h) == {i \in Rows : h.tab[i].state = "ANSWERED"}

Counted(h) == h.answered = Cardinality(Answered(h))

Standing(h) ==
  /\ \A i, j \in Rows : (h.tab[i].holds /\ h.tab[j].holds) => i = j
  /\ \A i \in Rows : (h.tab[i].pending \/ h.tab[i].holds)
                       => h.tab[i].state \notin {"FREE", "GONE"}

\* No sequence is remembered of a claimant none was taken from.
Heard(h) ==
  \A i \in Rows : /\ h.tab[i].state = "FREE" => ~h.tab[i].have_seq
                  /\ ~h.tab[i].have_seq => h.tab[i].last_seq = 0

\* The inductive invariant.  Uniqueness is what makes the row a call finds the
\* claimant's only one; the type is what makes the counter a number;
\* Heard is what makes a first ask no step back.
HostInv(h) == h \in Host /\ Unique(h) /\ Counted(h) /\ Standing(h) /\ Heard(h)

(***************************************************************************)
(* The searches.                                                           *)
(***************************************************************************)
\* Every search of rdv.c that meets a row ends at one: a nonempty set of rows
\* has a lowest.
LEMMA LowestRow ==
  ASSUME NEW S, S \subseteq Rows, S # {}
  PROVE  Lowest(S) \in S
<1> DEFINE Below == {p \in Nat \X Nat : p[1] < p[2]}
<1>1. S \subseteq Nat
  BY HostMaxAssumption DEF Rows
<1>2. IsWellFoundedOn(Below, Nat)
  BY NatLessThanWellFounded DEF OpToRel
<1> HIDE DEF Below
<1>3. PICK x \in S : \A y \in S : ~(<<y, x>> \in Below)
  BY <1>1, <1>2, WFMin
<1>4. \A y \in S : x <= y
  <2>1. SUFFICES ASSUME NEW y \in S PROVE x <= y
    OBVIOUS
  <2>2. ~(y < x)
    BY <1>1, <1>3 DEF Below
  <2>3. QED
    BY <1>1, <2>2
<1>5. QED
  BY <1>3, <1>4 DEF Lowest

\* rdv_host_find finds a row of the claimant it is asked for.
LEMMA Found ==
  ASSUME NEW h, NEW cid, Known(h, cid)
  PROVE  /\ rdv_host_find(h, cid) \in Rows
         /\ h.tab[rdv_host_find(h, cid)].state # "FREE"
         /\ h.tab[rdv_host_find(h, cid)].cid = cid
<1>1. rdv_host_find(h, cid) \in RowsOf(h, cid)
  BY LowestRow DEF Known, RowsOf, rdv_host_find
<1>2. QED
  BY <1>1 DEF RowsOf

\* host_admit never touches a row whose claimant is waiting or answered,
\* except that claimant's own.
LEMMA Admitted ==
  ASSUME NEW h, NEW cid, Admissible(h, cid)
  PROVE  /\ host_admit(h, cid) \in Rows
         /\ Known(h, cid) => host_admit(h, cid) = rdv_host_find(h, cid)
         /\ ~Known(h, cid) =>
              h.tab[host_admit(h, cid)].state \in {"FREE", "GONE", "REFUSED"}
<1>1. CASE Known(h, cid)
  BY <1>1, Found DEF host_admit
<1>2. CASE ~Known(h, cid)
  <2>1. \A st : InState(h, st) # {} => Lowest(InState(h, st)) \in InState(h, st)
    BY LowestRow DEF InState
  <2>2. \E st \in {"FREE", "GONE", "REFUSED"} :
          host_admit(h, cid) \in InState(h, st)
    BY <1>2, <2>1 DEF Admissible, host_admit
  <2>3. QED
    BY <1>2, <2>2 DEF InState
<1>3. QED
  BY <1>1, <1>2

(***************************************************************************)
(* Replacing a row.                                                        *)
(***************************************************************************)
\* The table keeps one row per claimant and one standing answer when a row is
\* replaced by one of the same claimant that neither revives it nor stands
\* beside another.
LEMMA RowReplaced ==
  ASSUME NEW h, h \in Host, Unique(h), Standing(h),
         NEW g, NEW i \in Rows, NEW r \in Row,
         g.tab = WithRow(h, i, r),
         h.tab[i].state # "FREE", r.state # "FREE", r.cid = h.tab[i].cid,
         r.holds => ~answer_stands(h, i),
         r.pending \/ r.holds => r.state # "GONE"
  PROVE  Unique(g) /\ Standing(g)
<1>1. h.tab \in [Rows -> Row]
  BY DEF Host
<1>2. \A j \in Rows : g.tab[j] = IF j = i THEN r ELSE h.tab[j]
  BY <1>1 DEF WithRow
<1>3. Unique(g)
  BY <1>2 DEF Unique
<1>4. Standing(g)
  BY <1>2 DEF Standing, answer_stands
<1>5. QED
  BY <1>3, <1>4

\* The counter follows the table when one row changes state and Less or More
\* is applied to the state it had.  Less's `answered > 0` never bites: the row
\* it takes away is one of those counted.
LEMMA Recounted ==
  ASSUME NEW h, h \in Host, Counted(h), NEW g, NEW i \in Rows,
         \A j \in Rows : j # i => g.tab[j].state = h.tab[j].state,
         g.answered = IF g.tab[i].state = "ANSWERED" THEN More(h, h.tab[i].state)
                      ELSE Less(h, h.tab[i].state)
  PROVE  Counted(g)
<1>1. IsFiniteSet(Rows)
  BY FS_Interval, HostMaxAssumption DEF Rows
<1>2. IsFiniteSet(Answered(h)) /\ Cardinality(Answered(h)) \in Nat
  BY <1>1, FS_Subset, FS_CardinalityType DEF Answered
<1>3. CASE g.tab[i].state = "ANSWERED"
  <2>1. Answered(g) = Answered(h) \cup {i}
    BY <1>3 DEF Answered
  <2>2. i \in Answered(h) <=> h.tab[i].state = "ANSWERED"
    BY DEF Answered
  <2>3. Cardinality(Answered(g)) = IF i \in Answered(h)
                                   THEN Cardinality(Answered(h))
                                   ELSE Cardinality(Answered(h)) + 1
    BY <1>2, <2>1, FS_AddElement
  <2>4. QED
    BY <1>2, <1>3, <2>2, <2>3 DEF Counted, More
<1>4. CASE g.tab[i].state # "ANSWERED"
  <2>1. Answered(g) = Answered(h) \ {i}
    BY <1>4 DEF Answered
  <2>2. i \in Answered(h) <=> h.tab[i].state = "ANSWERED"
    BY DEF Answered
  <2>3. Answered(h) # {} => Cardinality(Answered(h)) > 0
    BY <1>2, FS_EmptySet
  <2>4. Cardinality(Answered(g)) = IF i \in Answered(h)
                                   THEN Cardinality(Answered(h)) - 1
                                   ELSE Cardinality(Answered(h))
    BY <1>2, <2>1, FS_RemoveElement
  <2>5. h.answered = Cardinality(Answered(h)) /\ i \in Answered(h) => h.answered > 0
    BY <2>3
  <2>6. QED
    BY <1>2, <1>4, <2>2, <2>4, <2>5 DEF Counted, Less
<1>5. QED
  BY <1>3, <1>4

\* Less and More are counters.
LEMMA CountType ==
  ASSUME NEW h \in Host, NEW st
  PROVE  Less(h, st) \in Nat /\ More(h, st) \in Nat
<1>1. h.answered \in Nat
  BY DEF Host
<1>2. QED
  BY <1>1 DEF Less, More

\* Every claimant keeps its row and the last sequence taken from it.
SameRows(h, g) ==
  \A i \in Rows : /\ g.tab[i].cid = h.tab[i].cid
                  /\ g.tab[i].last_seq = h.tab[i].last_seq

\* A step that changes neither table nor counter keeps the invariant.
LEMMA TableKept ==
  ASSUME NEW h, HostInv(h), NEW g \in Host, g.tab = h.tab, g.answered = h.answered
  PROVE  HostInv(g) /\ SameRows(h, g)
BY DEF HostInv, Unique, Counted, Answered, Standing, Heard, SameRows

\* A call that replaces the row of one claimant and recounts keeps the
\* invariant.
LEMMA RowCall ==
  ASSUME NEW h, HostInv(h), NEW g \in Host, NEW i \in Rows, NEW r \in Row,
         g.tab = WithRow(h, i, r),
         h.tab[i].state # "FREE", r.state # "FREE",
         r.cid = h.tab[i].cid, r.last_seq = h.tab[i].last_seq,
         r.have_seq = h.tab[i].have_seq,
         r.holds => ~answer_stands(h, i),
         r.pending \/ r.holds => r.state # "GONE",
         g.answered = IF r.state = "ANSWERED" THEN More(h, h.tab[i].state)
                      ELSE Less(h, h.tab[i].state)
  PROVE  HostInv(g) /\ SameRows(h, g)
<1>1. h \in Host /\ h.tab \in [Rows -> Row]
  BY DEF HostInv, Host
<1>2. \A j \in Rows : g.tab[j] = IF j = i THEN r ELSE h.tab[j]
  BY <1>1 DEF WithRow
<1>3. Unique(g) /\ Standing(g)
  BY <1>1, RowReplaced DEF HostInv
<1>4. Counted(g)
  BY <1>1, <1>2, Recounted DEF HostInv
<1>5. Heard(g) /\ SameRows(h, g)
  BY <1>2 DEF HostInv, Heard, SameRows
<1>6. QED
  BY <1>3, <1>4, <1>5 DEF HostInv

\* Of two rows only one stands: a row that stands has no other beside it.
LEMMA StandsAlone ==
  ASSUME NEW h, HostInv(h), NEW i \in Rows, h.tab[i].holds
  PROVE  ~answer_stands(h, i)
BY DEF HostInv, Standing, answer_stands

(***************************************************************************)
(* The calls, one lemma each.                                              *)
(***************************************************************************)
\* rdv_host_answer: an answer is handed in.
LEMMA AnswerKeeps ==
  ASSUME NEW h, HostInv(h), NEW cid \in Cids, NEW body \in Bodies
  PROVE  HostInv(rdv_host_answer(h, cid, body)) /\ SameRows(h, rdv_host_answer(h, cid, body))
<1> DEFINE i == rdv_host_find(h, cid)
           r == [h.tab[i] EXCEPT !.state = "ANSWERED", !.pending = TRUE,
                                 !.answer_re = h.tab[i].last_seq, !.answer = body]
           g == [h EXCEPT !.answered = More(h, h.tab[i].state), !.tab = WithRow(h, i, r)]
<1>1. CASE ~Known(h, cid)
  BY <1>1 DEF rdv_host_answer, SameRows
<1>2. CASE Known(h, cid)
  <2>1. h \in Host /\ i \in Rows /\ h.tab[i].state # "FREE"
    BY <1>2, Found DEF HostInv
  <2>2. h.tab[i] \in Row
    BY <2>1 DEF Host
  <2>3. r \in Row
    BY <2>2 DEF Row, RowStates
  <2>4. g \in Host
    BY <2>1, <2>3, CountType DEF Host, WithRow
  <2>5. rdv_host_answer(h, cid, body) = g
    BY <1>2 DEF rdv_host_answer
  <2>6. QED
    <3>1. /\ r.state = "ANSWERED" /\ r.cid = h.tab[i].cid /\ r.holds = h.tab[i].holds
          /\ r.last_seq = h.tab[i].last_seq /\ r.have_seq = h.tab[i].have_seq
      BY <2>2 DEF Row
    <3>2. g.tab = WithRow(h, i, r) /\ g.answered = More(h, h.tab[i].state)
      BY <2>1 DEF Host
    <3> HIDE DEF i, r, g
    <3>3. HostInv(g) /\ SameRows(h, g)
      BY <2>1, <2>3, <2>4, <3>1, <3>2, StandsAlone, RowCall
    <3>4. QED
      BY <2>5, <3>3
<1>3. QED
  BY <1>1, <1>2

\* rdv_host_refuse: the session turns a claimant away.
LEMMA RefuseKeeps ==
  ASSUME NEW h, HostInv(h), NEW cid \in Cids
  PROVE  HostInv(rdv_host_refuse(h, cid)) /\ SameRows(h, rdv_host_refuse(h, cid))
<1> DEFINE i == rdv_host_find(h, cid)
           r == [h.tab[i] EXCEPT !.state = "REFUSED", !.pending = TRUE,
                                 !.answer_re = h.tab[i].last_seq, !.answer = NoBody]
           g == [h EXCEPT !.answered = Less(h, h.tab[i].state), !.tab = WithRow(h, i, r)]
<1>1. CASE ~Known(h, cid)
  BY <1>1 DEF rdv_host_refuse, SameRows
<1>2. CASE Known(h, cid)
  <2>1. h \in Host /\ i \in Rows /\ h.tab[i].state # "FREE"
    BY <1>2, Found DEF HostInv
  <2>2. h.tab[i] \in Row
    BY <2>1 DEF Host
  <2>3. r \in Row
    BY <2>2, NamesAssumption DEF Row, RowStates
  <2>4. g \in Host
    BY <2>1, <2>3, CountType DEF Host, WithRow
  <2>5. rdv_host_refuse(h, cid) = g
    BY <1>2 DEF rdv_host_refuse
  <2>6. /\ r.cid = h.tab[i].cid /\ r.state # "FREE"
        /\ r.last_seq = h.tab[i].last_seq /\ r.have_seq = h.tab[i].have_seq
        /\ r.holds => h.tab[i].holds
        /\ r.pending \/ r.holds => r.state # "GONE"
    BY <1>2, <2>2 DEF Row, RowStates
  <2>7. /\ g.tab = WithRow(h, i, r)
        /\ g.answered = IF r.state = "ANSWERED" THEN More(h, h.tab[i].state)
                        ELSE Less(h, h.tab[i].state)
    BY <1>2, <2>1, <2>2 DEF Host, Row, RowStates, Less, More
  <2> HIDE DEF i, r, g
  <2>8. HostInv(g) /\ SameRows(h, g)
    BY <2>1, <2>3, <2>4, <2>6, <2>7, StandsAlone, RowCall
  <2>9. QED
    BY <2>5, <2>8
<1>3. QED
  BY <1>1, <1>2

\* rdv_host_keep: the answer already given is stated again.
LEMMA KeepKeeps ==
  ASSUME NEW h, HostInv(h), NEW cid \in Cids
  PROVE  HostInv(rdv_host_keep(h, cid)) /\ SameRows(h, rdv_host_keep(h, cid))
<1> DEFINE i == rdv_host_find(h, cid)
           r == [h.tab[i] EXCEPT !.state = "ANSWERED",
                                 !.pending = h.tab[i].pending \/ ~h.tab[i].holds,
                                 !.answer_re = IF h.tab[i].pending \/ ~h.tab[i].holds
                                               THEN h.tab[i].last_seq ELSE @]
           g == [h EXCEPT !.answered = More(h, h.tab[i].state), !.tab = WithRow(h, i, r)]
<1>1. CASE ~Known(h, cid) \/ ~MayKeep(h.tab[i])
  BY <1>1 DEF rdv_host_keep, SameRows
<1>2. CASE Known(h, cid) /\ MayKeep(h.tab[i])
  <2>1. h \in Host /\ i \in Rows /\ h.tab[i].state # "FREE"
    BY <1>2, Found DEF HostInv
  <2>2. h.tab[i] \in Row
    BY <2>1 DEF Host
  <2>3. r \in Row
    BY <2>2, NamesAssumption DEF Row, RowStates
  <2>4. g \in Host
    BY <2>1, <2>3, CountType DEF Host, WithRow
  <2>5. rdv_host_keep(h, cid) = g
    BY <1>2 DEF rdv_host_keep
  <2>6. /\ r.cid = h.tab[i].cid /\ r.state # "FREE"
        /\ r.last_seq = h.tab[i].last_seq /\ r.have_seq = h.tab[i].have_seq
        /\ r.holds => h.tab[i].holds
        /\ r.pending \/ r.holds => r.state # "GONE"
    BY <1>2, <2>2 DEF Row, RowStates
  <2>7. /\ g.tab = WithRow(h, i, r)
        /\ g.answered = IF r.state = "ANSWERED" THEN More(h, h.tab[i].state)
                        ELSE Less(h, h.tab[i].state)
    BY <1>2, <2>1, <2>2 DEF Host, Row, RowStates, Less, More
  <2> HIDE DEF i, r, g
  <2>8. HostInv(g) /\ SameRows(h, g)
    BY <2>1, <2>3, <2>4, <2>6, <2>7, StandsAlone, RowCall
  <2>9. QED
    BY <2>5, <2>8
<1>3. QED
  BY <1>1, <1>2

\* rdv_host_unsent: an emission that did not go out is owed again.
LEMMA UnsentKeeps ==
  ASSUME NEW h, HostInv(h), NEW cid \in Cids
  PROVE  HostInv(rdv_host_unsent(h, cid)) /\ SameRows(h, rdv_host_unsent(h, cid))
<1> DEFINE i == rdv_host_find(h, cid)
           r == [h.tab[i] EXCEPT !.pending = TRUE, !.holds = FALSE]
           g == [h EXCEPT !.tab = WithRow(h, i, r)]
<1>1. CASE ~Known(h, cid) \/ h.tab[i].state = "GONE"
  BY <1>1 DEF rdv_host_unsent, SameRows
<1>2. CASE Known(h, cid) /\ h.tab[i].state # "GONE"
  <2>1. h \in Host /\ i \in Rows /\ h.tab[i].state # "FREE"
    BY <1>2, Found DEF HostInv
  <2>2. h.tab[i] \in Row
    BY <2>1 DEF Host
  <2>3. r \in Row
    BY <2>2, NamesAssumption DEF Row, RowStates
  <2>4. g \in Host
    BY <2>1, <2>3, CountType DEF Host, WithRow
  <2>5. rdv_host_unsent(h, cid) = g
    BY <1>2 DEF rdv_host_unsent
  <2>6. /\ r.cid = h.tab[i].cid /\ r.state # "FREE"
        /\ r.last_seq = h.tab[i].last_seq /\ r.have_seq = h.tab[i].have_seq
        /\ r.holds => h.tab[i].holds
        /\ r.pending \/ r.holds => r.state # "GONE"
    BY <1>2, <2>1, <2>2 DEF Row, RowStates
  <2>7. /\ g.tab = WithRow(h, i, r)
        /\ g.answered = IF r.state = "ANSWERED" THEN More(h, h.tab[i].state)
                        ELSE Less(h, h.tab[i].state)
    BY <1>2, <2>1, <2>2 DEF Host, Row, RowStates, Less, More
  <2> HIDE DEF i, r, g
  <2>8. HostInv(g) /\ SameRows(h, g)
    BY <2>1, <2>3, <2>4, <2>6, <2>7, StandsAlone, RowCall
  <2>9. QED
    BY <2>5, <2>8
<1>3. QED
  BY <1>1, <1>2

\* rdv_host_forget: a claimant has gone.
LEMMA ForgetKeeps ==
  ASSUME NEW h, HostInv(h), NEW cid \in Cids
  PROVE  HostInv(rdv_host_forget(h, cid)) /\ SameRows(h, rdv_host_forget(h, cid))
<1> DEFINE i == rdv_host_find(h, cid)
           r == [h.tab[i] EXCEPT !.state = "GONE", !.pending = FALSE,
                                 !.holds = FALSE, !.answer = NoBody]
           g == [h EXCEPT !.answered = Less(h, h.tab[i].state), !.tab = WithRow(h, i, r),
                           !.info_pending = TRUE, !.turn_spent = TRUE]
<1>1. CASE ~Known(h, cid)
  BY <1>1 DEF rdv_host_forget, SameRows
<1>2. CASE Known(h, cid)
  <2>1. h \in Host /\ i \in Rows /\ h.tab[i].state # "FREE"
    BY <1>2, Found DEF HostInv
  <2>2. h.tab[i] \in Row
    BY <2>1 DEF Host
  <2>3. r \in Row
    BY <2>2, NamesAssumption DEF Row, RowStates
  <2>4. g \in Host
    BY <2>1, <2>3, CountType DEF Host, WithRow
  <2>5. rdv_host_forget(h, cid) = g
    BY <1>2 DEF rdv_host_forget
  <2>6. /\ r.cid = h.tab[i].cid /\ r.state # "FREE"
        /\ r.last_seq = h.tab[i].last_seq /\ r.have_seq = h.tab[i].have_seq
        /\ r.holds => h.tab[i].holds
        /\ r.pending \/ r.holds => r.state # "GONE"
    BY <1>2, <2>2 DEF Row, RowStates
  <2>7. /\ g.tab = WithRow(h, i, r)
        /\ g.answered = IF r.state = "ANSWERED" THEN More(h, h.tab[i].state)
                        ELSE Less(h, h.tab[i].state)
    BY <1>2, <2>1, <2>2 DEF Host, Row, RowStates, Less, More
  <2> HIDE DEF i, r, g
  <2>8. HostInv(g) /\ SameRows(h, g)
    BY <2>1, <2>3, <2>4, <2>6, <2>7, StandsAlone, RowCall
  <2>9. QED
    BY <2>5, <2>8
<1>3. QED
  BY <1>1, <1>2

\* rdv_host_release: the turn is the host's again.
LEMMA ReleaseKeeps ==
  ASSUME NEW h, HostInv(h), NEW cid \in Cids
  PROVE  HostInv(rdv_host_release(h, cid)) /\ SameRows(h, rdv_host_release(h, cid))
<1> DEFINE i == rdv_host_find(h, cid)
           r == [h.tab[i] EXCEPT !.holds = FALSE]
           g == rdv_host_release(h, cid)
<1>1. h \in Host
  BY DEF HostInv
<1>2. CASE ~Known(h, cid)
  <2>1. g \in Host /\ g.tab = h.tab /\ g.answered = h.answered
    BY <1>1, <1>2 DEF rdv_host_release, Host
  <2> HIDE DEF g
  <2>2. QED
    BY <2>1, TableKept DEF g
<1>3. CASE Known(h, cid)
  <2>1. i \in Rows /\ h.tab[i].state # "FREE"
    BY <1>3, Found
  <2>2. h.tab[i] \in Row
    BY <1>1, <2>1 DEF Host
  <2>3. r \in Row
    BY <2>2 DEF Row
  <2>4. g = [h EXCEPT !.tab = WithRow(h, i, r),
                      !.info_pending = @ \/ ~h.tab[i].pending,
                      !.turn_spent = @ \/ ~h.tab[i].pending]
    BY <1>3 DEF rdv_host_release
  <2>5. WithRow(h, i, r) \in [Rows -> Row]
    BY <1>1, <2>3 DEF Host, WithRow
  <2>6. g \in Host /\ g.tab = WithRow(h, i, r) /\ g.answered = h.answered
    BY <1>1, <2>4, <2>5 DEF Host
  <2>7. /\ r.cid = h.tab[i].cid /\ r.state = h.tab[i].state
        /\ r.last_seq = h.tab[i].last_seq /\ r.have_seq = h.tab[i].have_seq
        /\ ~r.holds /\ r.pending = h.tab[i].pending
    BY <2>2 DEF Row
  <2>8. h.answered = IF r.state = "ANSWERED" THEN More(h, h.tab[i].state)
                     ELSE Less(h, h.tab[i].state)
    BY <2>7 DEF More, Less
  <2>9. r.pending => r.state # "GONE"
    BY <2>1, <2>7 DEF HostInv, Standing
  <2> HIDE DEF i, r, g
  <2>10. HostInv(g) /\ SameRows(h, g)
    BY <2>1, <2>3, <2>6, <2>7, <2>8, <2>9, RowCall
  <2>11. QED
    BY <2>10 DEF g
<1>4. QED
  BY <1>2, <1>3

\* rdv_host_next, when an answer is due: it goes out only when no other
\* claimant's stands.
LEMMA NextAnswerKeeps ==
  ASSUME NEW h, HostInv(h), NEW i \in Due(h)
  PROVE  HostInv(NextAnswer(h, i)) /\ SameRows(h, NextAnswer(h, i))
<1> DEFINE r == [h.tab[i] EXCEPT !.pending = FALSE, !.holds = TRUE]
           g == NextAnswer(h, i)
<1>1. h \in Host /\ i \in Rows /\ h.tab[i].pending /\ ~answer_stands(h, i)
  BY DEF HostInv, Due
<1>2. h.tab[i] \in Row /\ h.tab[i].state \notin {"FREE", "GONE"}
  BY <1>1 DEF Host, HostInv, Standing
<1>3. r \in Row
  BY <1>2 DEF Row
<1>4. WithRow(h, i, r) \in [Rows -> Row]
  BY <1>1, <1>3 DEF Host, WithRow
<1>5. g \in Host /\ g.tab = WithRow(h, i, r) /\ g.answered = h.answered
  <2>1. h.seq + 1 \in Nat
    BY <1>1 DEF Host
  <2>2. g = [h EXCEPT !.seq = h.seq + 1, !.tab = WithRow(h, i, r)]
    BY DEF NextAnswer
  <2> HIDE DEF r, g
  <2>3. QED
    BY <1>1, <1>4, <2>1, <2>2 DEF Host
<1>6. /\ r.cid = h.tab[i].cid /\ r.state = h.tab[i].state
      /\ r.last_seq = h.tab[i].last_seq /\ r.have_seq = h.tab[i].have_seq
  BY <1>2 DEF Row
<1>7. h.answered = IF r.state = "ANSWERED" THEN More(h, h.tab[i].state)
                   ELSE Less(h, h.tab[i].state)
  BY <1>6 DEF More, Less
<1> HIDE DEF r, g
<1>8. HostInv(g) /\ SameRows(h, g)
  BY <1>1, <1>2, <1>3, <1>5, <1>6, <1>7, RowCall
<1>9. QED
  BY <1>8 DEF g

\* The calls about the host itself.
LEMMA OwnCallsKeep ==
  ASSUME NEW h, HostInv(h), NEW gen \in Gens,
         NEW g \in {NextInfo(h), rdv_host_turn_kept(h), rdv_host_set_gen(h, gen),
                    rdv_host_entomb(h)}
  PROVE  HostInv(g) /\ SameRows(h, g)
<1>1. h \in Host
  BY DEF HostInv
<1>2. g \in Host /\ g.tab = h.tab /\ g.answered = h.answered
  <2>1. CASE g = NextInfo(h)
    <3>1. h.seq + 1 \in Nat
      BY <1>1 DEF Host
    <3>2. g = [h EXCEPT !.seq = h.seq + 1, !.info_pending = FALSE]
      BY <2>1 DEF NextInfo
    <3>3. QED
      BY <1>1, <3>1, <3>2 DEF Host
  <2>2. CASE g = rdv_host_turn_kept(h)
    BY <1>1, <2>2 DEF Host, rdv_host_turn_kept
  <2>3. CASE g = rdv_host_set_gen(h, gen)
    BY <1>1, <2>3 DEF Host, rdv_host_set_gen
  <2>4. CASE g = rdv_host_entomb(h)
    BY <1>1, <2>4 DEF Host, rdv_host_entomb
  <2>5. QED
    BY <2>1, <2>2, <2>3, <2>4
<1>3. QED
  BY <1>2, TableKept

(***************************************************************************)
(* An ask.                                                                 *)
(***************************************************************************)
\* What a step may do to a row: a claimant waiting or answered keeps its row,
\* and the last sequence taken from a claimant never goes back.
RowsKept(h, g) ==
  \A i \in Rows : h.tab[i].state \in {"HARVESTED", "ANSWERED"}
                    => g.tab[i].cid = h.tab[i].cid

SeqsKept(h, g) ==
  \A i \in Rows : g.tab[i].cid = h.tab[i].cid
                    => g.tab[i].last_seq >= h.tab[i].last_seq

\* The row an ask is judged against is the one the claimant has, or a new one.
LEMMA AdmittedRowType ==
  ASSUME NEW h \in Host, NEW cid \in Cids
  PROVE  AdmittedRow(h, cid) \in Row /\ AdmittedRow(h, cid).cid = cid
<1>1. CASE Known(h, cid)
  BY <1>1, Found DEF AdmittedRow, Host
<1>2. CASE ~Known(h, cid)
  BY <1>2 DEF AdmittedRow, FreeRow, Row, RowStates
<1>3. QED
  BY <1>1, <1>2

\* rdv_host_slot: a new ask.
LEMMA SlotKeeps ==
  ASSUME NEW h, HostInv(h), NEW m \in Asks, NewAsk(h, m)
  PROVE  /\ HostInv(rdv_host_slot(h, m))
         /\ RowsKept(h, rdv_host_slot(h, m))
         /\ SeqsKept(h, rdv_host_slot(h, m))
<1> DEFINE i == host_admit(h, m.from)
           r == AdmittedRow(h, m.from)
           asked == [r EXCEPT !.last_seq = m.seq, !.have_seq = TRUE,
                              !.holds = FALSE, !.state = "HARVESTED"]
           refused == [asked EXCEPT !.state = "REFUSED", !.pending = TRUE,
                                    !.answer_re = m.seq]
           new == IF FullFor(h, m) THEN refused ELSE asked
           tab == [j \in Rows |-> IF j = i THEN new
                                  ELSE [h.tab[j] EXCEPT !.holds = FALSE]]
           g == rdv_host_slot(h, m)
<1>1. h \in Host /\ h.tab \in [Rows -> Row] /\ m.from \in Cids /\ m.seq \in Nat /\ m.seq > 0
  BY AskBound DEF HostInv, Host, Asks
<1>2. r \in Row /\ r.cid = m.from
  BY <1>1, AdmittedRowType
<1>3. /\ i \in Rows
      /\ Known(h, m.from) => /\ r = h.tab[i]
                             /\ h.tab[i].state # "FREE" /\ h.tab[i].cid = m.from
      /\ ~Known(h, m.from) => /\ h.tab[i].state \in {"FREE", "GONE", "REFUSED"}
                              /\ r.state = "HARVESTED"
  <2>1. i \in Rows /\ (~Known(h, m.from) => h.tab[i].state \in {"FREE", "GONE", "REFUSED"})
    BY Admitted DEF NewAsk
  <2>2. Known(h, m.from) => i = rdv_host_find(h, m.from)
    BY Admitted DEF NewAsk
  <2>3. ~Known(h, m.from) => r.state = "HARVESTED"
    BY DEF AdmittedRow, FreeRow
  <2>4. Known(h, m.from) => r = h.tab[i] /\ h.tab[i].state # "FREE" /\ h.tab[i].cid = m.from
    BY <2>2, Found DEF AdmittedRow
  <2>5. QED
    BY <2>1, <2>3, <2>4
<1>4. /\ new \in Row /\ new.cid = m.from /\ new.state \in {"HARVESTED", "REFUSED"}
      /\ ~new.holds /\ new.last_seq = m.seq /\ new.have_seq
  <2>1. /\ asked \in Row /\ asked.cid = m.from /\ asked.state = "HARVESTED"
        /\ ~asked.holds /\ asked.last_seq = m.seq /\ asked.have_seq
    BY <1>1, <1>2 DEF Row, RowStates
  <2> HIDE DEF asked
  <2>2. /\ refused \in Row /\ refused.cid = m.from /\ refused.state = "REFUSED"
        /\ ~refused.holds /\ refused.last_seq = m.seq /\ refused.have_seq
    BY <1>1, <2>1 DEF Row, RowStates
  <2> HIDE DEF refused
  <2>3. QED
    BY <2>1, <2>2
<1>5. g = [h EXCEPT !.tab = tab, !.answered = Less(h, r.state), !.turn_spent = FALSE]
  BY DEF rdv_host_slot
<1> HIDE DEF i, r, new
<1>6. \A j \in Rows : j # i =>
        LET u == [h.tab[j] EXCEPT !.holds = FALSE]
        IN /\ u \in Row /\ u.cid = h.tab[j].cid /\ u.state = h.tab[j].state /\ ~u.holds
           /\ u.pending = h.tab[j].pending /\ u.last_seq = h.tab[j].last_seq
           /\ u.have_seq = h.tab[j].have_seq
  BY <1>1 DEF Row
<1>7. tab \in [Rows -> Row]
  BY <1>4, <1>6
<1>8. /\ tab[i] = new
      /\ \A j \in Rows : j # i =>
           /\ tab[j].cid = h.tab[j].cid /\ tab[j].state = h.tab[j].state /\ ~tab[j].holds
           /\ tab[j].pending = h.tab[j].pending /\ tab[j].last_seq = h.tab[j].last_seq
           /\ tab[j].have_seq = h.tab[j].have_seq
  BY <1>3, <1>6
<1> HIDE DEF tab, g
<1>9. g \in Host /\ g.tab = tab /\ g.answered = Less(h, r.state)
  BY <1>1, <1>5, <1>7, CountType DEF Host
<1>10. \A j \in Rows : (j # i /\ h.tab[j].state # "FREE") => h.tab[j].cid # m.from
  BY <1>3 DEF HostInv, Unique, Known, RowsOf
<1>11. Unique(g)
  BY <1>4, <1>8, <1>9, <1>10 DEF HostInv, Unique
<1>12. Standing(g)
  BY <1>4, <1>8, <1>9 DEF HostInv, Standing
<1>13. Heard(g)
  BY <1>4, <1>8, <1>9 DEF HostInv, Heard
<1>14. Counted(g)
  <2>1. g.answered = Less(h, h.tab[i].state)
    BY <1>3, <1>9 DEF Less
  <2>2. QED
    BY <1>1, <1>3, <1>4, <1>8, <1>9, <2>1, Recounted DEF HostInv
<1>15. RowsKept(h, g)
  BY <1>3, <1>4, <1>8, <1>9 DEF RowsKept
<1>16. SeqsKept(h, g)
  <2>1. h.tab[i].cid = m.from => m.seq >= h.tab[i].last_seq
    <3>1. h.tab[i].last_seq \in Nat /\ r.last_seq \in Nat
      BY <1>1, <1>2, <1>3 DEF Row
    <3>2. CASE Known(h, m.from)
      <4>1. ~(r.have_seq /\ m.seq <= r.last_seq)
        BY DEF NewAsk, r
      <4>2. ~r.have_seq => r.last_seq = 0
        BY <1>3, <3>2 DEF HostInv, Heard
      <4>3. QED
        BY <1>1, <1>3, <3>1, <3>2, <4>1, <4>2
    <3>3. CASE ~Known(h, m.from) /\ h.tab[i].cid = m.from
      <4>1. h.tab[i].state = "FREE"
        BY <1>3, <3>3 DEF Known, RowsOf
      <4>2. h.tab[i].last_seq = 0
        BY <1>3, <4>1 DEF HostInv, Heard
      <4>3. QED
        BY <1>1, <4>2
    <3>4. QED
      BY <3>2, <3>3
  <2>2. \A j \in Rows : h.tab[j].last_seq \in Nat
    BY <1>1 DEF Row
  <2>3. QED
    BY <1>4, <1>8, <1>9, <2>1, <2>2 DEF SeqsKept
<1>17. QED
  BY <1>9, <1>11, <1>12, <1>13, <1>14, <1>15, <1>16 DEF HostInv, g

(***************************************************************************)
(* The specification.                                                      *)
(***************************************************************************)
\* rdv_host_init's record satisfies the invariant.
LEMMA InitInv == HostInit => HostInv(rh)
<1>1. SUFFICES ASSUME NEW id \in HostIds, NEW g \in Gens, rh = rdv_host_init(id, g)
               PROVE  HostInv(rh)
  BY DEF HostInit
<1>2. FreeRow \in Row
  BY DEF FreeRow, Row, RowStates
<1>3. rh \in Host
  BY <1>1, <1>2 DEF rdv_host_init, Host
<1>4. \A i \in Rows : rh.tab[i] = FreeRow
  BY <1>1 DEF rdv_host_init
<1>5. Unique(rh) /\ Standing(rh) /\ Heard(rh)
  BY <1>4 DEF Unique, Standing, Heard, FreeRow
<1>6. Counted(rh)
  <2>1. Answered(rh) = {}
    BY <1>4 DEF Answered, FreeRow
  <2>2. rh.answered = 0
    BY <1>1 DEF rdv_host_init
  <2>3. QED
    BY <2>1, <2>2, FS_EmptySet DEF Counted
<1>7. QED
  BY <1>3, <1>5, <1>6 DEF HostInv

\* Rows that keep claimant and sequence keep them in both senses.
LEMMA SameRowsKept ==
  ASSUME NEW h, HostInv(h), NEW g, SameRows(h, g)
  PROVE  RowsKept(h, g) /\ SeqsKept(h, g)
<1>1. \A i \in Rows : h.tab[i].last_seq \in Nat
  BY DEF HostInv, Host, Row
<1>2. QED
  BY <1>1 DEF SameRows, RowsKept, SeqsKept

\* Every call keeps the invariant, the rows of the engaged and the sequences.
LEMMA StepInv ==
  ASSUME HostInv(rh), HostNext
  PROVE  HostInv(rh') /\ RowsKept(rh, rh') /\ SeqsKept(rh, rh')
<1>1. CASE Slot
  BY <1>1, SlotKeeps DEF Slot
<1>2. CASE Speak
  <2>0. rh.gen \in Gens
    BY DEF HostInv, Host
  <2>1. CASE rh' = NextInfo(rh)
    BY <2>0, <2>1, OwnCallsKeep, SameRowsKept
  <2>2. CASE Due(rh) # {} /\ rh' = NextAnswer(rh, Lowest(Due(rh)))
    <3>1. Lowest(Due(rh)) \in Due(rh)
      BY <2>2, LowestRow DEF Due
    <3>2. QED
      BY <2>2, <3>1, NextAnswerKeeps, SameRowsKept
  <2>3. QED
    BY <1>2, <2>1, <2>2 DEF Speak
<1>3. ASSUME NEW cid \in Cids, NEW b \in Bodies, rh' = rdv_host_answer(rh, cid, b)
      PROVE  HostInv(rh') /\ SameRows(rh, rh')
  BY <1>3, AnswerKeeps
<1>4. ASSUME NEW cid \in Cids, rh' = rdv_host_refuse(rh, cid)
      PROVE  HostInv(rh') /\ SameRows(rh, rh')
  BY <1>4, RefuseKeeps
<1>5. ASSUME NEW cid \in Cids, rh' = rdv_host_keep(rh, cid)
      PROVE  HostInv(rh') /\ SameRows(rh, rh')
  BY <1>5, KeepKeeps
<1>6. ASSUME NEW cid \in Cids, rh' = rdv_host_unsent(rh, cid)
      PROVE  HostInv(rh') /\ SameRows(rh, rh')
  BY <1>6, UnsentKeeps
<1>7. ASSUME NEW cid \in Cids, rh' = rdv_host_forget(rh, cid)
      PROVE  HostInv(rh') /\ SameRows(rh, rh')
  BY <1>7, ForgetKeeps
<1>8. ASSUME NEW cid \in Cids, rh' = rdv_host_release(rh, cid)
      PROVE  HostInv(rh') /\ SameRows(rh, rh')
  BY <1>8, ReleaseKeeps
<1>9. CASE \/ rh' = rdv_host_turn_kept(rh)
           \/ \E g \in Gens : rh' = rdv_host_set_gen(rh, g)
           \/ rh' = rdv_host_entomb(rh)
  <2>1. rh.gen \in Gens
    BY DEF HostInv, Host
  <2>2. QED
    BY <1>9, <2>1, OwnCallsKeep, SameRowsKept
<1>10. QED
  BY <1>1, <1>2, <1>3, <1>4, <1>5, <1>6, <1>7, <1>8, <1>9, SameRowsKept DEF HostNext

IInv == HostInv(rh)

\* HostInv is an invariant of the call interface.
THEOREM Invariance == HostSpec => []IInv
<1>1. HostInit => IInv
  BY InitInv DEF IInv
<1>2. IInv /\ [HostNext]_rh => IInv'
  <2>1. SUFFICES ASSUME IInv, [HostNext]_rh PROVE IInv'
    OBVIOUS
  <2>2. CASE HostNext
    BY <2>1, <2>2, StepInv DEF IInv
  <2>3. CASE UNCHANGED rh
    BY <2>1, <2>3 DEF IInv
  <2>4. QED
    BY <2>1, <2>2, <2>3
<1>3. QED
  BY <1>1, <1>2, PTL DEF HostSpec

\* The claimant table and its counter keep their types, whatever sig.c and
\* the turnstile call and in whatever order.
THEOREM Typed == HostSpec => []HostTypeOK
<1>1. IInv => HostTypeOK
  BY DEF IInv, HostInv, HostTypeOK
<1>2. QED
  BY Invariance, <1>1, PTL

\* No claimant is ever given two rows: rdv_host_find's first match is the only
\* one.
THEOREM NoTwoRows == HostSpec => []OneRowEach
<1>1. IInv => OneRowEach
  BY DEF IInv, HostInv, Unique, OneRowEach
<1>2. QED
  BY Invariance, <1>1, PTL

\* The grant is judged against the true number of answered claimants, and the
\* guards of rdv.c against an underflow of the counter never bite.
THEOREM CountsExactly == HostSpec => []AnsweredExact
<1>1. IInv => AnsweredExact
  BY DEF IInv, HostInv, Counted, Answered, AnsweredExact
<1>2. QED
  BY Invariance, <1>1, PTL

\* The host never believes two answers to stand in the one turn of the cell,
\* and owes nothing to a claimant that left.
THEOREM OneAnswerStands == HostSpec => []OneStands
<1>1. IInv => OneStands
  BY DEF IInv, HostInv, Standing, OneStands
<1>2. QED
  BY Invariance, <1>1, PTL

\* No sequence of calls evicts a claimant that waits or is answered.
THEOREM NoEviction == HostSpec => EngagedKeepsRow
<1>1. IInv /\ [HostNext]_rh =>
        [\A i \in Rows : rh.tab[i].state \in {"HARVESTED", "ANSWERED"}
                           => rh'.tab[i].cid = rh.tab[i].cid]_rh
  BY StepInv DEF IInv, RowsKept
<1>2. QED
  BY Invariance, <1>1, PTL DEF HostSpec, EngagedKeepsRow

\* No sequence of calls takes the last sequence of a claimant back, so an ask
\* once taken is a replay for as long as its claimant has a row.
THEOREM NoReplay == HostSpec => SeqMonotone
<1>1. IInv /\ [HostNext]_rh =>
        [\A i \in Rows : rh'.tab[i].cid = rh.tab[i].cid
                           => rh'.tab[i].last_seq >= rh.tab[i].last_seq]_rh
  BY StepInv DEF IInv, SeqsKept
<1>2. QED
  BY Invariance, <1>1, PTL DEF HostSpec, SeqMonotone
=============================================================================
