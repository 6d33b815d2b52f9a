# comrade: TLA+ models, checks and proofs

comrade shares a tmux session between two machines that know nothing of each
other but a token.  The token leads both to one small mutable value in the
BitTorrent DHT (a BEP 44 cell), through which they exchange ICE descriptions;
the connection punched with them carries KCP, SSH and a control channel.

This directory models the part everything else waits for, the rendezvous:
`rdv.c` on both ends, the signaller that puts its statements into the cell
(`sig.c`), the compare-and-swap store under it (`bep44.c`) and the host's
turnstile above it (`session.c`).  TLC checks it on small instances; the
host's claimant table is proved correct for every size with TLAPS.

Contents: [the system](#the-system-and-its-parts), [the
modules](#the-modules), [the runs](#the-runs), [disagreements
found](#where-the-code-and-its-documents-disagree), [the proofs](#the-proofs),
[what is abstracted](#what-is-abstracted), [the plan](#the-plan).

## The system and its parts

| Part | Source | State | Operations | Concurrency and failure |
|---|---|---|---|---|
| Rendezvous, host | `rdv.c` | claimant table, counters, what is owed and what stands in the turn | take an ask, answer, refuse, keep, release, forget, next statement | called by the turnstile and the signaller in any order; table full; asks repeated |
| Rendezvous, claimant | `rdv.c` | host followed and those left, ask numbers, answer taken | read the host's place, read the turn, ask, ask again, change identity | copies from lagging nodes, duplicates, refusals, restarts of the host |
| Signaller | `sig.c` | statement sealed, store in flight, highest sequence read | pump: read, put statement, put answer, put ask, relay, tombstone | one store in flight per end; its outcome arrives later |
| Store | `bep44.c` | each node's copy and sequence | lookup, merge, compare-and-swap put, expiry | nodes miss requests, acknowledgements are lost, nodes forget |
| Turnstile | `session.c` | queue of asks, punches, workers | admit, punch, evict, reap, release, roam, rebuild, end | punches and workers finish in any order |
| Peering | `peering.c` | transmit path told and pending, rendezvous nodes, address pool | propose and confirm a path, adopt a node, settle the network model | the peer's answers cross this end's own moves |
| Control plane | `ctlplane.c`, `ctlproto.c` | key halves, TXSEL and TXACK numbers, liveness | one handler per message, loss verdict | pump thread against the owner's thread |
| Probe plane | `probeplane.c`, `replay.c`, `dataauth.c` | keys in force, replay windows | seal, open, wrap, unwrap, bind | the two ends change keys at different moments; datagrams reordered |
| Paths | `pathplane.c`, `path.c` | table of paths, selection, pin, held agents, buckets | add, drop, evict, probe, decide, pin | probes, agents and decisions on different threads |
| Network model | `netstate.c`, `nsfacts.c`, `obsemit.c` | epochs, probe rounds, anchor and candidates | facts in, actions out, tick | facts of the network before arrive after the move |
| Reaping | `hostreap.c`, `hbeat.c`, `claimlog.c` | clocks of a worker, ring of claims served | verdict, note | the worker's clock against the claimant's |
| Stream, bridge | `stream.c`, `sshbridge.c` | send queue, output buffer, linger | pump, kick | would-block, half-close, a peer that is slow or gone |
| Port forwarding | `sshfwd.c` | listeners, pending connects, bridges | accept, connect, pump, close | capped tables served while they change |
| Spawner | `spawner.c` | handle table, exit pipes, kill deadlines | alive, kill, monitor, spawn, close, reap | a forked process that dies, a child that will not |
| STUN, DHT node | `stunprobe.c`, `dhtnode.c` | shared caches, bootstrap back-off | probe, warm, resolve | several threads over one cache |
| Candidates | `candpolicy.c`, `candpack.c` | none | choose, pack, unpack | none |
| The rest | `sshd.c`, `sshc.c`, `host*.c`, `ui.c`, `sandbox_*.c`, `token.c`, ... | | | glue, I/O, encodings |

`PROJECT.json` lists every part with what is modelled of it, and the hazards at
the lines where they bite.

How the modelled parts meet: the claimant's signaller stores an ask
(`OFFER n`) in the cell's turn, keeping the host's place as it stands.  The
host's signaller reads the cell and hands the ask to `rdv_host_slot`; a fresh
one is queued for the turnstile, which starts a punch and answers, or refuses,
or keeps the answer given before.  `rdv_host_next` gives the signaller the next
statement: an answer for the turn when no other answer stands there, or the
host's own place, with or without handing the turn back.  The claimant takes
the answer, connects, and the turn is released at the first pong.

## The modules

| Module | Models | State | Actions |
|---|---|---|---|
| `RdvNames` | names both ends share | | |
| `RdvHost` | the host half of `rdv.c` | `rh`, the `struct rdv_host` as a record | `Slot` (`rdv_host_slot`), `Speak` (`rdv_host_next`), and the callers' `rdv_host_answer`, `_refuse`, `_keep`, `_unsent`, `_forget`, `_release`, `_set_gen`, `_entomb`, `_turn_kept` |
| `RdvClient` | the claimant half of `rdv.c` and the fields `sig.c` keeps beside it | `cl[c]`, the `struct rdv_client` | `Read` (`on_slot_get`), `Ask` (`rdv_client_next`), `Post`, `Regather`, `Move`, `Reask`, `Withdraw`, `TombSettles` |
| `Cell` | the cell as `PROTOCOL.md` 4 promises it to its writers: one register with two places | `reg` | `HostWrites`, `TurnWrites` |
| `Rendezvous` | both ends, the signallers, the store, the turnstile | the two above, `cell` (a copy per node), `ops` (the store in flight of each end), `hs` (the host's signaller), `hcopy` (what a claimant relays), `offers`, `punch`, `work` | `HostSteps`, `TurnstileSteps`, `ClientSteps`, `StoreSteps`, `Expire` |
| `RdvHostProofs` | theorems about `RdvHost` | | |
| `MCRdvHost`, `MCRdvClient`, `MCRendezvous` | instances for TLC | | |

A C structure is one record and a C function an operator from record to
record with the function's name, so that a definition can be read beside the
lines `PROJECT.json` maps it to, and the same operator serves the component's
own specification, the composed one and the proofs.

`RdvHost` offers its calls in every order, which is more than the turnstile
makes: what holds there holds for any caller.  `MCRdvClient` likewise serves a
claimant every copy of the cell the constants can form, in any order.
`Rendezvous` then composes the real callers:

* A write is what `bep44_update` does, in three steps that anything may come
  between: the lookup and merge (`update_store`: the newest copy among the
  nodes that replied is merged into by `merge_mine`, or the merge is refused),
  the store (`StoreArrives`, `StoreLost`: each node accepts or not by its
  sequence and compare-and-swap, `handle_put`), and the outcome
  (`on_slot_put`).  One write per end is in flight (`slot_inflight`).
* `Events` names the rare events an instance includes, so that a run about one
  of them is not drowned by the others: repeats on the re-store cadence
  (`restore`), lost stores (`loss`), nodes that forget (`expire`), changed
  identities and networks (`regather`, `roam`, `rebuild`), amended descriptions
  (`amend`), refusals, spent, dropped and reaped punches and workers, answers
  held up (`hold`), relays of the host's statement by claimants (`relay`), a
  second serving run (`reserve`), a restarted process (`restart`), the end
  (`entomb`), and a claimant that announces itself before it has a description
  (`announce`).
* `host_answers` comes before `host_slot_put` as in the signaller's pump, and
  every handler is one action with all the calls it makes.

Definitions whose names end in `_wrong` are each the definition after them with
one slip in it, and take part in no specification.  They show that the
property named with them in `PROJECT.json` notices that slip.

## The runs

Passing runs, with the states TLC reaches:

| Run | States | Shows |
|---|---|---|
| `rdv_host` | 57,548 | three claimants over two rows and a grant of one, any order of calls: one row per claimant (`OneRowEach`), the counter exact (`AnsweredExact`), one answer standing and nothing owed to one that left (`OneStands`), nobody engaged evicted (`EngagedKeepsRow`), no ask taken twice (`SeqMonotone`) |
| `rdv_client` | 92,094 | any copies in any order from two host instances: numbers never re-used (`AskNumbersFresh`), lagging copies change nothing (`LaggingCopyIsNoOp`), a statement taken once (`TakesOnce`) |
| `two_claimants` | 808,291 | two claimants contend for one cell and one punch slot: the store implements `Cell` (`ImplementsCell`), no claimant overwrites an answer it would take (`AnswerIsRead`), no ask is met with silence (`NeverSilent`) |
| `turnstile` | 1,524,109 | one punch slot; asks repeated, identity or network changed between ask and answer, refusals, spent and dropped punches, answers held up: `NeverSilent`, `AnswerIsRead` |
| `lifecycle` | 293,274 | the host roams, rebuilds, serves again, restarts, reaps, while claimants relay: `TypeOK`, `ImplementsCell` |
| `heals` | 2,662 | two nodes that lose stores and forget: the host's statement keeps coming back to both (`HostHeals`) |
| `joins` | 64,566 | a claimant that can be reached is connected or refused (`Joins`) |
| `ends` | 41,279 | a tombstone placed is learned by every claimant, against relays of the older statement (`EndIsLearned`) |

`ImplementsCell` is a refinement: with one node, `cell[n]` is the register of
`Cell`, and every step of the composed system is one of its two writes or a
stutter.  It is what rules out a merge into a stale copy.  With several nodes
the copies may diverge and no single register stands behind them, which is how
BEP 44 is; `heals` has two.

**Bounds.**  `MaxAsk`, `MaxHSeq` and `MaxSeq` end the numbering of asks, host
statements and stores; they are guards of the actions that mint a number, and
the liveness properties excuse behaviours that met them (`OutOfNumbers`).  Two
asks are enough for a replay, an amended ask and a reset; two identities for an
answer that comes too late; two claimants for contention, and the rows of the
table (2) are fewer than the claimants of `rdv_host`, the punch slots (1) fewer
than the identities of `two_claimants` and `turnstile`, so that eviction and
refusal happen.  `MaxRev` is the number of times a
description is amended under one identity, one in `rdv_client`.  `Grant = 0` is the code's "no
limit"; the run on the table alone has a limit of one.  Claimants are
interchangeable where symmetry is used, and no liveness is checked there.
Deadlock is not checked: at the end of its numbers, or once the session is over,
the system stops.

**Fairness** (`Fairness` in `Rendezvous`).  The pump of each end runs on a timer,
so what it may do it does (weak fairness of reads, asks, statements, outcomes).
An answer is tried before the statement in each round of the pump, so that a
signaller that is idle again and again gets to it (strong fairness of
`host_answers`).  A lookup and a store retried for ever reach every node in the
end (strong fairness of `update_store` over all nodes and of `ReachesAll`), and
a node stops losing its copy at some time.  The turnstile scans its queue and
its punches each round; a connected punch is proven by its first pong or, never
proven, reaped by the host's clock.  No fairness is assumed of rare events, and
none of a claimant's user.

## Where the code and its documents disagree

Four runs are expected to fail: each states what a comment or document of the
repository says and shows a behaviour of the code that differs.  `PROJECT.json`
quotes both.

| Run | Statement | What happens |
|---|---|---|
| `x_taken_for_identity` | an answer to an identity given up is not taken (`TakenForIdentity`) | the number standing is the old identity's until the next post, and its answer is taken |
| `x_heals_rebuilt` | a rebuilt signaller is invisible to peers (`HostHeals`) | rebuilt before it captured a node, it states nothing again |
| `x_never_silent_reaped` | the host never answers with silence (`NeverSilent`) | reaping a worker by claimant id wipes the answer owed to the claimant's new identity |
| `x_joins_reaped` | a claimant that never read its answer heals itself (`Joins`) | a repeat of its ask lands in the freed turn, a replay to the host and its own ask to the claimant |

`x_heals_rebuilt` and `x_joins_reaped` are about liveness and run under
`LiveSpec`, with the fairness above.  The properties are those of the passing
runs but for `TakenForIdentity`: what fails is one event more (`rebuild`,
`reaped` with `regather`, `reaped` with `restore`).

Reading the code for the model showed smaller differences, which no run
records:

* `rdv_client_may_replace` (`rdv.c:536`) lets a claimant write over a rival's
  ask, and over an answer addressed to a rival; `sig.c:1216` calls a rival's ask
  "its turn" and `PROTOCOL.md:359` says a claimant never writes over the host.
* A spent punch (`session.c:4432`) leaves its answer standing, where
  `PROTOCOL.md:438` has the turn handed back when a punch ends.
* The turn is handed back when one was spent (`sig.c:1255`), whoever is engaged
  since, where `PROTOCOL.md:363` has it handed back while nobody is
  (`rdv_host_busy`, which nothing but a test calls).
* `rdv_host_release` does nothing to the turn while an answer is owed
  (`rdv.c:203`), and its caller does not come again.
* A copy is ignored for its instance only strictly below the highest sequence
  (`rdv.c:423`), so two nodes at one sequence can hand a claimant back and forth
  between two instances.
* Once `RDV_PREV_MAX` instances have been left only the first entry of
  `prev_cid` is written again (`rdv.c:455`).

## The proofs

`RdvHostProofs` proves, for every set of claimants, every table size, grant and
bound, and every order of calls (`HostSpec`):

| Theorem | States |
|---|---|
| `Invariance` | `HostSpec => []IInv`, the inductive invariant |
| `Typed` | `HostTypeOK` |
| `NoTwoRows` | `OneRowEach` |
| `CountsExactly` | `AnsweredExact`: the counter is the cardinality of the answered rows |
| `OneAnswerStands` | `OneStands` |
| `NoEviction` | `[][...]`: `EngagedKeepsRow` |
| `NoReplay` | `[][...]`: `SeqMonotone` |

Assumptions: the constants' own (`RDV_HOST_MAX` positive, `Grant` and the bounds
natural, the null claimant and the empty payload are none of the others), named
in the modules that declare them and evaluated by every run.

The invariant is `HostInv`: the type, `Unique`, `Counted`, `Standing`, `Heard`.
The last four of the properties are not inductive by themselves.  `Counted` needs `Unique`,
because a call changes the row `rdv_host_find` meets first and would miss a
second one of the same claimant; it needs the type, because the code's counter
goes down by one behind a guard that it is positive.  `SeqMonotone` needs
`Heard`: a row whose claimant was never heard from has sequence zero, so the
first ask is no step back.  Every call replaces one row, so the proof splits
into what replacing a row needs (`RowReplaced`, and `Recounted` with the
cardinality argument, case by case on whether the old and the new row are
answered) and one lemma per call that it replaces a row so; `rdv_host_slot`,
which may take over another claimant's row and clears every `holds`, is the
longest.

Left to TLC: liveness, the composed module, and the claimant half.

## What is abstracted

* A message is a record of the fields `rdv_encode` writes; a description is an
  identity and a revision.  Encryption is taken to work: nobody but the host
  and the token's holders writes the cell.  The credential classes of tokens
  are not told apart.
* A lookup is one step, in which any nonempty set of nodes replies.  A read of
  any single node at any time covers stale and delayed replies.  The direct
  route to a known node and the wide one through the DHT differ in which nodes
  they reach, which is any set; the routes' grades and the families are left
  out, and with them the multicast and direct LAN routes, which bring the same
  statements to the same calls.
* The oldest idle punch is evicted in the code, any idle one in the model.
* A punch ends by choice: it connects, is spent, or is dropped.
* The store in flight is dropped when the signaller is rebuilt, as the engine
  that carries it is freed.
* Times are order only: cadences and time-outs may fire whenever they are
  armed.  The re-store cadence always runs in the code; the runs that need it
  include `restore`.
* Sequence numbers are naturals; the code's are 32 bits wide (64 for the
  store), and no session mints so many.

Not modelled: the parts `PROJECT.json` marks so, with the reason for each.

## The plan

Next modules, in this order:

1. `TxSel` - which path the two ends transmit on: `tx_propose`, `tx_confirm`,
   the numbered TXSEL and TXACK of the control plane, the pin and the escape
   route.  Abstract specification: each end transmits where it last said it
   would.  Properties: after the last forced move both ends settle on one path;
   a proposal is always answered or void; an answer to a spent number moves
   nobody.
2. `PairKey` - the move to the pair's key: halves, KEYOK, base key spent, reset.
   Property: no frame sealed by one end is refused by the other for its key.
   `Replay` - the window as a refinement of the set of numbers taken, proved.
3. `PathTable` - add, evict, drop, select, challenger; `PathPlane` - probes,
   pin, held agents, settle.  Properties: the selection never names another
   path, a carrying agent is never freed, a live path is left only for a better
   one.  `AdoptBucket` - the budgets of sources and of the table.
4. `NetState` with `NsFacts` - epochs, probe rounds, anchor and candidates.
   Properties: nothing of an earlier network changes the current one, every
   round ends, an anchor in use is given up only for its own silence.
5. `HostReap` with the claimant's resume clock and the ring of claims served;
   `Bridge` (linger, buffer) over a lossy stream; `Spawner`; `SshFwd`;
   `StunCache`; the bootstrap of `DhtNode`.
6. More of the store: the node's own table, its tokens and eviction in
   `bep44.c`.

Then proofs: the claimant half (`AskNumbersFresh`, `TakesOnce`), `Replay`'s
refinement, the type and `ImplementsCell` of the composed module, `TxSel`, and
the path table's invariant.
