# babilonia in TLA+

babilonia plays a two-party bet on Bitcoin. A **dealer** (Alice) hides a ball
under one of two thimbles, a **player** (Bob) guesses, both lock a stake into a
2-of-2 output `U1`, and the pot goes to the winner without a third party. This
directory holds the specification of that program: TLA+ modules translated from
`src/src`, TLC instances that check them, and theorems that TLAPS proves about
them for every value of their constants.

## 1. The system

| component | source | state it keeps | operations | interacts with |
|---|---|---|---|---|
| Bet session | `bet.rs`, `game.rs` | position in the script, pre-signed transactions, peer key, recovered `a_c`, record on disk | the `BetChain` verbs: `fund_pot`, `setup`, `broadcast_funding`, `try_cooperative_resolve`, `settle`, `observe_outcome`, `claim_win`, `dealer_take_on_loss` | the peer's session by frames, its own node by `Chain`, its wallet, its record file |
| Setup flights | `setup.rs`, `musig.rs` | three MuSig2 sessions, nonces, `ctxt`, `D`, `K` | four flights that pre-sign the refund and the settlement adaptor | called by `setup` of a session |
| Chain view | `chain.rs` | none (bitcoind's) | `broadcast`, `confirmations`, `get_transaction`, `utxo_unspent`, `block_height` | sessions, recovery |
| Bet record | `persist.rs` | one JSON file per bet, a refund text file | `save` (write and rename), `load` | sessions write, recovery reads |
| Recovery | `recover.rs` | none | `assess`, `recover`, `broadcast_refund` | the record, the chain; run by the node core |
| Amounts, transaction graph | `bet.rs`, `setup.rs`, `txgraph.rs` | none | `funding_amounts`, `check_park`, `verify_funding_psbt`, `tx_graph`, `split_payment` | sessions |
| Node core | `agent.rs` | `peer`, `dialed`, `pending`, `next_bet_id`, configuration | operator's commands (propose, accept, reject, set, quit), worker's events, one-second tick | the worker by two queues |
| Peer worker | `agent.rs` | `pending_terms`, its copy of the configuration, the transport | polls frames, obeys instructions, plays bets inside its loop | the other node's worker, the core |
| Transport | `transport/*` | inbox, decoy queue | `send`, `recv` with a timeout, `try_recv` | worker and session |
| Wire messages | `messages.rs` | none | encode, decode | transport |
| Proofs and outcome encryption | `sigma.rs`, `pi_a.rs`, `proofs.rs`, `reveal.rs` | none | `prove_or2`, `prove_or_dlog`, `prove_chunk`, their verifiers, `won`, `recover_a_c` | setup flights, outcome |
| Wallet | `wallet.rs`, `basic-wallet/` | external | `select_input`, addresses, PSBTs | sessions |
| Keys, parameters, typestates, UI, node control, binaries | `keys.rs`, `params.rs`, `protocol.rs`, `repl.rs`, `node.rs`, `bin/*` | | | not modelled, see section 7 |

**How a bet runs.** The proposer's worker sends `ProposeTerms`; after an ACCEPT
it plays the dealer, the other side the player. `fund_pot` agrees an unsigned
two-input transaction TX1; `setup` pre-signs the refund (after the block height
`t_r`), the settlement (an adaptor signature that reveals `d`) and, on the
dealer's side, the reclaim (after `t_1` confirmations of the settlement);
`broadcast_funding` exchanges the signatures on TX1, broadcasts it and waits.
Then the dealer reveals `d` off-chain with a half-signed overlay `U1 -> dealer`.
A player who lost completes it; one who won broadcasts the settlement and claims
its output `O_K`. When nothing happens in time the dealer broadcasts the
settlement himself, watches for the claim, and reclaims after `t_1`. Each step
saves the record; after a crash `recover <id>` and `recover <id> refund` go on
from it.

**What is hard.** Two sessions, two operators' recovery commands and two memory
pools race for the same two outputs, and nothing tells one party what the other
has done but frames that may never come and a chain view that shows only
confirmed outputs. Every wait may end early. A crash may fall between any two
of: send a signature, save, broadcast, confirm. Under it, the worker and the
core of a node are two threads whose view of "the pending proposal" differs,
and frames of a failed bet stay in the channel for the next.

**What makes the parts correct.**

- Session: no signed TX1 without both refunds on disk; no outcome revealed
  before the pot is confirmed; the record never goes back and never says what
  the chain does not hold; the two outcomes agree; every session ends.
- Chain and recovery together: the pot is never stranded.
- Amounts: no exit of a locked pot is blocked by an amount, and nobody pays
  more than the fees the protocol gives him.
- Node: a proposal is played at most once, two sessions never sign a funding
  under different terms, and the worker's policy is the operator's.
- Setup: one message per nonce; whoever completes it holds the peer's
  transactions; what the player decrypts at the end is the dealer's choice.
- Transport: a peer is registered only when he runs this program and has
  registered back, and from then on each end gets the other's frames in order,
  once. Messages: what one side encodes the other decodes, and no late frame
  passes for another message.
- Proofs: an honest proof always verifies; one that is accepted belongs to this
  session, these thimbles and a known secret; a ciphertext that opens neither
  thimble is proved by luck only; and the player's proof hides his guess.

## 2. Modules

```
Chain <- Bet <- Recover <- BetSystem <- BetInvariants <- MCBet
                              |               ^
                              |               +- BetProofs
                              +- Fair == INSTANCE FairBet (<- FairBetProofs)
Amounts <- MCAmounts, AmountsProofs
Agent   <- MCAgent, AgentProofs
Setup   <- MCSetup, SetupProofs
Sigma   <- MCSigma, SigmaProofs
Link    <- MCLink, LinkProofs;  Channel == INSTANCE Pipe in Link
Frames  <- MCFrames, FramesProofs
```

| module | what it is |
|---|---|
| `Chain` | Both parties' nodes: a memory pool each, shared blocks, relay, eviction, locktimes. `Known`, `UtxoUnspent`, `Broadcast` are the trait's methods; `UtxoUnspent` is confirmed-only, as in `chain.rs`. |
| `Bet` | The two sessions. `pc` has a label wherever the code blocks, sends, writes the chain or writes the disk. One action per such step, named for verb and effect (`PersistRefund`, `DealerCoopReveal`, `PlayerBroadcastCoop` ...). `Deadline` is a wait that gives up, `Crash` a process that dies or errs, `Rejected` a broadcast the node refuses. |
| `Recover` | `assess` as the operator `Assess`, and the four things recovery can broadcast. Recovery never writes the record. |
| `BetSystem` | `Next` of the whole, fairness, the invariants, the mapping to `FairBet`, the liveness properties. |
| `FairBet` | The abstract bet: where the pot is (wallets, locked, settled, and four ends), whether each timelock has passed, and what each party was told. |
| `BetInvariants` | The inductive invariants of section 5. |
| `Amounts` | The money of one bet from the selected coins to the last payout, with `check_park`, `split_payment` and the node's dust rule. |
| `Setup` | The four flights, the nonces and partial signatures of the three MuSig2 sessions, the encrypted outcome, and what the player reads off-chain, on-chain or after a crash. |
| `Sigma` | The proofs the flights carry: the dealer's proofs of his thimbles, the player's `pi_r` that his claim key is for one of them, the dealer's `pi_a` that his ciphertext opens one, and the adaptor proof of the scheme that is gated off. A claim is a disjunction of lists of `Eq(base, target)`; one simulate-and-answer prover and one verifier serve them all, as in the code. |
| `Agent` | Two nodes: core loops and workers, the negotiation, the configuration, quitting and dying workers, stale frames, and the frames of a bet up to its signatures (`Script`). |
| `Frames` | Every message of `messages.rs` and every control message of `agent.rs` as a sequence of parts with their widths, and the readers: the bounds-checked `Reader`, the fixed 24 bytes of `ProposeTerms`, the one byte of ACCEPT and REJECT. |
| `Link` | bitcoind's v2 connections and the decoys on them, dialing, the one-second probe that registers a peer, the worker's hello and the transport's inbox, beside nodes that run other software. |
| `Pipe` | The contract of the `Transport` trait: one queue per end, in order, once, until the connection is lost. |

State and code correspond as follows. `record[p]` is the phase in the record
file and whether the `SetupData` is in it; `refundFile` is the set of parties
whose `refund-<txid>.txt` exists; `hasSetup` is `Bet.setup.is_some()`; `report`
is the `Ok(outcome)` of `play_dealer` / `play_player`. `confs` counts
confirmations as far as the code compares them, so it saturates at 1, and at
`t_1` for the settlement; `height` saturates at `t_r`. In `Agent`, `offer` is
the worker's `pending_terms`, `turn` says which half of the worker's loop is
next, `config` and `known` are the core's and the worker's copies of the
configuration, `up` says whether the core still runs, a worker `Gone` has
returned and its queues with it, and a frame carries the terms of its sender
although the code's frames do not: the receiver looks at them only in
`Scrutinised`, which stands for the verification of partial signatures and the
comparison of funding transactions. `Setup` opens that box: scalars are an
arbitrary abelian group, a point is named by its logarithm, a partial signature
by the message it signs. `held[p]` is the `SetupResult` in the making,
`nonceUse[p][s]` the messages signed with the nonce of session `s`, and `terms`
the two `GameParams`, which may differ. `Bet` runs the same flights at one
label each and abstracts what is in them. `Sigma` opens the proofs, which
`Setup` takes as verified: `job` is the function called with its public
arguments, `witness` the secrets the caller passes, right or wrong, `oracle`
the answers the hash gave, `wire` the scalars of the proof. In `Frames` a
reader is given any frame, cut at any byte or one byte too long; a field is
junk where the part that begins there has another width. In `Link` a connection
is `<<from, to, k>>`, the k-th between two nodes, so that a lost one can be
followed by another; `wire`, `buffer` and `inbox` are the three places a frame
passes (sender's `senddecoy`, receiver's `getdecoys`, `recv`), and `Pending`
puts them together into the queue of `Pipe`.

## 3. Runs

| run | checks | states (about) | what it shows |
|---|---|---|---|
| `core` | `TypeOK`, `RefundBeforeFunding`, `RevealOnlyWhenLocked`, `RecordBacked`, `NeverDoneWhilePotLive`, `VerdictFacts`, `RecordOnlyAdvances` | 31 000 | the safety of a bet with crashes at any label, deadlines, two evictions, and both operators recovering even while sessions are live; what they may conclude from what `assess` tells them |
| `recovery` | `OutcomeAgreement`, `ImplementsFairBet`, `SessionsEnd`, `PotNotStranded` | 33 000 | when an operator recovers only after his session ended, two sessions never disagree and the whole implements `FairBet`; sessions end; a locked pot is paid out if either operator keeps recovering, even alone |
| `clean` | `CleanLossConceded`, `CleanWinPaid` | 900 | without faults a lost bet takes one transaction and both report `DealerWins`; a won bet pays the player |
| `amounts` | `AmountsTypeOK`, `NoExitTooSmall`, `SettlementRelayed`, `FinalBalances` | 308 000 | all stakes, fees and coins of the instance |
| `negotiation` | `AgentTypeOK`, `PlayedOnce`, `SignedTogether`, `ConfigFollows` | 2 385 000 | simultaneous proposals, late answers, repeated accepts, stale frames, a configuration changed or a node quitting in between |
| `setup` | `SetupTypeOK`, `OneMessagePerNonce`, `SameTransactions`, `OutcomeRevealed` | 324 000 | every choice of secrets over the integers modulo 5, under equal and unequal terms, with failures and crashes at any point |
| `proofs` | `SigmaTypeOK`, `HonestVerifies`, `AcceptedIsTrue`, `OpensOrOneChallenge`, `HidesBranch` | 635 000 | every proof over the integers modulo 5, with right and wrong witnesses, all coins and all answers of the hash, verified here, in another session or with swapped thimbles |
| `frames` | `FramesTypeOK`, `ReadsOwnFrames`, `NeverMisread`, `WholeOrNothing` | 281 000 | every message, cut at every byte, in front of every reader |
| `link` | `LinkTypeOK`, `RegisteredBack`, `ImplementsChannel`, `Meets` | 221 000 | two nodes find each other beside a bystander, and what they have is the channel `Bet` and `Agent` assume |
| `done_terminal`, `settle_idempotent`, `approved` | one property each, section 6 | | the code differs from what a comment says of it |

**Bounds.** `Thimbles` has two members as in the code, interchangeable in
`core`, as the nodes of `Agent` are (symmetry is not used where liveness is
checked). `t_r` and `t_1` are 3 blocks in `core` and `recovery`, so that each
may pass before, between and after any two other steps; larger values only add
blocks in which nothing is compared. `MaxEvictions` is the number of times some
node drops a transaction: two, in `core` and `recovery`, are enough to drop the
overlay from both pools. Confirmations and height are not bounded, they
saturate. Amounts are in units of about 55 satoshis (dust 330 is 6, the default
floor of TX1's fee, 211, is 4), with stakes to 12, fees to 6 and coins to 50
units: on both sides of each comparison. `Agent` has two proposals, made by
either node, two accept or reject commands and one `set` or `quit`, given to
either node, so that an answer can be late, a proposal replaced, a command
repeated and the configuration changed between any two steps. One setting
cannot show that several keep their order; with one proposal, one decision and
three settings `ConfigFollows` has been explored too (263 000 states, no
violation), and `WorkerFollowsConfig` proves it for any number. Three decisions
without the repeated setting of the same value have also been explored (4.7
million states, no violation). `Setup` has the integers modulo 5 with the mask
`x * x`: large enough that keys, thimbles and the ciphertext can coincide,
cancel or differ; two locktimes, two timeouts and two addresses make each
message one of two. `Sigma` has the same scalars as a field, with one thimble
twice the other or opposite to it, so that points at infinity, zero shares and
lucky answers all occur. `Frames` gives a field of variable length 0, 1 or 128
bytes: nothing, the least, and a proof of two branches, all far below the 2^32
where the `u32` of `put_lp` would wrap; all other widths are the code's. `Link` has the two players, a bystander, a connection each way, one
reconnection, two frames per player and three generic decoys against a budget
of two, so that the bystander's overflow it; every node is on a host of its
own, for a bystander on the host that was dialed may be registered in the
peer's place (`addr_matches` looks at the host only), and then nobody meets; `LinkAssumption` says that the
program's own frames never do (a bet's frames are far smaller: the budget is 4
MiB). `Agent`, `Amounts`, `Setup`, `Sigma`, `Frames` and `Link` may stop, so
they do not check deadlock; a bet never does: blocks keep coming.

**Fairness.** `WF(SessionStep(p))`: a session is a thread whose loops poll and
whose waits all have deadlines (`step_budget`, the transport's receive
timeout), so it takes an enabled step sooner or later; a crash is not fair.
`WF(MineStep)` and `WF(MineSome)`: blocks keep coming and pooled transactions
do not stay out of every block. Relay and eviction are not fair. Nothing makes
an operator recover; `PotNotStranded` has it as a hypothesis,
`Diligent(p) == SF(RecoverStep(p))`: he repeats the command until it takes
effect. In `clean` the deadlines do not fire (`Faults = FALSE`).
In `Link`, `addnode` keeps trying (`WF(AddNode)`), each tick probes every
connection, decoys arrive, and the worker's loop runs; connections drop
unfairly, and nobody has to dial or to send.

## 4. The abstract bet

`ImplementsFairBet` maps `PotPlace` (which of the bet's transactions are
confirmed), the two timelocks and `report` to `FairBet`. It says of the
thousands of interleavings that the pot moves only along
`wallets -> locked -> {refunded, conceded, settled}`,
`settled -> {claimed, reclaimed}`; that it is conceded only if the player lost,
claimed only if he won, refunded only after `t_r` and reclaimed only after
`t_1`; and that a session reports an outcome only when it can no longer be
contradicted. One block may confirm a chain of up to three of those moves,
which is why a step of `FairBet` takes up to three.

## 5. What is proved

TLAPS checks these for every `t_r`, `t_1`, eviction bound, set of operators,
stake, fee and coin value, every group or field of scalars, every number of
proposals and commands, every set of nodes and connections between them, every
length of a frame's variable fields.

| theorem | module | about |
|---|---|---|
| `TypeCorrect` | `BetProofs` | `Spec => []TypeOK` |
| `RefundSafety`, `RevealSafety` | `BetProofs` | `Spec => []RefundBeforeFunding`, `Spec => []RevealOnlyWhenLocked` |
| `RecordsOnlyAdvance` | `BetProofs` | `Spec => RecordOnlyAdvances` |
| `RecordsAreTrue`, `DoneMeansSpent` | `BetProofs` | `Spec => []RecordBacked`, `Spec => []NeverDoneWhilePotLive` |
| `VerdictFactsHold` | `BetProofs` | `Spec => []VerdictFacts` |
| `OutcomesAgree` | `BetProofs` | `~RecoverWhileLive => (Spec => []OutcomeAgreement)` |
| `BetRefinesFairBet` | `BetProofs` | `~RecoverWhileLive => (Spec => ImplementsFairBet)` |
| `AbstractAgreement` | `FairBetProofs` | two parties of `FairBet` are told the same outcome |
| `AmountsTypeCorrect`, `ExitsNeverTooSmall`, `BalancesAddUp` | `AmountsProofs` | the amounts of every bet |
| `SettlementsRelayed` | `AmountsProofs` | settlement and overlay are relayed if four times the fee floor is at least dust |
| `SetupTypeCorrect`, `NonceHygiene`, `TransactionsAgree`, `RevealIsTrue` | `SetupProofs` | the four properties of `Setup`, for every group, mask and pair of terms |
| `SigmaTypes`, `Completeness`, `Knowledge`, `Soundness`, `Hiding` | `SigmaProofs` | the five properties of `Sigma`, for every field and every set of thimbles |
| `AgentTypeCorrect`, `NeverPlayedTwice`, `NoDealerSignsAlone`, `WorkerFollowsConfig` | `AgentProofs` | the four properties of `Agent` |
| `LinkTypeCorrect`, `RegistersBack` | `LinkProofs` | `Spec => []LinkTypeOK`, `Spec => []RegisteredBack` |
| `LinkImplementsPipe` | `LinkProofs` | `Spec => ImplementsChannel`: every connection of two players is the queue of the `Transport` contract |
| `FramesTypeCorrect`, `OwnFramesRead`, `FramesToldApart`, `FlightsWhole` | `FramesProofs` | the four properties of `Frames` |

**The arguments.** `RefundBeforeFunding` speaks of frames and pools; to be
inductive it needs what the sessions have done when they reach a label.
`SavedInv` says that a session at a label past `persistSetup` (the set `Armed`)
has the record and the refund file on disk, and that the player's `FundSign`
is in flight only if he is saved. Then each action that makes TX1 signed
(`DealerFundFinal`, `PlayerFundFinal`) finds both saved, and no action unsaves.
`RevealInv` does the same with `Locked`, the labels past `FundingConfirmed`.

`LedgerInv` is about the chain alone: a confirmed transaction has a confirmed
parent, no two rivals are confirmed, and no pool holds what a block has made
impossible. `PhaseInv` gives the phase on record at every label, so each save
goes up in rank, and says that a record has the pre-signed transactions exactly
from `SetupDone` on. That is the part of `TypeOK` that no type gives
(`RecordsComplete`): a save is a snapshot of the session's memory, so it takes
the labels at which `hasSetup` holds (`SavedInv`) to know what is in it. `RecordsInv` adds what the chain holds when a phase is
written; together they give `RecordBacked` and `NeverDoneWhilePotLive`.
`VerdictFacts` states what follows from each verdict of `assess`, and no more.
Five of them place the pot exactly: "settle" and "wait for settlement" in
`U1`; "claim if won", "wait for claim" and "reclaim" in `O_K`, and "claimed
already" behind it. "Nothing committed" means that no signed TX1 exists. What
is to be done the node accepts, unless it has seen another spend. Two verdicts
mean less than they say, and the property says only what is left of them:
"resolved" leaves a pot in `O_K` that waits for the dealer's reclaim, and "U1
already spent" leaves a TX1 that is in no block (section 6). `SpentPlaces` reads
each off `LedgerInv`; that "claimed already" is never said of a settlement in a
pool takes `RevealInv`.

`OutcomeInv` says what each transaction in a pool, each label and each report
tells of the outcome: a claim only if the player won, the overlay only if he
lost, a reclaim only when the dealer's session has ended or waits for it. The
last is where `~RecoverWhileLive` is needed; without it agreement is false
(section 6, `bet.rs:417`). The refinement uses `IInv` (all of the above):
sessions and recovery change neither `PotPlace` nor the timelocks, so they
stutter or tell one outcome, which `OutcomeInv` justifies; a block refines
`Block` because `LedgerInv` limits what it can confirm to a chain of moves.

`AmountsProofs` carries the equations of `U1` through the stages
(`AmountsInv`); `split_payment` succeeding at setup gives `S - fee >= 3 * Dust`
(`SplitBound`), which bounds the refund's and the claim's outputs.

`SetupProofs`: `LabelInv` says what a party holds at each label, without which
not even the types are inductive (the player's partials are made with the key
he kept). `FrameInv` says that each frame on the wire was computed from its
sender's secrets, `KeyInv` the same of what the receiver kept of it; together
they make the two partial signatures comparable, and `Matching` then forces
equal terms (`EqualPartials`). `RevealIsTrue` is the group law
`(a_c + H(d)) - H(d) = a_c` (`DecryptEncrypted`) and the thimbles being
distinct, which only the label of the first flight guarantees. `NonceInv` lists
the nonces not used yet at each label.

`SigmaProofs`: `WireInv` says that what is on the wire was `Made` from the
job, the witness, some coins and one answer of the hash, with none of its
scalars zero. From it, `Completeness` is the equation of each branch, simulated
or real, and the shares adding up to the answer; `Knowledge` is that the same
query got the same answer; `Soundness` is that two answerable challenges for
one commitment give two answers for each equation of some branch, whose
difference divided by that of the challenges is the logarithm, so the branch's
thimble is opened; `Hiding` gives the coins of the other branch explicitly.

`AgentProofs`: `Sole` says that a proposal is in one place at most (an
instruction, a frame, a worker's offer, or played), which no action on its own
suggests and which makes `PlayedOnce` inductive. `SignInv` says that whatever
follows the player's signature implies it: a `FundSign` on its way, a dealer
past that line of the script. `ConfigInv` says that the queue's last
configuration, or the worker's when there is none, is the core's; steps that
append or take one instruction keep it (`Follows`).

`LinkProofs`: what the receiver's `filter_map` leaves of a queue of packets is a
recursive function of it (`Ours`), and the lemmas `OursAppend` and `OursHead`,
that it is additive at both ends, are an induction written as a fact about sets
of numbers (`Induction`: a set with 0 and the successors of its members has
every natural number), since the library's induction theorems cannot be
instantiated here. `Flow` says of every end that each of our packets on its way
to it was sent by one of our nodes that had registered that very connection
(`Carried`), and that one of our nodes never has more packets on their way than
the frames it sent. The first makes `RegisteredBack` inductive: a node that
finds a packet of ours in its buffer registers a peer who has registered the
same connection. The second keeps our packets within the buffer: in the
refinement `Deliver` could lose a frame only at a full buffer, and
`LinkAssumption` has the budget cover all of them (`MaxFrames <= Budget`).
Otherwise `SendFrame` appends to `Pending`, `Probe`, `Drain` and `Deliver` only
move the boundaries between its three parts (`OursAppend`, `OursHead`),
`Receive` takes its head, a lost connection loses what has not been read, and
the rest stutters.

`FramesProofs`: `Bytes` and `Written` are recursive functions too. `AtPart` says
that a reader that looks where a part begins, for something of its width, finds
that part: two parts of one width never begin at one place, for no two in a row
are empty (`Apart`; a field of variable length may be, its length field is
not). `FieldFound` follows the reader from the end of a field to the end of the
next. The invariant has a reader on its own frame `Along` it, at the end of the
fields it has read, and one on another frame `Astray`, behind the tag at most:
only `AliceOpen`, `BobCommit` and `AliceReveal` share a tag with a control
message, their first fields are 33 bytes or more, and the control messages have
24 bytes or one (`TagShared`, `OpeningFirst`, `Sizes`).

**Assumptions** are the `ASSUME`s of the modules: locktimes are natural
numbers, `t_1` and `Dust` positive, amounts natural, scalars an abelian group
in `Setup` and a field in `Sigma`, thimbles and the Pedersen base not zero, two
nodes in `Agent`; in `Link` a player has at least one frame to send, all his
frames fit the buffer's budget, and a connection has two ends; in `Frames` the
lengths are natural numbers. TLC evaluates them in the runs.

**Only model-checked.** The liveness properties (`SessionsEnd`,
`PotNotStranded`, `CleanLossConceded`, `CleanWinPaid`, `Meets`): fairness and
ENABLED are beyond the prover. Every other property of a passing run is a
theorem.

## 6. Where the code and its comments disagree

The first three are runs that TLC ends with a counterexample.

- `done_terminal` (`bet.rs:804`, `persist.rs:35`): the dealer's record says
  `Done`, "Terminal: resolved", when his watch of `O_K` times out, before the
  reclaim is possible. After a crash there, listing the bets says there is
  nothing to do. `recover <id>` does not look at the phase and still reclaims,
  which is why `PotNotStranded` holds.
- `settle_idempotent` (`bet.rs:568`, `bet.rs:793`): "settle() is idempotent",
  but broadcasting a settlement that is in a block is an error, and the
  dealer's session fails instead of recording `Settled`.
- `approved` (`agent.rs:759`): `Instr::Accept` carries no id. If a second
  proposal reaches the worker after the operator accepted the first, and before
  the worker obeys, the second is played.
- Not runs, but TLC finds both under the constants of `done_terminal` (the
  second with `RecoverWhileLive`). `recover.rs:98` says "U1 is spent", but `utxo_unspent` is confirmed-only, so while TX1 waits
  in a pool `assess` tells an operator whose session has ended "U1 already
  spent ... nothing to do". Once TX1 confirms, the pot is live. `VerdictFacts`
  has this case as the pot being in `wallets`. `bet.rs:417` returns
  `PlayerWins` for any spend of `O_K`, "spent by the player", and `recover_cmd`
  does not ask whether the session is live; if the dealer's operator recovers
  beside it, his own reclaim is reported so. That is why `OutcomeAgreement`
  needs `~RecoverWhileLive`.
- Read from the code: `bet.rs:35-36` says the funding fee is split evenly, and
  `funding_amounts` (`bet.rs:76-85`) takes it from the dealer, which
  `FinalBalances` states exactly. `bet.rs:88` says that `check_park` protects
  from dust, and it compares with five fees only; with fees well under the
  relay floor the settlement's second output is dust (`SettlementsRelayed` has
  the hypothesis that excludes it). `bet.rs:681` says that an input of `b +
  fee` leaves "non-dust change"; it leaves `fee`, which may be dust, and TX1 is
  then not relayed: nothing is lost, the bet fails before the lock
  (`LockFails`).

## 7. What is not modelled

- Chain reorganisations. The code acts on one confirmation everywhere and never
  looks back; a model could only confirm that a deep enough one breaks it.
- A node without a `state_dir`: nothing survives a crash by construction.
- Recovery's reads and its broadcast are one step; the node refuses a broadcast
  whose reads have become stale, so only the message to the operator differs.
- Cryptography below the algebra: in `Bet` and `Setup` signatures verify
  exactly when both sides signed the same transaction and honest proofs verify,
  which `Completeness` justifies; `Bet` takes `won` for equality of thimbles,
  which `RevealIsTrue` justifies. The hash is a random oracle, a point is its
  logarithm; that logarithms are hard to find, and that an adversary who
  queries the oracle often succeeds seldom, are probabilities and out of reach
  of both tools. The Poseidon circuit and its Bulletproofs of `pi_a` are gated
  off and not modelled; `proofs.rs` is a seam the current flow does not call.
- Peers that do not follow the code. Both parties run this program; checks on
  the contents of frames fail only where the two honest sessions differ
  (`Agent`, `Setup`) or a frame is not for its reader (`Frames`).
- The JSON of the record file, addresses, covert shapes of transactions, the
  wallet behind `select_input` and the operator's `send`, the UI, the regtest
  node, `keys.rs`, `params.rs` and the typestate skeleton `protocol.rs`, which
  the current flow does not call.

## 8. Plan

Done: `Chain`, `Bet`, `Recover`, `BetSystem`, `FairBet`, `Amounts`, `Setup`,
`Sigma`, `Agent`, `Link` with `Pipe`, and `Frames`, checked and proved.

Next, in this order:

1. `Agent` joined with `Link`, whose registration gives it its worker, and the
   handle that outlives its worker.
2. `Amounts` joined with `Bet`: the amounts of each confirmed transaction as a
   refinement of `FairBet` with balances.
3. `Setup` joined with `Bet`: the setup labels of `Bet` refined by the flights,
   so that "a frame of the setup" in `Bet` is what `Setup` sends, and `Setup`
   joined with `Sigma`.
4. The wallet's coins between `select_input` and the broadcast of TX1, with the
   operator's `send` beside them.
