------------------------------- MODULE Chain -------------------------------
(***************************************************************************)
(* The Bitcoin chain as one bet sees it: the transactions a bet can        *)
(* produce, which output each of them spends, each party's own node (its   *)
(* memory pool), and the blocks both nodes share.  The client code reads   *)
(* and writes it through the trait `Chain` of src/src/chain.rs; the node   *)
(* behind it is external.                                                  *)
(*                                                                         *)
(* Confirmations and the height are counted only as far as the code        *)
(* compares them (one confirmation, AliceTimeout, RefundLocktime) and      *)
(* saturate there, so the model is finite without a bound on time.         *)
(* A chain reorganisation that drops a confirmed transaction is not        *)
(* modelled.                                                               *)
(***************************************************************************)
EXTENDS Naturals

CONSTANTS
    RefundLocktime,   \* t_r: blocks from now until the refund is final
    AliceTimeout,     \* t_1: confirmations before the timeout leaf of O_K
    MaxEvictions      \* bound on how many times a node drops a transaction

ASSUME ChainAssumption ==
    /\ RefundLocktime \in Nat
    /\ AliceTimeout \in Nat \ {0}
    /\ MaxEvictions \in Nat

VARIABLES
    height,           \* blocks since the terms were proposed, at most t_r
    confs,            \* confirmations of each transaction, saturating
    pool,             \* memory pool of each party's node
    evictions         \* transactions dropped from a pool so far

chainVars == <<height, confs, pool, evictions>>

Party == {"dealer", "player"}

\* Every transaction of a bet has one id, except that a claim pays to fresh
\* addresses: the one a recovery builds is not the one the session built.
Tx == {"funding", "refund", "settle", "coop", "claim", "recoveredClaim", "reclaim"}

Claims == {"claim", "recoveredClaim"}

\* The transaction whose output is spent.  Every transaction after TX1 has
\* one input: U1 of the funding, or O_K of the settlement.
Parent == [tx \in Tx |->
    IF tx = "funding" THEN "wallets"
    ELSE IF tx \in Claims \union {"reclaim"} THEN "settle"
    ELSE "funding"]

\* Transactions that spend the same output as tx.
Rivals(tx) == {t \in Tx \ {tx} : Parent[t] = Parent[tx]}

\* The most confirmations of tx any code asks for.
Cap(tx) == IF tx = "settle" THEN AliceTimeout ELSE 1

Confirmed(tx) == confs[tx] > 0

----------------------------------------------------------------------------
(* What a client reads.                                                    *)

\* `get_transaction`: in the node's pool or in a block.
Known(p, tx) == tx \in pool[p] \/ Confirmed(tx)

\* `utxo_unspent`: a confirmed-only view, so an output that is not in a
\* block yet reads the same as one that is spent.
UtxoUnspent(tx) == Confirmed(tx) /\ \A t \in Tx : Parent[t] = tx => ~Confirmed(t)

U1Live == UtxoUnspent("funding")

ClaimOutputUnspent == UtxoUnspent("settle")

----------------------------------------------------------------------------
(* What a client writes: sendrawtransaction, at the party's own node.      *)

\* nLockTime of the refund, relative timelock of the reclaim.
Unlocked(tx) ==
    /\ tx = "refund" => height >= RefundLocktime
    /\ tx = "reclaim" => confs["settle"] >= AliceTimeout

\* Fees are equal by construction, so a node keeps the spend it saw first.
Accepts(p, tx) ==
    /\ ~Confirmed(tx)
    /\ Parent[tx] \in Tx => Known(p, Parent[tx])
    /\ \A r \in Rivals(tx) : ~Known(p, r)
    /\ Unlocked(tx)

\* A transaction already in the pool is accepted again; one already in a
\* block, one whose output is gone and one not yet final are errors.
BroadcastOk(p, tx) == tx \in pool[p] \/ Accepts(p, tx)

Broadcast(p, tx) ==
    /\ BroadcastOk(p, tx)
    /\ pool' = [pool EXCEPT ![p] = @ \union {tx}]
    /\ UNCHANGED <<height, confs, evictions>>

\* `let _ = broadcast(..)`: the error is ignored.
TryBroadcast(p, tx) ==
    \/ Broadcast(p, tx)
    \/ ~BroadcastOk(p, tx) /\ UNCHANGED chainVars

----------------------------------------------------------------------------
(* What the network does.                                                  *)

\* tx still makes sense in a pool when `kept` are the pool's transactions.
Rooted(tx, kept) == Parent[tx] \in Tx => Parent[tx] \in kept \/ Confirmed(Parent[tx])

Relay(p, tx) ==
    /\ tx \notin pool[p]
    /\ \E q \in Party : tx \in pool[q]
    /\ Broadcast(p, tx)

Descends(t, tx) == \/ Parent[t] = tx
                   \/ Parent[t] \in Tx /\ Parent[Parent[t]] = tx

\* A node drops a transaction, and with it those that spend from it.
Evict(p, tx) ==
    /\ evictions < MaxEvictions
    /\ tx \in pool[p]
    /\ pool' = [pool EXCEPT ![p] = {t \in @ \ {tx} : ~Descends(t, tx)}]
    /\ evictions' = evictions + 1
    /\ UNCHANGED <<height, confs>>

\* A block may hold any consistent set of pooled transactions.
Minable(block) ==
    \A t \in block : Rooted(t, block) /\ Rivals(t) \intersect block = {}

\* Transactions a block leaves in a pool: not in it, and not (descendants
\* of) rivals of it.
Survives(t, block) ==
    /\ t \notin block
    /\ Rivals(t) \intersect block = {}
    /\ Parent[t] \in Tx => Rivals(Parent[t]) \intersect block = {}

Mine(block) ==
    /\ Minable(block)
    /\ height' = IF height < RefundLocktime THEN height + 1 ELSE height
    /\ confs' = [t \in Tx |->
           IF t \in block THEN 1
           ELSE IF Confirmed(t) /\ confs[t] < Cap(t) THEN confs[t] + 1
           ELSE confs[t]]
    /\ pool' = [p \in Party |-> {t \in pool[p] : Survives(t, block)}]
    /\ UNCHANGED evictions

Pooled == UNION {pool[p] : p \in Party}

ChainInit ==
    /\ height = 0
    /\ confs = [tx \in Tx |-> 0]
    /\ pool = [p \in Party |-> {}]
    /\ evictions = 0

ChainNext ==
    \/ \E block \in SUBSET Pooled : Mine(block)
    \/ \E p \in Party, tx \in Tx : Relay(p, tx)
    \/ \E p \in Party, tx \in Tx : Evict(p, tx)

ChainTypeOK ==
    /\ height \in 0..RefundLocktime
    /\ confs \in [Tx -> Nat] /\ \A tx \in Tx : confs[tx] <= Cap(tx)
    /\ pool \in [Party -> SUBSET Tx]
    /\ evictions \in 0..MaxEvictions
============================================================================
