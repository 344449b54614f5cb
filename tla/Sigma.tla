------------------------------- MODULE Sigma -------------------------------
(***************************************************************************)
(* The proofs that travel with the setup flights (src/src/sigma.rs and the *)
(* squaring scheme of src/src/pi_a.rs): the thimble PoKs, pi_r, pi_a, and  *)
(* the adaptor proof of the scheme that is gated off.                      *)
(*                                                                         *)
(* Scalars form a field, a point is named by its discrete logarithm to G.  *)
(* A claim is a disjunction of branches, a branch a list of equations      *)
(* target = x * base with one unknown x.  The hash is a random oracle: it  *)
(* answers a query it has not seen with any scalar but zero (reduce_from   *)
(* never returns zero), and one it has seen as before.                     *)
(*                                                                         *)
(* The caller may hold any witness, right or wrong, and the verifier may   *)
(* look at the proof under another context or with the thimbles swapped,   *)
(* as the tests of the two files do.                                       *)
(***************************************************************************)
EXTENDS Naturals, Sequences

CONSTANTS
    Scalar, Zero, One,
    Add(_, _), Neg(_), Mul(_, _),
    Ped,            \* the logarithm of B_ped, which nobody knows
    ThimblePairs    \* the pairs of thimbles considered

NonZero == Scalar \ {Zero}

Ball == {0, 1}

ASSUME FieldAssumption ==
    /\ Zero \in Scalar /\ One \in NonZero
    /\ \A x, y \in Scalar : /\ Add(x, y) \in Scalar /\ Mul(x, y) \in Scalar
                            /\ Add(x, y) = Add(y, x) /\ Mul(x, y) = Mul(y, x)
    /\ \A x, y, z \in Scalar : /\ Add(Add(x, y), z) = Add(x, Add(y, z))
                               /\ Mul(Mul(x, y), z) = Mul(x, Mul(y, z))
                               /\ Mul(x, Add(y, z)) = Add(Mul(x, y), Mul(x, z))
    /\ \A x \in Scalar : /\ Neg(x) \in Scalar
                         /\ Add(x, Zero) = x /\ Add(x, Neg(x)) = Zero /\ Mul(x, One) = x
    /\ \A x \in NonZero : \E y \in NonZero : Mul(x, y) = One

ASSUME SigmaAssumption == Ped \in NonZero /\ ThimblePairs \subseteq [Ball -> NonZero]

VARIABLES
    job,       \* the function called and its public arguments
    witness,   \* the secret ones
    stage,     \* how many of the job's claims are dealt with
    oracle,    \* the hash queries of the current claim, answered
    wire,      \* the proof of the current claim, as the scalars on the wire
    verdict    \* "prove", "verify", or how the claim ended

vars == <<job, witness, stage, oracle, wire, verdict>>

Sub(x, y) == Add(x, Neg(y))

\* `pad` of the squaring scheme.
Pad(t) == Mul(t, t)

\* `pedersen_commit`.
Pedersen(value, blind) == Add(value, Mul(blind, Ped))

----------------------------------------------------------------------------
(* The claims.                                                             *)

Eq(base, target) == [base |-> base, target |-> target]

\* verify_dlog: the logarithm of p.
DlogClaim(p) == [dom |-> "dlog", branches |-> [i \in {0} |-> <<Eq(One, p)>>]]

\* claim_statement: K - H_y is the player's claim key for one y.
ClaimStatement(k, thimbles) ==
    [dom |-> "or2", branches |-> [i \in Ball |-> <<Eq(One, Sub(k, thimbles[i]))>>]]

\* or_targets: C_a commits to one thimble.
OrTargets(c_a, thimbles) ==
    [dom |-> "or-dlog", branches |-> [i \in Ball |-> <<Eq(Ped, Sub(c_a, thimbles[i]))>>]]

\* Mutant: only V_i is recomputed, not U_i.
SquaringHalf(ctxt, d, thimbles) ==
    [dom |-> "or-dleq", branches |-> [i \in Ball |-> <<Eq(d, Sub(ctxt, thimbles[i]))>>]]

\* targets, and the two equations of a Chaum-Pedersen proof: D = t*G and
\* ctxt*G - A_i = t*D.
Squaring(ctxt, d, thimbles) ==
    [dom |-> "or-dleq", branches |->
        [i \in Ball |-> <<Eq(One, d), Eq(d, Sub(ctxt, thimbles[i]))>>]]

\* What each public function proves, one claim after the other.
Claims(j) ==
    CASE j.kind = "thimble_poks" -> <<DlogClaim(j.thimbles[0]), DlogClaim(j.thimbles[1])>>
      [] j.kind = "pi_r" -> <<ClaimStatement(j.point, j.thimbles)>>
      [] j.kind = "adaptor" -> <<DlogClaim(j.point), OrTargets(j.scalar, j.thimbles)>>
      [] j.kind = "pi_a" -> <<Squaring(j.scalar, j.point, j.thimbles)>>

\* The arguments prove and verify both refuse: a target or C_a at infinity,
\* and equal thimbles in pi_a.
Degenerate(j) ==
    \/ \E n \in DOMAIN Claims(j) :
          LET b == Claims(j)[n].branches
          IN \E i \in DOMAIN b : \E k \in DOMAIN b[i] : b[i][k].target = Zero
    \/ j.kind = "pi_a" /\ j.thimbles[0] = j.thimbles[1]
    \/ j.kind = "adaptor" /\ j.scalar = Zero

----------------------------------------------------------------------------
(* Proofs as bytes.                                                        *)

\* A proof is a challenge share and a response for each branch.
Total(e) == IF DOMAIN e = {0} THEN e[0] ELSE Add(e[0], e[1])

\* Mutant: the OR proofs' layout for the squaring proof.
ToBytesUniform(dom, p) ==
    IF dom = "dlog" THEN <<p.e[0], p.z[0]>> ELSE <<p.e[0], p.e[1], p.z[0], p.z[1]>>

\* to_bytes of DlogProof, Or2Proof and OrProof; the squaring proof keeps each
\* branch together.
ToBytes(dom, p) ==
    CASE dom = "dlog" -> <<p.e[0], p.z[0]>>
      [] dom \in {"or2", "or-dlog"} -> <<p.e[0], p.e[1], p.z[0], p.z[1]>>
      [] dom = "or-dleq" -> <<p.e[0], p.z[0], p.e[1], p.z[1]>>

\* from_bytes.
FromBytes(dom, b) ==
    CASE dom = "dlog" -> [e |-> [i \in {0} |-> b[1]], z |-> [i \in {0} |-> b[2]]]
      [] dom \in {"or2", "or-dlog"} -> [e |-> [i \in Ball |-> b[i + 1]], z |-> [i \in Ball |-> b[i + 3]]]
      [] dom = "or-dleq" -> [e |-> [i \in Ball |-> b[2 * i + 1]], z |-> [i \in Ball |-> b[2 * i + 2]]]

\* Every scalar on the wire must parse, and zero does not.
Parses(b) == \A i \in DOMAIN b : b[i] \in NonZero

----------------------------------------------------------------------------
(* The algebra of a branch.                                                *)

\* z*base - e*target: what a simulated branch commits to, and what the
\* verifier recomputes.
Commitment(branch, e, z) ==
    [k \in DOMAIN branch |-> Sub(Mul(z, branch[k].base), Mul(e, branch[k].target))]

Commitments(branches, p) ==
    [i \in DOMAIN branches |-> Commitment(branches[i], p.e[i], p.z[i])]

AtInfinity(u) == \E i \in DOMAIN u : \E k \in DOMAIN u[i] : u[i][k] = Zero

\* What the prover publishes: r*base in his branch, a simulation in the other.
Published(branches, real, coins) ==
    [i \in DOMAIN branches |->
        IF i = real THEN [k \in DOMAIN branches[i] |-> Mul(coins.r, branches[i][k].base)]
        ELSE Commitment(branches[i], coins.e, coins.z)]

\* His share of the challenge, and his answer to it.
Share(branches, coins, e) == IF DOMAIN branches = {0} THEN e ELSE Sub(e, coins.e)

Answer(branches, real, x, coins, e) ==
    LET share == Share(branches, coins, e) IN
    [e |-> [i \in DOMAIN branches |-> IF i = real THEN share ELSE coins.e],
     z |-> [i \in DOMAIN branches |->
               IF i = real THEN Add(coins.r, Mul(share, x)) ELSE coins.z]]

\* Mutant: every proof simulates with the same challenge.
CoinsOne(branches) == [r : NonZero, e : {One}, z : IF DOMAIN branches = {0} THEN {One} ELSE NonZero]

\* rand_scalar: the nonce, and the simulated branch if there is one.
Coins(branches) ==
    IF DOMAIN branches = {0} THEN [r : NonZero, e : {One}, z : {One}]
    ELSE [r : NonZero, e : NonZero, z : NonZero]

----------------------------------------------------------------------------
(* The hash.                                                               *)

\* Mutant: the context is left out of the transcript.
QueryNoContext(ctx, claim, u) == [ctx |-> "this", claim |-> claim, commitments |-> u]

\* `challenge`: domain, context, bases and targets, commitments.
Query(ctx, claim, u) == [ctx |-> ctx, claim |-> claim, commitments |-> u]

Asks(query, e) ==
    /\ \A q \in oracle : q.query = query => q.answer = e
    /\ oracle' = oracle \union {[query |-> query, answer |-> e]}

----------------------------------------------------------------------------
(* The functions.                                                          *)

Fails == verdict' = "failed" /\ UNCHANGED <<oracle, wire>>

\* Mutant: nobody looks at the share of the challenge or the response.
ProveUnchecked(claim, real, x) ==
    \E coins \in Coins(claim.branches) :
        LET u == Published(claim.branches, real, coins) IN
        IF AtInfinity(u) THEN Fails
        ELSE \E e \in NonZero :
                /\ oracle' = {[query |-> Query("this", claim, u), answer |-> e]}
                /\ wire' = ToBytes(claim.dom, Answer(claim.branches, real, x, coins, e))
                /\ verdict' = "verify"

\* What every prover does: commit, hash, answer; an error or a panic when
\* something comes out as zero.
Prove(claim, real, x) ==
    \E coins \in Coins(claim.branches) :
        LET u == Published(claim.branches, real, coins) IN
        IF AtInfinity(u) THEN Fails
        ELSE \E e \in NonZero :
                LET bytes == ToBytes(claim.dom, Answer(claim.branches, real, x, coins, e)) IN
                IF Parses(bytes)
                THEN /\ oracle' = {[query |-> Query("this", claim, u), answer |-> e]}
                     /\ wire' = bytes
                     /\ verdict' = "verify"
                ELSE Fails

\* And every verifier: parse, recompute, hash, compare with the sum of the
\* shares.
Verify(ctx, claim, yes, no) ==
    LET p == FromBytes(claim.dom, wire)
        u == Commitments(claim.branches, p)
    IN IF ~Parses(wire) \/ AtInfinity(u) THEN verdict' = no /\ UNCHANGED oracle
       ELSE \E e \in NonZero :
               /\ Asks(Query(ctx, claim, u), e)
               /\ verdict' = IF Total(p.e) = e THEN yes ELSE no

\* The claim to prove next, with its witness.
Proves(kind, n, real) ==
    /\ job.kind = kind
    /\ \/ verdict = "prove" /\ n = 1
       \/ verdict = "accepted" /\ n = stage + 1 /\ n <= Len(Claims(job))
    /\ stage' = n
    /\ IF Degenerate(job) THEN Fails ELSE Prove(Claims(job)[n], real, witness.x[n])
    /\ UNCHANGED <<job, witness>>

ProveThimblePoks == \E n \in {1, 2} : Proves("thimble_poks", n, 0)

ProvePiR == Proves("pi_r", 1, witness.branch)

ProveAdaptor == Proves("adaptor", 1, 0) \/ Proves("adaptor", 2, witness.branch)

ProvePiA == Proves("pi_a", 1, witness.branch)

Claim == Claims(job)[stage]

Verifies(kind) ==
    /\ job.kind = kind /\ verdict = "verify"
    /\ Verify("this", Claim, "accepted", "refused")
    /\ UNCHANGED <<job, witness, stage, wire>>

VerifyThimblePoks == Verifies("thimble_poks")

VerifyPiR == Verifies("pi_r")

VerifyAdaptor == Verifies("adaptor")

VerifyPiA == Verifies("pi_a")

Swapped(j) == [j EXCEPT !.thimbles = [i \in Ball |-> j.thimbles[1 - i]]]

\* The proof shown for another session's keys, or for the thimbles swapped.
VerifyElsewhere ==
    /\ verdict = "verify"
    /\ \E ctx \in {"this", "next"}, j \in {job, Swapped(job)} :
          /\ <<ctx, Claims(j)[stage]>> # <<"this", Claim>>
          /\ IF Degenerate(j) THEN verdict' = "turnedAway" /\ UNCHANGED oracle
             ELSE Verify(ctx, Claims(j)[stage], "replayed", "turnedAway")
    /\ UNCHANGED <<job, witness, stage, wire>>

Job(kind, thimbles, point, scalar) ==
    [kind |-> kind, thimbles |-> thimbles, point |-> point, scalar |-> scalar]

Init ==
    /\ stage = 1 /\ oracle = {} /\ wire = <<>> /\ verdict = "prove"
    /\ \E thimbles \in ThimblePairs, point, x \in NonZero, branch \in Ball :
          \/ /\ job = Job("thimble_poks", thimbles, One, One)
             /\ witness = [branch |-> 0, x |-> <<thimbles[0], thimbles[1]>>]
          \/ /\ job = Job("pi_r", thimbles, point, One)
             /\ witness = [branch |-> branch, x |-> <<x>>]
          \/ \E a_c, blind \in NonZero :
                /\ job = Job("adaptor", thimbles, point, Pedersen(a_c, blind))
                /\ witness = [branch |-> branch, x |-> <<x, blind>>]
          \/ \E ctxt \in NonZero :
                /\ job = Job("pi_a", thimbles, point, ctxt)
                /\ witness = [branch |-> branch, x |-> <<x>>]

Next ==
    \/ ProveThimblePoks \/ ProvePiR \/ ProveAdaptor \/ ProvePiA
    \/ VerifyThimblePoks \/ VerifyPiR \/ VerifyAdaptor \/ VerifyPiA
    \/ VerifyElsewhere

Spec == Init /\ [][Next]_vars

----------------------------------------------------------------------------
(* Properties.                                                             *)

Verdict == {"prove", "failed", "verify", "accepted", "refused", "replayed", "turnedAway"}

\* A proof on the wire always parses, and the hash is a function.
SigmaTypeOK ==
    /\ job \in [kind : {"thimble_poks", "pi_r", "adaptor", "pi_a"}, thimbles : ThimblePairs,
                point : NonZero, scalar : Scalar]
    /\ witness.branch \in Ball
    /\ stage \in DOMAIN Claims(job) /\ stage \in DOMAIN witness.x
    /\ \A n \in DOMAIN witness.x : witness.x[n] \in NonZero
    /\ verdict \in Verdict
    /\ verdict \in {"verify", "accepted", "refused", "replayed", "turnedAway"} =>
          Parses(wire) /\ Len(wire) = IF Claim.dom = "dlog" THEN 2 ELSE 4
    /\ \A q, r \in oracle : q.query = r.query => q = r

Real == IF Claim.dom = "dlog" THEN 0 ELSE witness.branch

\* The prover's witness satisfies every equation of his branch.
Holds == \A k \in DOMAIN Claim.branches[Real] :
    Claim.branches[Real][k].target = Mul(witness.x[stage], Claim.branches[Real][k].base)

Shown == FromBytes(Claim.dom, wire)

\* A proof made with a right witness is never refused, whatever the coins and
\* the hash: an honest setup does not fail at a proof.
HonestVerifies == verdict = "refused" => ~Holds

\* The verifier's query was another than the prover's, and the hash happened
\* to answer it with the sum on the wire.
Lucky == \E q, r \in oracle : q.query # r.query

\* Short of that luck an accepted proof is one of this session, for these
\* thimbles, by someone who knows the logarithm it claims.
AcceptedIsTrue ==
    verdict \in {"accepted", "replayed"} => Lucky \/ (verdict = "accepted" /\ Holds)

\* The shares of a challenge that a branch can answer, once committed.
Answerable(branch, u) == {e \in NonZero : \E z \in NonZero : Commitment(branch, e, z) = u}

\* A ciphertext that opens neither thimble can be proved only by luck: once
\* the prover has committed himself, a single challenge has an answer.
OpensOrOneChallenge ==
    job.kind = "pi_a" /\ verdict = "verify" =>
        \/ \E i \in Ball : Sub(job.scalar, Pad(job.point)) = job.thimbles[i]
        \/ LET u == Commitments(Claim.branches, Shown) IN
           \A e0 \in Answerable(Claim.branches[0], u[0]), e1 \in Answerable(Claim.branches[1], u[1]) :
               Add(e0, e1) = Total(Shown.e)

\* pi_r and the adaptor's OR tell nothing of the branch: the same bytes come
\* from the other one, with its witness and other coins.
HidesBranch ==
    verdict = "verify" /\ Claim.dom \in {"or2", "or-dlog"} /\ Holds =>
        \A x \in Scalar :
            Claim.branches[1 - Real][1].target = Mul(x, Claim.branches[1 - Real][1].base) =>
                \E coins \in Coins(Claim.branches) :
                    /\ Published(Claim.branches, 1 - Real, coins)
                           = Commitments(Claim.branches, Shown)
                    /\ Answer(Claim.branches, 1 - Real, x, coins, Total(Shown.e)) = Shown
============================================================================
