---------------------------- MODULE SigmaProofs ----------------------------
(***************************************************************************)
(* Theorems about Sigma, for every field, Pedersen base and set of         *)
(* thimbles: completeness of the proofs, what an accepted one shows, and   *)
(* the special soundness of pi_a.                                          *)
(***************************************************************************)
EXTENDS Sigma, TLAPS

----------------------------------------------------------------------------
(* The field.                                                              *)

\* Subtraction, and how it undoes addition.
LEMMA Subtraction ==
  ASSUME NEW x \in Scalar, NEW y \in Scalar
  PROVE  /\ Sub(x, y) \in Scalar
         /\ Add(Sub(x, y), y) = x
         /\ Sub(Add(x, y), y) = x
         /\ Sub(x, y) = Zero => x = y
<1>. USE FieldAssumption DEF Sub, NonZero
<1>1. Neg(y) \in Scalar /\ Sub(x, y) \in Scalar
  OBVIOUS
<1>2. Add(Neg(y), y) = Zero /\ Add(x, Zero) = x /\ Add(Zero, y) = y
  BY <1>1
<1>3. Add(Add(x, Neg(y)), y) = Add(x, Add(Neg(y), y))
  BY <1>1
<1>4. Add(Add(x, y), Neg(y)) = Add(x, Add(y, Neg(y)))
  BY <1>1
<1>. QED
  BY <1>1, <1>2, <1>3, <1>4

\* A common summand may be dropped.
LEMMA AddCancel ==
  ASSUME NEW x \in Scalar, NEW y \in Scalar, NEW z \in Scalar, Add(x, y) = Add(x, z)
  PROVE  y = z
<1>1. Add(y, x) = Add(z, x)
  BY FieldAssumption
<1>2. Sub(Add(y, x), x) = y /\ Sub(Add(z, x), x) = z
  BY Subtraction
<1>. QED
  BY <1>1, <1>2

\* Moving a term to the other side.
LEMMA Move ==
  ASSUME NEW x \in Scalar, NEW y \in Scalar, NEW z \in Scalar
  PROVE  Sub(x, y) = z <=> x = Add(z, y)
  BY Subtraction

\* Products with zero, and of a difference.
LEMMA MulZero ==
  ASSUME NEW x \in Scalar
  PROVE  Mul(x, Zero) = Zero /\ Mul(Zero, x) = Zero
<1>. USE FieldAssumption DEF NonZero
<1>1. Mul(x, Zero) \in Scalar /\ Add(Zero, Zero) = Zero
  OBVIOUS
<1>2. Add(Mul(x, Zero), Mul(x, Zero)) = Mul(x, Zero)
  BY <1>1
<1>3. Add(Mul(x, Zero), Zero) = Mul(x, Zero)
  BY <1>1
<1>4. Mul(x, Zero) = Zero
  BY <1>1, <1>2, <1>3, AddCancel
<1>. QED
  BY <1>4

LEMMA MulSub ==
  ASSUME NEW x \in Scalar, NEW y \in Scalar, NEW z \in Scalar
  PROVE  Mul(Sub(x, y), z) = Sub(Mul(x, z), Mul(y, z))
<1>1. Sub(x, y) \in Scalar /\ Add(Sub(x, y), y) = x
  BY Subtraction
<1>2. Mul(z, Add(Sub(x, y), y)) = Add(Mul(z, Sub(x, y)), Mul(z, y))
  BY <1>1, FieldAssumption
<1>3. Mul(x, z) = Add(Mul(Sub(x, y), z), Mul(y, z))
  BY <1>1, <1>2, FieldAssumption
<1>4. Mul(x, z) \in Scalar /\ Mul(y, z) \in Scalar /\ Mul(Sub(x, y), z) \in Scalar
  BY <1>1, FieldAssumption
<1>. QED
  BY <1>3, <1>4, Move

\* A factor other than zero may be dropped.
LEMMA MulCancel ==
  ASSUME NEW x \in NonZero, NEW y \in Scalar, NEW z \in Scalar, Mul(x, y) = Mul(x, z)
  PROVE  y = z
<1>. USE FieldAssumption DEF NonZero
<1>1. PICK w \in NonZero : Mul(x, w) = One
  OBVIOUS
<1>2. w \in Scalar /\ x \in Scalar /\ Mul(w, x) = One
  BY <1>1
<1>3. Mul(Mul(w, x), y) = Mul(w, Mul(x, y)) /\ Mul(Mul(w, x), z) = Mul(w, Mul(x, z))
  BY <1>2
<1>4. Mul(One, y) = y /\ Mul(One, z) = z
  OBVIOUS
<1>. QED
  BY <1>2, <1>3, <1>4

----------------------------------------------------------------------------
(* One equation.                                                           *)

\* The verifier recomputes r*base from the answer r + s*x exactly when x is
\* the logarithm, or the share s is zero.
LEMMA RealEquation ==
  ASSUME NEW r \in Scalar, NEW s \in Scalar, NEW x \in Scalar, NEW base \in Scalar,
         NEW target \in Scalar
  PROVE  Sub(Mul(Add(r, Mul(s, x)), base), Mul(s, target)) = Mul(r, base)
            <=> Mul(s, target) = Mul(s, Mul(x, base))
<1>. DEFINE rb == Mul(r, base)
            sxb == Mul(s, Mul(x, base))
            st == Mul(s, target)
<1>1. /\ Mul(s, x) \in Scalar /\ rb \in Scalar /\ sxb \in Scalar /\ st \in Scalar
      /\ Add(r, Mul(s, x)) \in Scalar /\ Mul(Add(r, Mul(s, x)), base) \in Scalar
      /\ Add(rb, sxb) \in Scalar
  BY FieldAssumption
<1>2. Mul(base, Add(r, Mul(s, x))) = Add(Mul(base, r), Mul(base, Mul(s, x)))
  BY <1>1, FieldAssumption
<1>3. Mul(base, Mul(s, x)) = sxb
  <2>1. Mul(Mul(s, x), base) = Mul(s, Mul(x, base))
    BY FieldAssumption
  <2>. QED
    BY <1>1, <2>1, FieldAssumption
<1>4. Mul(Add(r, Mul(s, x)), base) = Add(rb, sxb)
  BY <1>1, <1>2, <1>3, FieldAssumption
<1>5. Sub(Add(rb, sxb), st) = rb <=> Add(rb, sxb) = Add(rb, st)
  <2>. HIDE DEF rb, sxb, st
  <2>. QED
    BY <1>1, Move
<1>6. Add(rb, sxb) = Add(rb, st) <=> sxb = st
  BY <1>1, AddCancel
<1>. QED
  BY <1>4, <1>5, <1>6

\* Two answers to one commitment: the difference of the responses is the
\* difference of the challenges times the logarithm.
LEMMA TwoAnswers ==
  ASSUME NEW e \in Scalar, NEW z \in Scalar, NEW f \in Scalar, NEW w \in Scalar,
         NEW base \in Scalar, NEW target \in Scalar,
         Sub(Mul(z, base), Mul(e, target)) = Sub(Mul(w, base), Mul(f, target))
  PROVE  Mul(Sub(z, w), base) = Mul(Sub(e, f), target)
<1>. DEFINE zb == Mul(z, base)
            wb == Mul(w, base)
            et == Mul(e, target)
            ft == Mul(f, target)
            u == Sub(zb, et)
<1>1. zb \in Scalar /\ wb \in Scalar /\ et \in Scalar /\ ft \in Scalar /\ u \in Scalar
  BY FieldAssumption, Subtraction
<1>2. zb = Add(u, et) /\ wb = Add(u, ft)
  BY <1>1, Move
<1>3. Sub(et, ft) \in Scalar /\ Add(Sub(et, ft), ft) = et
  BY <1>1, Subtraction
<1>4. Add(u, Add(Sub(et, ft), ft)) = Add(Add(u, Sub(et, ft)), ft)
  BY <1>1, <1>3, FieldAssumption
<1>5. Add(Add(u, Sub(et, ft)), ft) = Add(Sub(et, ft), Add(u, ft))
  BY <1>1, <1>3, FieldAssumption
<1>6. zb = Add(Sub(et, ft), wb)
  BY <1>2, <1>3, <1>4, <1>5
<1>7. Sub(zb, wb) = Sub(et, ft)
  BY <1>1, <1>3, <1>6, Move
<1>. QED
  BY <1>7, MulSub

\* Of the three scalars of an answer r + s*x the nonce is determined by the
\* others.
LEMMA Nonce ==
  ASSUME NEW s \in Scalar, NEW x \in Scalar, NEW z \in Scalar
  PROVE  Sub(z, Mul(s, x)) \in Scalar /\ Add(Sub(z, Mul(s, x)), Mul(s, x)) = z
<1>1. Mul(s, x) \in Scalar
  BY FieldAssumption
<1>. QED
  BY <1>1, Subtraction

----------------------------------------------------------------------------
(* The squaring branch.                                                    *)

\* A branch of pi_a answers two shares of one commitment only if its target
\* is the square of the logarithm of D.
LEMMA TwoShares ==
  ASSUME NEW d \in Scalar, NEW y \in Scalar,
         NEW e \in Scalar, NEW z \in Scalar, NEW f \in Scalar, NEW w \in Scalar, e # f,
         Commitment(<<Eq(One, d), Eq(d, y)>>, e, z) = Commitment(<<Eq(One, d), Eq(d, y)>>, f, w)
  PROVE  y = Mul(d, d)
<1>. DEFINE branch == <<Eq(One, d), Eq(d, y)>>
<1>1. /\ DOMAIN branch = {1, 2}
      /\ branch[1].base = One /\ branch[1].target = d
      /\ branch[2].base = d /\ branch[2].target = y
  BY DEF Eq
<1>2. \A k \in {1, 2} : Commitment(branch, e, z)[k] = Commitment(branch, f, w)[k]
  OBVIOUS
<1>3. /\ Sub(Mul(z, One), Mul(e, d)) = Sub(Mul(w, One), Mul(f, d))
      /\ Sub(Mul(z, d), Mul(e, y)) = Sub(Mul(w, d), Mul(f, y))
  <2>. HIDE DEF branch
  <2>1. \A k \in {1, 2} :
           Sub(Mul(z, branch[k].base), Mul(e, branch[k].target))
             = Sub(Mul(w, branch[k].base), Mul(f, branch[k].target))
    BY <1>1, <1>2 DEF Commitment
  <2>. QED
    BY <1>1, <2>1
<1>4. One \in Scalar /\ Sub(e, f) \in NonZero /\ Sub(z, w) \in Scalar
  BY Subtraction, FieldAssumption DEF NonZero
<1>5. Mul(Sub(z, w), One) = Mul(Sub(e, f), d) /\ Mul(Sub(z, w), d) = Mul(Sub(e, f), y)
  <2>1. Mul(Sub(z, w), One) = Mul(Sub(e, f), d)
    <3>1. One \in Scalar /\ Sub(Mul(z, One), Mul(e, d)) = Sub(Mul(w, One), Mul(f, d))
      BY <1>3, <1>4
    <3>. QED
      BY ONLY <3>1, TwoAnswers, SMTT(30), d \in Scalar, e \in Scalar, z \in Scalar, f \in Scalar, w \in Scalar
  <2>2. Mul(Sub(z, w), d) = Mul(Sub(e, f), y)
    BY <1>3, TwoAnswers
  <2>. QED
    BY <2>1, <2>2
<1>. DEFINE ef == Sub(e, f)
<1>. HIDE DEF ef
<1>6. Mul(Mul(ef, d), d) = Mul(ef, y)
  <2>1. Mul(Sub(z, w), One) = Sub(z, w)
    BY <1>4, FieldAssumption
  <2>. QED
    BY <1>5, <2>1 DEF ef
<1>7. Mul(Mul(ef, d), d) = Mul(ef, Mul(d, d)) /\ Mul(d, d) \in Scalar /\ ef \in NonZero
  BY <1>4, FieldAssumption DEF ef, NonZero
<1>. QED
  BY <1>6, <1>7, MulCancel

----------------------------------------------------------------------------
(* Claims.                                                                 *)

Jobs == [kind : {"thimble_poks", "pi_r", "adaptor", "pi_a"}, thimbles : ThimblePairs,
         point : NonZero, scalar : Scalar]

Equations(branches) ==
    \A i \in DOMAIN branches : \A k \in DOMAIN branches[i] :
        branches[i][k].base \in Scalar /\ branches[i][k].target \in Scalar

\* The number of claims, and the shape of one.
LEMMA ClaimCount ==
  ASSUME NEW j \in Jobs
  PROVE  DOMAIN Claims(j) = IF j.kind \in {"thimble_poks", "adaptor"} THEN {1, 2} ELSE {1}
  BY DEF Claims, Jobs

LEMMA ClaimShape ==
  ASSUME NEW j \in Jobs, NEW n \in DOMAIN Claims(j)
  PROVE  LET c == Claims(j)[n] IN
         /\ \/ c.dom = "dlog" /\ DOMAIN c.branches = {0}
            \/ c.dom \in {"or2", "or-dlog", "or-dleq"} /\ DOMAIN c.branches = Ball
         /\ Equations(c.branches)
         /\ j.kind = "thimble_poks" => c.dom = "dlog"
         /\ j.kind = "adaptor" => (c.dom = "dlog" <=> n = 1)
         /\ j.kind = "pi_r" => c.dom = "or2"
         /\ j.kind = "pi_a" => c = Squaring(j.scalar, j.point, j.thimbles)
<1>1. /\ j.point \in Scalar /\ j.scalar \in Scalar /\ One \in Scalar /\ Ped \in Scalar
      /\ \A i \in Ball : j.thimbles[i] \in Scalar
      /\ \A i \in Ball : Sub(j.point, j.thimbles[i]) \in Scalar /\ Sub(j.scalar, j.thimbles[i]) \in Scalar
  <2>1. j.point \in Scalar /\ j.scalar \in Scalar /\ One \in Scalar /\ Ped \in Scalar
    BY FieldAssumption, SigmaAssumption DEF Jobs, NonZero
  <2>2. j.thimbles \in [Ball -> NonZero]
    BY SigmaAssumption DEF Jobs
  <2>3. \A i \in Ball : j.thimbles[i] \in Scalar
    BY <2>2 DEF NonZero
  <2>. QED
    BY <2>1, <2>3, Subtraction
<1>2. CASE j.kind = "thimble_poks"
  <2>1. n \in {1, 2} /\ Claims(j)[n] = DlogClaim(j.thimbles[n - 1])
    BY <1>2, ClaimCount DEF Claims
  <2>. QED
    BY <1>1, <1>2, <2>1 DEF DlogClaim, Eq, Equations, Ball
<1>3. CASE j.kind = "pi_r"
  <2>1. n = 1 /\ Claims(j)[n] = ClaimStatement(j.point, j.thimbles)
    BY <1>3, ClaimCount DEF Claims
  <2>. QED
    BY <1>1, <1>3, <2>1 DEF ClaimStatement, Eq, Equations
<1>4. CASE j.kind = "adaptor"
  <2>1. \/ n = 1 /\ Claims(j)[n] = DlogClaim(j.point)
        \/ n = 2 /\ Claims(j)[n] = OrTargets(j.scalar, j.thimbles)
    BY <1>4, ClaimCount DEF Claims
  <2>. QED
    BY <1>1, <1>4, <2>1 DEF DlogClaim, OrTargets, Eq, Equations
<1>5. CASE j.kind = "pi_a"
  <2>1. n = 1 /\ Claims(j)[n] = Squaring(j.scalar, j.point, j.thimbles)
    BY <1>5, ClaimCount DEF Claims
  <2>. QED
    BY <1>1, <1>5, <2>1 DEF Squaring, Eq, Equations
<1>. QED
  BY <1>2, <1>3, <1>4, <1>5 DEF Jobs

\* What is written is what is read, for the layout of each kind of proof.
LEMMA RoundTrip ==
  ASSUME NEW dom, NEW dmn, NEW e \in [dmn -> Scalar], NEW z \in [dmn -> Scalar],
         \/ dom = "dlog" /\ dmn = {0}
         \/ dom \in {"or2", "or-dlog", "or-dleq"} /\ dmn = Ball
  PROVE  LET b == ToBytes(dom, [e |-> e, z |-> z]) IN
         /\ FromBytes(dom, b) = [e |-> e, z |-> z]
         /\ DOMAIN b = 1..(IF dom = "dlog" THEN 2 ELSE 4) /\ Len(b) = IF dom = "dlog" THEN 2 ELSE 4
         /\ b \in Seq(Scalar)
         /\ Parses(b) <=> \A i \in dmn : e[i] \in NonZero /\ z[i] \in NonZero
<1>1. CASE dom = "dlog"
  <2>1. ToBytes(dom, [e |-> e, z |-> z]) = <<e[0], z[0]>>
    BY <1>1 DEF ToBytes
  <2>2. e = [i \in {0} |-> e[0]] /\ z = [i \in {0} |-> z[0]] /\ dmn = {0}
    BY <1>1
  <2>. QED
    BY <1>1, <2>1, <2>2, SMTT(30) DEF FromBytes, Parses
<1>2. CASE dom \in {"or2", "or-dlog"}
  <2>. DEFINE b == <<e[0], e[1], z[0], z[1]>>
  <2>1. ToBytes(dom, [e |-> e, z |-> z]) = b
    BY <1>2 DEF ToBytes
  <2>2. dmn = {0, 1}
    BY <1>2 DEF Ball
  <2>3. /\ DOMAIN b = 1..4 /\ Len(b) = 4 /\ b[1] = e[0] /\ b[2] = e[1] /\ b[3] = z[0] /\ b[4] = z[1]
        /\ b \in Seq(Scalar)
    BY <2>2
  <2>. HIDE DEF b
  <2>4. \A i \in Ball : b[i + 1] = e[i] /\ b[i + 3] = z[i]
    BY <2>3 DEF Ball
  <2>5. FromBytes(dom, b) = [e |-> [i \in Ball |-> e[i]], z |-> [i \in Ball |-> z[i]]]
    BY <1>2, <2>4 DEF FromBytes
  <2>6. e = [i \in Ball |-> e[i]] /\ z = [i \in Ball |-> z[i]]
    BY <2>2 DEF Ball
  <2>7. Parses(b) <=> \A i \in {0, 1} : e[i] \in NonZero /\ z[i] \in NonZero
    BY <2>3 DEF Parses
  <2>. QED
    BY <1>2, <2>1, <2>2, <2>3, <2>5, <2>6, <2>7
<1>3. CASE dom = "or-dleq"
  <2>. DEFINE b == <<e[0], z[0], e[1], z[1]>>
  <2>1. ToBytes(dom, [e |-> e, z |-> z]) = b
    BY <1>3 DEF ToBytes
  <2>2. dmn = {0, 1}
    BY <1>3 DEF Ball
  <2>3. /\ DOMAIN b = 1..4 /\ Len(b) = 4 /\ b[1] = e[0] /\ b[3] = e[1] /\ b[2] = z[0] /\ b[4] = z[1]
        /\ b \in Seq(Scalar)
    BY <2>2
  <2>. HIDE DEF b
  <2>4. \A i \in Ball : b[2 * i + 1] = e[i] /\ b[2 * i + 2] = z[i]
    BY <2>3 DEF Ball
  <2>5. FromBytes(dom, b) = [e |-> [i \in Ball |-> e[i]], z |-> [i \in Ball |-> z[i]]]
    BY <1>3, <2>4 DEF FromBytes
  <2>6. e = [i \in Ball |-> e[i]] /\ z = [i \in Ball |-> z[i]]
    BY <2>2 DEF Ball
  <2>7. Parses(b) <=> \A i \in {0, 1} : e[i] \in NonZero /\ z[i] \in NonZero
    BY <2>3 DEF Parses
  <2>. QED
    BY <1>3, <2>1, <2>2, <2>3, <2>5, <2>6, <2>7
<1>. QED
  BY <1>1, <1>2, <1>3

----------------------------------------------------------------------------
(* What the verifier recomputes from an answer.                            *)

\* The parts of an answer are scalars, and its shares add up to the challenge.
LEMMA AnswerShape ==
  ASSUME NEW branches, DOMAIN branches \in {{0}, Ball}, NEW real \in DOMAIN branches,
         NEW x \in Scalar, NEW coins \in Coins(branches), NEW e \in NonZero
  PROVE  LET p == Answer(branches, real, x, coins, e) IN
         /\ coins.r \in NonZero /\ coins.e \in NonZero /\ coins.z \in NonZero
         /\ Share(branches, coins, e) \in Scalar
         /\ p = [e |-> p.e, z |-> p.z]
         /\ p.e \in [DOMAIN branches -> Scalar] /\ p.z \in [DOMAIN branches -> Scalar]
         /\ p.e[real] = Share(branches, coins, e)
         /\ p.z[real] = Add(coins.r, Mul(p.e[real], x))
         /\ \A i \in DOMAIN branches \ {real} : p.e[i] = coins.e /\ p.z[i] = coins.z
         /\ Total(p.e) = e
<1>. DEFINE share == Share(branches, coins, e)
            p == Answer(branches, real, x, coins, e)
<1>1. /\ coins.r \in NonZero /\ coins.e \in NonZero /\ coins.z \in NonZero
      /\ coins.r \in Scalar /\ coins.e \in Scalar /\ coins.z \in Scalar /\ e \in Scalar
  BY FieldAssumption DEF Coins, NonZero
<1>2. share \in Scalar
  BY <1>1, Subtraction DEF Share
<1>3. Add(coins.r, Mul(share, x)) \in Scalar
  <2>. HIDE DEF share
  <2>. QED
    BY <1>1, <1>2, FieldAssumption
<1>4. /\ p = [e |-> p.e, z |-> p.z]
      /\ p.e = [i \in DOMAIN branches |-> IF i = real THEN share ELSE coins.e]
      /\ p.z = [i \in DOMAIN branches |->
                   IF i = real THEN Add(coins.r, Mul(share, x)) ELSE coins.z]
  BY DEF Answer
<1>5. Total(p.e) = e
  <2>1. CASE DOMAIN branches = {0}
    <3>1. DOMAIN p.e = {0} /\ p.e[0] = share
      BY <1>4, <2>1
    <3>. QED
      BY <2>1, <3>1 DEF Total, Share
  <2>2. CASE DOMAIN branches = Ball
    <3>1. Ball # {0} /\ real \in {0, 1}
      BY <2>2 DEF Ball
    <3>2. share = Sub(e, coins.e) /\ Add(share, coins.e) = e /\ Add(coins.e, share) = e
      <4>1. share = Sub(e, coins.e)
        BY <2>2, <3>1 DEF Share
      <4>2. Add(share, coins.e) = e
        BY <1>1, <4>1, Subtraction
      <4>. HIDE DEF share
      <4>3. Add(coins.e, share) = Add(share, coins.e)
        BY <1>1, <1>2, FieldAssumption
      <4>. QED
        BY <4>1, <4>2, <4>3
    <3>3. /\ DOMAIN p.e = Ball
          /\ real = 0 => p.e[0] = share /\ p.e[1] = coins.e
          /\ real = 1 => p.e[0] = coins.e /\ p.e[1] = share
      BY <1>4, <2>2 DEF Ball
    <3>. QED
      BY <3>1, <3>2, <3>3 DEF Total
  <2>. QED
    BY <2>1, <2>2
<1>. HIDE DEF share, p
<1>. QED
  BY <1>1, <1>2, <1>3, <1>4, <1>5 DEF share, p

\* He recomputes what was published exactly when the witness is right.
LEMMA Recomputed ==
  ASSUME NEW branches, DOMAIN branches \in {{0}, Ball}, Equations(branches),
         NEW real \in DOMAIN branches, NEW x \in Scalar, NEW coins \in Coins(branches),
         NEW e \in NonZero, Answer(branches, real, x, coins, e).e[real] \in NonZero
  PROVE  Commitments(branches, Answer(branches, real, x, coins, e))
            = Published(branches, real, coins)
         <=> \A k \in DOMAIN branches[real] :
                branches[real][k].target = Mul(x, branches[real][k].base)
<1>. DEFINE p == Answer(branches, real, x, coins, e)
            s == p.e[real]
            u == Commitments(branches, p)
            v == Published(branches, real, coins)
<1>1. /\ coins.r \in Scalar /\ s \in NonZero /\ s \in Scalar
      /\ p.z[real] = Add(coins.r, Mul(s, x))
      /\ \A i \in DOMAIN branches \ {real} : p.e[i] = coins.e /\ p.z[i] = coins.z
  BY AnswerShape DEF NonZero
<1>2. /\ DOMAIN u = DOMAIN branches /\ DOMAIN v = DOMAIN branches
      /\ u = [i \in DOMAIN branches |-> u[i]] /\ v = [i \in DOMAIN branches |-> v[i]]
  BY DEF Commitments, Published
<1>3. \A i \in DOMAIN branches \ {real} : u[i] = v[i]
  BY <1>1 DEF Commitments, Published
<1>4. u[real] = [k \in DOMAIN branches[real] |->
          Sub(Mul(Add(coins.r, Mul(s, x)), branches[real][k].base), Mul(s, branches[real][k].target))]
  <2>1. u[real] = Commitment(branches[real], s, p.z[real])
    BY DEF Commitments
  <2>. HIDE DEF p, s
  <2>. QED
    BY <1>1, <2>1 DEF Commitment
<1>5. v[real] = [k \in DOMAIN branches[real] |-> Mul(coins.r, branches[real][k].base)]
  BY DEF Published
<1>. HIDE DEF p, s, u, v
<1>6. ASSUME NEW k \in DOMAIN branches[real]
      PROVE  u[real][k] = v[real][k]
                <=> branches[real][k].target = Mul(x, branches[real][k].base)
  <2>. DEFINE base == branches[real][k].base
              target == branches[real][k].target
  <2>1. base \in Scalar /\ target \in Scalar
    BY <1>6 DEF Equations
  <2>2. /\ u[real][k] = Sub(Mul(Add(coins.r, Mul(s, x)), base), Mul(s, target))
        /\ v[real][k] = Mul(coins.r, base)
    BY <1>4, <1>5
  <2>. HIDE DEF base, target
  <2>3. u[real][k] = v[real][k] <=> Mul(s, target) = Mul(s, Mul(x, base))
    BY <1>1, <2>1, <2>2, RealEquation
  <2>4. Mul(x, base) \in Scalar
    BY <2>1, FieldAssumption
  <2>5. Mul(s, target) = Mul(s, Mul(x, base)) <=> target = Mul(x, base)
    BY <1>1, <2>1, <2>4, MulCancel
  <2>. QED
    BY <2>3, <2>5 DEF base, target
<1>7. u[real] = v[real] <=> \A k \in DOMAIN branches[real] : u[real][k] = v[real][k]
  BY <1>4, <1>5
<1>8. u = v <=> u[real] = v[real]
  BY <1>2, <1>3
<1>. QED
  BY <1>6, <1>7, <1>8 DEF u, v, p

----------------------------------------------------------------------------
(* The inductive invariant.                                                *)

Seen == {"verify", "accepted", "refused", "replayed", "turnedAway"}

TypeInv ==
    /\ job \in Jobs
    /\ witness.branch \in Ball
    /\ stage \in DOMAIN Claims(job) /\ DOMAIN witness.x = DOMAIN Claims(job)
    /\ \A n \in DOMAIN witness.x : witness.x[n] \in NonZero
    /\ verdict \in Verdict
    /\ \A q, r \in oracle : q.query = r.query => q = r

\* What prove leaves behind: bytes that parse, and the one query they answer.
Made(claim, real, x) ==
    \E coins \in Coins(claim.branches), e \in NonZero :
        LET u == Published(claim.branches, real, coins) IN
        /\ ~AtInfinity(u)
        /\ wire = ToBytes(claim.dom, Answer(claim.branches, real, x, coins, e))
        /\ oracle = {[query |-> Query("this", claim, u), answer |-> e]}

WireInv ==
    /\ verdict \in Seen =>
          /\ wire \in Seq(Scalar) /\ Parses(wire)
          /\ Len(wire) = IF Claim.dom = "dlog" THEN 2 ELSE 4
    /\ verdict = "verify" => Made(Claim, Real, witness.x[stage])

SigmaInv == TypeInv /\ WireInv

\* The branch the witness is for is one of the claim's.
LEMMA RealBranch ==
  ASSUME TypeInv
  PROVE  /\ DOMAIN Claim.branches \in {{0}, Ball} /\ Real \in DOMAIN Claim.branches
         /\ \/ Claim.dom = "dlog" /\ DOMAIN Claim.branches = {0}
            \/ Claim.dom \in {"or2", "or-dlog", "or-dleq"} /\ DOMAIN Claim.branches = Ball
         /\ Equations(Claim.branches)
         /\ witness.x[stage] \in Scalar
  BY ClaimShape DEF TypeInv, Claim, Real, NonZero

\* What the proof on the wire shows and what the verifier recomputes from it.
LEMMA OnTheWire ==
  ASSUME SigmaInv, verdict = "verify"
  PROVE  \E e \in NonZero, coins \in Coins(Claim.branches) :
            LET u == Published(Claim.branches, Real, coins) IN
            /\ oracle = {[query |-> Query("this", Claim, u), answer |-> e]}
            /\ ~AtInfinity(u)
            /\ Shown = Answer(Claim.branches, Real, witness.x[stage], coins, e)
            /\ \A i \in DOMAIN Claim.branches : Shown.e[i] \in NonZero /\ Shown.z[i] \in NonZero
            /\ Total(Shown.e) = e
            /\ Commitments(Claim.branches, Shown) = u <=> Holds
<1>. DEFINE branches == Claim.branches
            x == witness.x[stage]
<1>1. /\ DOMAIN branches \in {{0}, Ball} /\ Real \in DOMAIN branches /\ x \in Scalar
      /\ \/ Claim.dom = "dlog" /\ DOMAIN branches = {0}
         \/ Claim.dom \in {"or2", "or-dlog", "or-dleq"} /\ DOMAIN branches = Ball
      /\ Equations(branches)
  BY RealBranch DEF SigmaInv
<1>2. Made(Claim, Real, x) /\ Parses(wire)
  BY DEF SigmaInv, WireInv, Seen
<1>3. PICK coins \in Coins(branches), e \in NonZero :
         LET u == Published(branches, Real, coins) IN
         /\ ~AtInfinity(u)
         /\ wire = ToBytes(Claim.dom, Answer(branches, Real, x, coins, e))
         /\ oracle = {[query |-> Query("this", Claim, u), answer |-> e]}
  BY <1>2 DEF Made
<1>. DEFINE p == Answer(branches, Real, x, coins, e)
<1>. HIDE DEF branches, x, p
<1>4. /\ p = [e |-> p.e, z |-> p.z]
      /\ p.e \in [DOMAIN branches -> Scalar] /\ p.z \in [DOMAIN branches -> Scalar]
      /\ Total(p.e) = e
  BY <1>1, AnswerShape DEF p
<1>5. /\ FromBytes(Claim.dom, wire) = p
      /\ \A i \in DOMAIN branches : p.e[i] \in NonZero /\ p.z[i] \in NonZero
  <2>1. wire = ToBytes(Claim.dom, [e |-> p.e, z |-> p.z])
    BY <1>3, <1>4 DEF p
  <2>2. /\ FromBytes(Claim.dom, wire) = [e |-> p.e, z |-> p.z]
        /\ Parses(wire) <=> \A i \in DOMAIN branches : p.e[i] \in NonZero /\ p.z[i] \in NonZero
    BY <1>1, <1>4, <2>1, RoundTrip
  <2>. QED
    BY <1>2, <1>4, <2>2
<1>6. Commitments(branches, p) = Published(branches, Real, coins) <=> Holds
  BY <1>1, <1>5, Recomputed DEF p, Holds, branches, x
<1>. QED
  BY <1>3, <1>4, <1>5, <1>6 DEF Shown, branches, x, p

\* Initially nothing is on the wire.
LEMMA InitInv ==
  ASSUME Init
  PROVE  SigmaInv /\ HonestVerifies /\ AcceptedIsTrue
<1>1. verdict = "prove" /\ oracle = {} /\ stage = 1
  BY DEF Init
<1>2. PICK thimbles \in ThimblePairs, point \in NonZero, x \in NonZero, branch \in Ball :
          \/ /\ job = Job("thimble_poks", thimbles, One, One)
             /\ witness = [branch |-> 0, x |-> <<thimbles[0], thimbles[1]>>]
          \/ /\ job = Job("pi_r", thimbles, point, One)
             /\ witness = [branch |-> branch, x |-> <<x>>]
          \/ \E a_c, blind \in NonZero :
                /\ job = Job("adaptor", thimbles, point, Pedersen(a_c, blind))
                /\ witness = [branch |-> branch, x |-> <<x, blind>>]
          \/ \E ctxt \in NonZero :
                /\ job = Job("pi_a", thimbles, point, ctxt)
                /\ witness = [branch |-> branch, x |-> <<x>>]
  BY DEF Init
<1>3. /\ One \in NonZero /\ One \in Scalar /\ \A a \in NonZero : a \in Scalar
      /\ thimbles[0] \in NonZero /\ thimbles[1] \in NonZero
      /\ \A a, b \in NonZero : Pedersen(a, b) \in Scalar
  <2>1. thimbles \in [Ball -> NonZero] /\ 0 \in Ball /\ 1 \in Ball
    BY SigmaAssumption DEF Ball
  <2>2. ASSUME NEW a \in Scalar, NEW b \in Scalar
        PROVE  Pedersen(a, b) \in Scalar
    <3>1. Mul(b, Ped) \in Scalar
      BY FieldAssumption, SigmaAssumption DEF NonZero
    <3>. QED
      BY <3>1, FieldAssumption DEF Pedersen
  <2>. QED
    BY <2>1, <2>2, FieldAssumption DEF NonZero
<1>4. job \in Jobs /\ witness.branch \in Ball
  BY <1>2, <1>3 DEF Job, Jobs, Ball
<1>5. DOMAIN witness.x = DOMAIN Claims(job) /\ \A n \in DOMAIN witness.x : witness.x[n] \in NonZero
  <2>1. DOMAIN Claims(job) = IF job.kind \in {"thimble_poks", "adaptor"} THEN {1, 2} ELSE {1}
    BY <1>4, ClaimCount
  <2>2. CASE job.kind = "thimble_poks"
    <3>1. witness.x = <<thimbles[0], thimbles[1]>>
      BY <1>2, <2>2 DEF Job
    <3>. QED
      BY <1>3, <2>1, <2>2, <3>1
  <2>3. CASE job.kind = "adaptor"
    <3>1. \E blind \in NonZero : witness.x = <<x, blind>>
      BY <1>2, <2>3 DEF Job
    <3>. QED
      BY <1>3, <2>1, <2>3, <3>1
  <2>4. CASE job.kind \in {"pi_r", "pi_a"}
    <3>1. witness.x = <<x>>
      BY <1>2, <2>4 DEF Job
    <3>. QED
      BY <1>3, <2>1, <2>4, <3>1
  <2>. QED
    BY <1>4, <2>2, <2>3, <2>4 DEF Jobs
<1>6. stage \in DOMAIN Claims(job)
  BY <1>1, <1>4, ClaimCount
<1>. QED
  BY <1>1, <1>4, <1>5, <1>6
  DEF SigmaInv, TypeInv, WireInv, Verdict, Seen, HonestVerifies, AcceptedIsTrue

\* Prove leaves an error, or a proof that parses and its query.
LEMMA ProveKeeps ==
  ASSUME TypeInv, NEW kind, NEW n \in Nat, NEW real, Proves(kind, n, real), n \in {1, 2},
         n \in DOMAIN Claims(job) => real = IF Claims(job)[n].dom = "dlog" THEN 0 ELSE witness.branch
  PROVE  SigmaInv' /\ HonestVerifies' /\ AcceptedIsTrue'
<1>. DEFINE c == Claims(job)[n]
<1>1. job' = job /\ witness' = witness /\ stage' = n
  BY DEF Proves
<1>2. n \in DOMAIN Claims(job)
  BY ClaimCount DEF Proves, TypeInv
<1>3. /\ Claim' = c
      /\ \/ c.dom = "dlog" /\ DOMAIN c.branches = {0}
         \/ c.dom \in {"or2", "or-dlog", "or-dleq"} /\ DOMAIN c.branches = Ball
      /\ real \in DOMAIN c.branches /\ real = Real'
      /\ witness.x[n] \in Scalar
  BY <1>1, <1>2, ClaimShape DEF TypeInv, Claim, Real, NonZero
<1>4. ASSUME Fails
      PROVE  SigmaInv' /\ HonestVerifies' /\ AcceptedIsTrue'
  BY <1>1, <1>2, <1>4
  DEF Fails, SigmaInv, TypeInv, WireInv, Verdict, Seen, HonestVerifies, AcceptedIsTrue
<1>5. ASSUME Prove(c, real, witness.x[n]), ~Fails
      PROVE  SigmaInv' /\ HonestVerifies' /\ AcceptedIsTrue'
  <2>. DEFINE u(coins) == Published(c.branches, real, coins)
              p(coins, e) == Answer(c.branches, real, witness.x[n], coins, e)
  <2>1. PICK coins \in Coins(c.branches), e \in NonZero :
           /\ ~AtInfinity(u(coins))
           /\ Parses(ToBytes(c.dom, p(coins, e)))
           /\ oracle' = {[query |-> Query("this", c, u(coins)), answer |-> e]}
           /\ wire' = ToBytes(c.dom, p(coins, e))
           /\ verdict' = "verify"
    BY <1>5 DEF Prove
  <2>2. /\ p(coins, e) = [e |-> p(coins, e).e, z |-> p(coins, e).z]
        /\ p(coins, e).e \in [DOMAIN c.branches -> Scalar]
        /\ p(coins, e).z \in [DOMAIN c.branches -> Scalar]
    <3>1. DOMAIN c.branches \in {{0}, Ball}
      BY <1>3
    <3>2. real \in DOMAIN c.branches /\ witness.x[n] \in Scalar
      BY <1>3
    <3>. HIDE DEF c
    <3>. QED
      BY <3>1, <3>2, AnswerShape
  <2>. HIDE DEF c, p, u
  <2>3. /\ wire' \in Seq(Scalar)
        /\ Len(wire') = IF c.dom = "dlog" THEN 2 ELSE 4
    <3>1. wire' = ToBytes(c.dom, [e |-> p(coins, e).e, z |-> p(coins, e).z])
      BY <2>1, <2>2
    <3>. HIDE DEF p
    <3>. DEFINE pe == p(coins, e).e
                pz == p(coins, e).z
    <3>. HIDE DEF pe, pz
    <3>2. pe \in [DOMAIN c.branches -> Scalar] /\ pz \in [DOMAIN c.branches -> Scalar]
      BY <2>2 DEF pe, pz
    <3>3. LET b == ToBytes(c.dom, [e |-> pe, z |-> pz]) IN
            b \in Seq(Scalar) /\ Len(b) = IF c.dom = "dlog" THEN 2 ELSE 4
      BY <1>3, <3>2, RoundTrip
    <3>. QED
      BY <3>1, <3>3 DEF pe, pz
  <2>4. Made(Claim, Real, witness.x[stage])'
    BY <1>1, <1>3, <2>1 DEF Made, u, p
  <2>5. WireInv'
    BY <1>3, <2>1, <2>3, <2>4 DEF WireInv, Parses
  <2>6. TypeInv'
    BY <1>1, <1>2, <2>1 DEF TypeInv, Verdict
  <2>. QED
    BY <2>1, <2>5, <2>6 DEF SigmaInv, HonestVerifies, AcceptedIsTrue
<1>. QED
  BY <1>4, <1>5 DEF Proves

\* One comparison keeps the types: the hash stays a function.
LEMMA AsksKeeps ==
  ASSUME SigmaInv, verdict = "verify", NEW query, NEW e, Asks(query, e),
         UNCHANGED <<job, witness, stage, wire>>, verdict' \in Seen \ {"verify"}
  PROVE  SigmaInv'
<1>1. PICK a, f : oracle = {[query |-> a, answer |-> f]}
  BY OnTheWire
<1>2. oracle' = {[query |-> a, answer |-> f], [query |-> query, answer |-> e]}
  BY <1>1 DEF Asks
<1>3. a = query => f = e
  BY <1>1 DEF Asks
<1>4. \A q, r \in oracle' : q.query = r.query => q = r
  BY <1>2, <1>3
<1>. QED
  BY <1>4 DEF SigmaInv, TypeInv, WireInv, Claim, Verdict, Seen, Parses

LEMMA QuietKeeps ==
  ASSUME SigmaInv, verdict = "verify", UNCHANGED <<job, witness, stage, wire, oracle>>,
         verdict' \in Seen \ {"verify"}
  PROVE  SigmaInv'
  BY DEF SigmaInv, TypeInv, WireInv, Claim, Verdict, Seen, Parses

\* The verifier's comparison under this session's context.
LEMMA VerifyKeeps ==
  ASSUME SigmaInv, NEW kind, Verifies(kind)
  PROVE  SigmaInv' /\ HonestVerifies' /\ AcceptedIsTrue'
<1>. DEFINE v == Commitments(Claim.branches, Shown)
<1>1. verdict = "verify" /\ UNCHANGED <<job, witness, stage, wire>>
  BY DEF Verifies
<1>2. Holds' <=> Holds
  BY <1>1 DEF Holds, Claim, Real
<1>3. PICK u, e :
         /\ e \in NonZero /\ oracle = {[query |-> Query("this", Claim, u), answer |-> e]}
         /\ ~AtInfinity(u) /\ Total(Shown.e) = e
         /\ v = u <=> Holds
  BY <1>1, OnTheWire
<1>4. CASE AtInfinity(v) /\ verdict' = "refused" /\ UNCHANGED oracle
  <2>1. ~Holds
    BY <1>3, <1>4
  <2>2. SigmaInv'
    BY <1>1, <1>4, QuietKeeps DEF Seen
  <2>. QED
    BY <1>2, <1>4, <2>1, <2>2 DEF HonestVerifies, AcceptedIsTrue
<1>5. ASSUME NEW f \in NonZero, Asks(Query("this", Claim, v), f),
             verdict' = IF Total(Shown.e) = f THEN "accepted" ELSE "refused"
      PROVE  SigmaInv' /\ HonestVerifies' /\ AcceptedIsTrue'
  <2>1. SigmaInv'
    BY <1>1, <1>5, AsksKeeps DEF Seen
  <2>2. /\ Query("this", Claim, v) = Query("this", Claim, u) <=> v = u
        /\ oracle' = {[query |-> Query("this", Claim, u), answer |-> e],
                      [query |-> Query("this", Claim, v), answer |-> f]}
        /\ Query("this", Claim, v) = Query("this", Claim, u) => e = f
    BY <1>3, <1>5 DEF Asks, Query
  <2>3. HonestVerifies'
    BY <1>2, <1>3, <1>5, <2>2 DEF HonestVerifies
  <2>4. ~Holds => Lucky'
    BY <1>3, <2>2 DEF Lucky
  <2>5. AcceptedIsTrue'
    BY <1>2, <1>5, <2>4 DEF AcceptedIsTrue
  <2>. QED
    BY <2>1, <2>3, <2>5
<1>6. Verify("this", Claim, "accepted", "refused")
  BY DEF Verifies
<1>7. Parses(wire)
  BY <1>1 DEF SigmaInv, WireInv, Seen
<1>. QED
  BY <1>4, <1>5, <1>6, <1>7 DEF Verify, Shown

\* And under another context, or for the thimbles swapped.
LEMMA ElsewhereKeeps ==
  ASSUME SigmaInv, VerifyElsewhere
  PROVE  SigmaInv' /\ HonestVerifies' /\ AcceptedIsTrue'
<1>1. verdict = "verify" /\ UNCHANGED <<job, witness, stage, wire>>
  BY DEF VerifyElsewhere
<1>2. PICK ctx \in {"this", "next"}, j \in {job, Swapped(job)} :
         /\ <<ctx, Claims(j)[stage]>> # <<"this", Claim>>
         /\ IF Degenerate(j) THEN verdict' = "turnedAway" /\ UNCHANGED oracle
            ELSE Verify(ctx, Claims(j)[stage], "replayed", "turnedAway")
  BY DEF VerifyElsewhere
<1>3. CASE verdict' = "turnedAway" /\ UNCHANGED oracle
  <2>1. SigmaInv'
    BY <1>1, <1>3, QuietKeeps DEF Seen
  <2>. QED
    BY <1>3, <2>1 DEF HonestVerifies, AcceptedIsTrue
<1>4. ASSUME NEW v, NEW f, Asks(Query(ctx, Claims(j)[stage], v), f),
             verdict' \in {"replayed", "turnedAway"}
      PROVE  SigmaInv' /\ HonestVerifies' /\ AcceptedIsTrue'
  <2>1. SigmaInv'
    BY <1>1, <1>4, AsksKeeps DEF Seen
  <2>2. PICK u, e : oracle = {[query |-> Query("this", Claim, u), answer |-> e]}
    BY <1>1, OnTheWire
  <2>3. Query(ctx, Claims(j)[stage], v) # Query("this", Claim, u)
    BY <1>2 DEF Query
  <2>4. Lucky'
    <3>1. oracle' = {[query |-> Query("this", Claim, u), answer |-> e],
                     [query |-> Query(ctx, Claims(j)[stage], v), answer |-> f]}
      BY <1>4, <2>2 DEF Asks
    <3>. QED
      BY <2>3, <3>1 DEF Lucky
  <2>. QED
    BY <1>4, <2>1, <2>4 DEF HonestVerifies, AcceptedIsTrue
<1>. QED
  BY <1>2, <1>3, <1>4 DEF Verify

----------------------------------------------------------------------------
(* The theorems.                                                           *)

Proved == SigmaInv /\ HonestVerifies /\ AcceptedIsTrue

LEMMA StepKeeps == Proved /\ [Next]_vars => Proved'
<1>. SUFFICES ASSUME Proved, [Next]_vars
              PROVE  SigmaInv' /\ HonestVerifies' /\ AcceptedIsTrue'
  BY DEF Proved
<1>. USE DEF Proved
<1>1. CASE ProveThimblePoks
  <2>1. PICK n \in {1, 2} : Proves("thimble_poks", n, 0)
    BY <1>1 DEF ProveThimblePoks
  <2>2. n \in DOMAIN Claims(job) => Claims(job)[n].dom = "dlog"
    BY <2>1, ClaimShape DEF SigmaInv, TypeInv, Proves
  <2>. QED
    BY <2>1, <2>2, ProveKeeps DEF SigmaInv
<1>2. CASE ProvePiR
  <2>1. 1 \in DOMAIN Claims(job) => Claims(job)[1].dom = "or2"
    BY <1>2, ClaimShape DEF SigmaInv, TypeInv, Proves, ProvePiR
  <2>. QED
    BY <1>2, <2>1, ProveKeeps DEF SigmaInv, ProvePiR
<1>3. CASE ProveAdaptor
  <2>1. /\ 1 \in DOMAIN Claims(job) => Claims(job)[1].dom = "dlog"
        /\ 2 \in DOMAIN Claims(job) => Claims(job)[2].dom # "dlog"
    BY <1>3, ClaimShape DEF SigmaInv, TypeInv, Proves, ProveAdaptor
  <2>. QED
    BY <1>3, <2>1, ProveKeeps DEF SigmaInv, ProveAdaptor
<1>4. CASE ProvePiA
  <2>1. 1 \in DOMAIN Claims(job) => Claims(job)[1].dom = "or-dleq"
    BY <1>4, ClaimShape DEF SigmaInv, TypeInv, Proves, ProvePiA, Squaring
  <2>. QED
    BY <1>4, <2>1, ProveKeeps DEF SigmaInv, ProvePiA
<1>5. CASE VerifyThimblePoks \/ VerifyPiR \/ VerifyAdaptor \/ VerifyPiA
  BY <1>5, VerifyKeeps DEF VerifyThimblePoks, VerifyPiR, VerifyAdaptor, VerifyPiA
<1>6. CASE VerifyElsewhere
  BY <1>6, ElsewhereKeeps
<1>7. CASE UNCHANGED vars
  BY <1>7 DEF vars, SigmaInv, TypeInv, WireInv, Made, Claim, Real, Parses, HonestVerifies,
     AcceptedIsTrue, Holds, Lucky
<1>. QED
  BY <1>1, <1>2, <1>3, <1>4, <1>5, <1>6, <1>7 DEF Next

LEMMA Safety == Spec => []Proved
<1>1. Init => Proved
  BY InitInv DEF Proved
<1>. QED
  BY <1>1, StepKeeps, PTL DEF Spec

\* A proof on the wire always parses, and the hash stays a function.
THEOREM SigmaTypes == Spec => []SigmaTypeOK
<1>1. Proved => SigmaTypeOK
  BY DEF Proved, SigmaInv, TypeInv, WireInv, SigmaTypeOK, Jobs, Seen
<1>. QED
  BY <1>1, Safety, PTL

\* Completeness: prove_dlog, prove_or2, prove_or_dlog and pi_a's prove never
\* make a proof from a right witness that their verifier refuses.
THEOREM Completeness == Spec => []HonestVerifies
<1>1. Proved => HonestVerifies
  BY DEF Proved
<1>. QED
  BY <1>1, Safety, PTL

\* What these provers make and a verifier accepts, he accepts for the session,
\* the thimbles and the witness it was made for, unless the hash hits a number
\* fixed beforehand.
THEOREM Knowledge == Spec => []AcceptedIsTrue
<1>1. Proved => AcceptedIsTrue
  BY DEF Proved
<1>. QED
  BY <1>1, Safety, PTL

\* Soundness of the squaring proof: whoever has published his commitments for
\* a ciphertext that opens neither thimble can answer at most one challenge.
THEOREM Soundness == Spec => []OpensOrOneChallenge
<1>1. Proved => OpensOrOneChallenge
  <2>. SUFFICES ASSUME Proved, job.kind = "pi_a", verdict = "verify",
                       \A i \in Ball : Sub(job.scalar, Pad(job.point)) # job.thimbles[i]
                PROVE  LET u == Commitments(Claim.branches, Shown) IN
                       \A e0 \in Answerable(Claim.branches[0], u[0]),
                          e1 \in Answerable(Claim.branches[1], u[1]) :
                              Add(e0, e1) = Total(Shown.e)
    BY DEF OpensOrOneChallenge
  <2>. DEFINE u == Commitments(Claim.branches, Shown)
              d == job.point
              y(i) == Sub(job.scalar, job.thimbles[i])
  <2>1. TypeInv /\ job \in Jobs /\ stage \in DOMAIN Claims(job)
    BY DEF Proved, SigmaInv, TypeInv
  <2>2. Claim = Squaring(job.scalar, job.point, job.thimbles)
    BY <2>1, ClaimShape DEF Claim
  <2>3. /\ Claim.dom = "or-dleq" /\ DOMAIN Claim.branches = Ball
        /\ \A i \in Ball : Claim.branches[i] = <<Eq(One, d), Eq(d, y(i))>>
    BY <2>2 DEF Squaring
  <2>4. d \in Scalar /\ \A i \in Ball : job.thimbles[i] \in Scalar /\ y(i) \in Scalar
    <3>1. job.scalar \in Scalar /\ d \in Scalar
      BY <2>1 DEF Jobs, NonZero
    <3>2. \A i \in Ball : job.thimbles[i] \in Scalar
      BY <2>1, SigmaAssumption DEF Jobs, NonZero
    <3>. QED
      BY <3>1, <3>2, Subtraction
  <2>5. \A i \in Ball : y(i) # Mul(d, d)
    <3>. SUFFICES ASSUME NEW i \in Ball, y(i) = Mul(d, d)
                  PROVE  FALSE
      OBVIOUS
    <3>1. Mul(d, d) \in Scalar /\ job.scalar \in Scalar /\ job.thimbles[i] \in Scalar
      BY <2>1, <2>4, FieldAssumption DEF Jobs
    <3>2. job.scalar = Add(Mul(d, d), job.thimbles[i])
      BY <3>1, Move
    <3>3. job.scalar = Add(job.thimbles[i], Mul(d, d))
      BY <3>1, <3>2, FieldAssumption
    <3>4. Sub(job.scalar, Mul(d, d)) = job.thimbles[i]
      BY <3>1, <3>3, Move
    <3>. QED
      BY <3>4 DEF Pad
  <2>6. \A i \in Ball : Shown.e[i] \in Scalar /\ Shown.z[i] \in Scalar
    BY <2>3, OnTheWire DEF Proved, NonZero
  <2>7. \A i \in Ball : u[i] = Commitment(Claim.branches[i], Shown.e[i], Shown.z[i])
    BY <2>3 DEF Commitments
  <2>8. ASSUME NEW i \in Ball, NEW e \in Answerable(Claim.branches[i], u[i])
        PROVE  e = Shown.e[i]
    <3>1. PICK z \in NonZero : Commitment(Claim.branches[i], e, z) = u[i]
      BY DEF Answerable
    <3>2. e \in Scalar /\ z \in Scalar
      BY DEF Answerable, NonZero
    <3>3. Commitment(<<Eq(One, d), Eq(d, y(i))>>, e, z)
             = Commitment(<<Eq(One, d), Eq(d, y(i))>>, Shown.e[i], Shown.z[i])
      BY <2>3, <2>7, <3>1
    <3>4. d \in Scalar /\ y(i) \in Scalar /\ Shown.e[i] \in Scalar /\ Shown.z[i] \in Scalar
      BY <2>4, <2>6
    <3>. HIDE DEF y, d
    <3>5. e # Shown.e[i] => y(i) = Mul(d, d)
      BY <3>2, <3>3, <3>4, TwoShares
    <3>. QED
      BY <2>5, <3>5
  <2>9. Total(Shown.e) = Add(Shown.e[0], Shown.e[1])
    <3>1. DOMAIN Shown.e = Ball
      BY <2>3 DEF Shown, FromBytes
    <3>. QED
      BY <3>1 DEF Total, Ball
  <2>. HIDE DEF u
  <2>. QED
    BY <2>8, <2>9 DEF Ball, u
<1>. QED
  BY <1>1, Safety, PTL

\* Witness hiding of pi_r and of the adaptor's OR: the bytes a prover sends
\* from one branch, the other branch sends as well, with its own witness.
THEOREM Hiding == Spec => []HidesBranch
<1>1. Proved => HidesBranch
  <2>. DEFINE branches == Claim.branches
              j == 1 - Real
  <2>. SUFFICES ASSUME Proved, verdict = "verify", Claim.dom \in {"or2", "or-dlog"}, Holds,
                       NEW x \in Scalar,
                       branches[j][1].target = Mul(x, branches[j][1].base)
                PROVE  \E coins \in Coins(branches) :
                          /\ Published(branches, j, coins) = Commitments(branches, Shown)
                          /\ Answer(branches, j, x, coins, Total(Shown.e)) = Shown
    BY DEF HidesBranch
  <2>1. /\ DOMAIN branches = Ball /\ Real \in Ball /\ j \in Ball /\ j # Real
        /\ Ball = {Real, j} /\ Ball # {0} /\ Equations(branches) /\ witness.x[stage] \in Scalar
        /\ DOMAIN branches \in {{0}, Ball} /\ Real \in DOMAIN branches
    <3>1. DOMAIN branches = Ball /\ Real \in Ball /\ Equations(branches) /\ witness.x[stage] \in Scalar
      BY RealBranch DEF Proved, SigmaInv
    <3>. QED
      BY <3>1 DEF Ball
  <2>2. \A i \in Ball : DOMAIN branches[i] = {1}
    <3>1. stage \in DOMAIN Claims(job) /\ job \in Jobs
      BY DEF Proved, SigmaInv, TypeInv
    <3>2. \/ Claim = ClaimStatement(job.point, job.thimbles)
          \/ Claim = OrTargets(job.scalar, job.thimbles)
      <4>1. CASE job.kind = "pi_r"
        <5>1. stage = 1
          BY <3>1, <4>1, ClaimCount
        <5>. QED
          BY <4>1, <5>1 DEF Claim, Claims
      <4>2. CASE job.kind = "adaptor"
        <5>1. stage \in {1, 2} /\ Claim.dom # "dlog"
          BY <3>1, <4>2, ClaimCount
        <5>2. stage = 2
          BY <3>1, <4>2, <5>1, ClaimShape DEF Claim
        <5>. QED
          BY <4>2, <5>2 DEF Claim, Claims
      <4>3. CASE job.kind = "thimble_poks"
        BY <3>1, <4>3, ClaimShape DEF Claim
      <4>4. CASE job.kind = "pi_a"
        BY <3>1, <4>4, ClaimShape DEF Claim, Squaring
      <4>. QED
        BY <3>1, <4>1, <4>2, <4>3, <4>4 DEF Jobs
    <3>. QED
      BY <3>2 DEF ClaimStatement, OrTargets
  <2>3. PICK e \in NonZero, old \in Coins(branches) :
           /\ ~AtInfinity(Published(branches, Real, old))
           /\ Shown = Answer(branches, Real, witness.x[stage], old, e)
           /\ \A i \in Ball : Shown.e[i] \in NonZero /\ Shown.z[i] \in NonZero
           /\ Total(Shown.e) = e
           /\ Commitments(branches, Shown) = Published(branches, Real, old)
    <3>. HIDE DEF branches
    <3>1. SigmaInv
      BY DEF Proved
    <3>. QED
      BY <2>1, <3>1, OnTheWire DEF branches
  <2>. DEFINE share == Shown.e[j]
              r == Sub(Shown.z[j], Mul(share, x))
              new == [r |-> r, e |-> Shown.e[Real], z |-> Shown.z[Real]]
              base == branches[j][1].base
              target == branches[j][1].target
              u == Commitments(branches, Shown)
  <2>4. /\ Shown.e[Real] \in Scalar /\ Shown.e[j] \in Scalar /\ Shown.z[j] \in Scalar /\ e \in Scalar
        /\ base \in Scalar /\ target \in Scalar
    BY <2>1, <2>2, <2>3 DEF NonZero, Equations
  <2>5. r \in Scalar /\ Add(r, Mul(share, x)) = Shown.z[j]
    BY <2>4, Nonce
  <2>6. Sub(e, Shown.e[Real]) = share
    <3>1. /\ Shown.e = [i \in Ball |-> IF i = Real THEN Share(branches, old, e) ELSE old.e]
          /\ DOMAIN Shown.e = Ball
      BY <2>1, <2>3 DEF Answer
    <3>2. e = Add(Shown.e[0], Shown.e[1]) /\ Real \in {0, 1} /\ j \in {0, 1}
      BY <2>1, <2>3, <3>1 DEF Total, Ball
    <3>3. e = Add(share, Shown.e[Real])
      <4>1. Add(Shown.e[j], Shown.e[Real]) = Add(Shown.e[Real], Shown.e[j])
        BY <2>4, FieldAssumption
      <4>. QED
        BY <2>1, <3>2, <4>1
    <3>. QED
      BY <2>4, <3>3, Move
  <2>7. u[j] = [k \in {1} |-> Mul(r, base)]
    <3>1. u[j] = [k \in {1} |-> Sub(Mul(Shown.z[j], base), Mul(share, target))]
      BY <2>1, <2>2 DEF Commitments, Commitment
    <3>. HIDE DEF share, r, base, target
    <3>2. Sub(Mul(Add(r, Mul(share, x)), base), Mul(share, target)) = Mul(r, base)
      <4>1. share \in Scalar /\ target = Mul(x, base)
        BY <2>4 DEF share, base, target
      <4>. QED
        BY <2>4, <2>5, <4>1, RealEquation
    <3>. QED
      BY <2>5, <3>1, <3>2
  <2>8. r \in NonZero
    <3>1. u[j][1] # Zero
      <4>1. ~AtInfinity(u)
        BY <2>3
      <4>2. j \in DOMAIN u /\ 1 \in DOMAIN u[j]
        BY <2>1, <2>7 DEF Commitments
      <4>. HIDE DEF u
      <4>. QED
        BY <4>1, <4>2 DEF AtInfinity
    <3>2. u[j][1] = Mul(r, base)
      BY <2>7
    <3>. HIDE DEF u, r, base
    <3>. QED
      BY <2>4, <2>5, <3>1, <3>2, MulZero DEF NonZero
  <2>9. new \in Coins(branches)
    BY <2>1, <2>3, <2>8 DEF Coins
  <2>10. Published(branches, j, new) = u
    <3>1. Published(branches, j, new)[j] = u[j]
      BY <2>1, <2>2, <2>7 DEF Published
    <3>2. Published(branches, j, new)[Real] = u[Real]
      BY <2>1 DEF Published, Commitments
    <3>3. /\ u = [i \in Ball |-> u[i]]
          /\ Published(branches, j, new) = [i \in Ball |-> Published(branches, j, new)[i]]
      BY <2>1 DEF Published, Commitments
    <3>. QED
      BY <2>1, <3>1, <3>2, <3>3
  <2>11. Answer(branches, j, x, new, e) = Shown
    <3>. DEFINE p == Answer(branches, j, x, new, e)
    <3>1. Share(branches, new, e) = share
      BY <2>1, <2>6 DEF Share
    <3>2. /\ p = [e |-> p.e, z |-> p.z]
          /\ p.e = [i \in Ball |-> IF i = j THEN share ELSE Shown.e[Real]]
          /\ p.z = [i \in Ball |-> IF i = j THEN Add(r, Mul(share, x)) ELSE Shown.z[Real]]
      BY <2>1, <3>1 DEF Answer
    <3>3. /\ Shown = [e |-> Shown.e, z |-> Shown.z]
          /\ Shown.e = [i \in Ball |-> Shown.e[i]] /\ Shown.z = [i \in Ball |-> Shown.z[i]]
      BY <2>1, <2>3 DEF Answer
    <3>. HIDE DEF p
    <3>4. p.e = Shown.e /\ p.z = Shown.z
      BY <2>1, <2>5, <3>2, <3>3
    <3>. QED
      BY <3>2, <3>3, <3>4 DEF p
  <2>. QED
    BY <2>3, <2>9, <2>10, <2>11
<1>. QED
  BY <1>1, Safety, PTL
============================================================================
