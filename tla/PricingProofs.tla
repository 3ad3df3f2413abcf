---------------------------- MODULE PricingProofs ----------------------------
(***************************************************************************)
(* Proofs about the pricing modules, for every payload, every local market *)
(* and every configuration that Offers admits: what a market maps to, when *)
(* a bet is built, and what devigging, blending and discounting do to it.  *)
(* Induction is on sets of numbers, and the loops of the code, which the   *)
(* modules write as recursive functions, are shown to have values first.   *)
(***************************************************************************)
EXTENDS Offers, FiniteSetTheorems, WellFoundedInduction, TLAPS

-----------------------------------------------------------------------------
(* Induction over numbers, on sets rather than on predicates *)

LEMMA NumberInduction ==
  ASSUME NEW X, 0 \in X, \A n \in Nat : n \in X => n + 1 \in X
  PROVE  \A n \in Nat : n \in X
<1> SUFFICES ASSUME NEW k \in Nat, k \notin X PROVE FALSE
  OBVIOUS
<1> DEFINE bad == {i \in 0 .. k : i \notin X}
           Z == {1 .. i : i \in bad}
<1>1. IsFiniteSet(1 .. k)
  BY FS_Interval
<1>2. Z \subseteq SUBSET (1 .. k) /\ Z # {}
  OBVIOUS
<1>3. IsWellFoundedOn(StrictSubsetOrdering(1 .. k), SUBSET (1 .. k))
  BY <1>1, FS_StrictSubsetOrderingWellFounded, FS_FiniteSubsetsOfFinite
<1>4. PICK m \in Z : \A t \in Z : <<t, m>> \notin StrictSubsetOrdering(1 .. k)
  <2> HIDE DEF Z
  <2> QED
    BY <1>2, <1>3, WFMin
<1>5. PICK i \in bad : m = 1 .. i
  BY <1>4
<1>6. i \in 1 .. k /\ i - 1 \in bad
  BY <1>5
<1>7. 1 .. (i - 1) \in Z
  BY <1>6
<1>8. <<1 .. (i - 1), m>> \notin StrictSubsetOrdering(1 .. k)
  BY <1>4, <1>7
<1>9. 1 .. (i - 1) \subseteq 1 .. i /\ 1 .. (i - 1) # 1 .. i
  BY <1>6
<1>10. m \in SUBSET (1 .. k) /\ 1 .. (i - 1) \in SUBSET (1 .. k)
  BY <1>5, <1>6
<1> QED
  BY <1>5, <1>8, <1>9, <1>10 DEF StrictSubsetOrdering

LEMMA IntervalInduction ==
  ASSUME NEW k \in Nat, NEW X, 0 \in X, \A n \in 0 .. k - 1 : n \in X => n + 1 \in X
  PROVE  \A n \in 0 .. k : n \in X
<1> DEFINE Y == {n \in Nat : n <= k => n \in X}
<1>1. 0 \in Y
  OBVIOUS
<1>2. \A n \in Nat : n \in Y => n + 1 \in Y
  OBVIOUS
<1>3. \A n \in Nat : n \in Y
  <2> HIDE DEF Y
  <2> QED
    BY <1>1, <1>2, NumberInduction
<1> QED
  BY <1>3

Steps(k, S) == [S \X (1 .. k) -> S]
Traces(k, S, base, step) ==
  {f \in [0 .. k -> S] : f[0] = base /\ \A n \in 1 .. k : f[n] = step[<<f[n - 1], n>>]}

(* A finite loop over a state has a trace of states.                         *)
LEMMA LoopRuns ==
  ASSUME NEW k \in Nat, NEW S, NEW base \in S, NEW step \in Steps(k, S)
  PROVE  Traces(k, S, base, step) # {}
<1>0. step \in [S \X (1 .. k) -> S]
  BY DEF Steps
<1> DEFINE Trace(f, n) == f[0] = base /\ \A j \in 1 .. n : f[j] = step[<<f[j - 1], j>>]
           X == {n \in 0 .. k : \E f \in [0 .. k -> S] : Trace(f, n)}
<1>1. 0 \in X
  <2> DEFINE f == [j \in 0 .. k |-> base]
  <2>1. f \in [0 .. k -> S] /\ f[0] = base
    OBVIOUS
  <2>2. \A j \in 1 .. 0 : f[j] = step[<<f[j - 1], j>>]
    OBVIOUS
  <2>3. 0 \in 0 .. k
    OBVIOUS
  <2> HIDE DEF f
  <2> QED
    BY <2>1, <2>2, <2>3
<1>2. ASSUME NEW n \in 0 .. k - 1, n \in X
      PROVE  n + 1 \in X
  <2>1. PICK f \in [0 .. k -> S] : Trace(f, n)
    BY <1>2
  <2> DEFINE g == [f EXCEPT ![n + 1] = step[<<f[n], n + 1>>]]
  <2>2. n \in 0 .. k /\ n + 1 \in 0 .. k /\ n + 1 \in 1 .. k /\ n + 1 # 0
    OBVIOUS
  <2>3. step[<<f[n], n + 1>>] \in S
    BY <1>0, <2>2
  <2>4. g \in [0 .. k -> S] /\ g[n + 1] = step[<<f[n], n + 1>>]
    BY <2>2, <2>3
  <2>5. \A j \in 0 .. n : g[j] = f[j]
    BY <2>2
  <2>6. g[0] = base
    BY <2>1, <2>5
  <2>7. ASSUME NEW j \in 1 .. n + 1
        PROVE  g[j] = step[<<g[j - 1], j>>]
    <3>1. CASE j = n + 1
      <4>1. j - 1 = n /\ g[n] = f[n]
        BY <2>2, <2>5, <3>1
      <4> HIDE DEF g
      <4> QED
        BY <2>4, <3>1, <4>1
    <3>2. CASE j \in 1 .. n
      <4>1. j \in 0 .. n /\ j - 1 \in 0 .. n
        BY <3>2
      <4>2. g[j] = f[j] /\ g[j - 1] = f[j - 1]
        BY <2>5, <4>1
      <4> QED
        BY <2>1, <3>2, <4>2
    <3> QED
      BY <3>1, <3>2
  <2> HIDE DEF g
  <2> QED
    BY <2>2, <2>4, <2>6, <2>7
<1>3. k \in X
  <2> HIDE DEF X
  <2>1. \A n \in 0 .. k : n \in X
    BY <1>1, <1>2, IntervalInduction
  <2> QED
    BY <2>1
<1> QED
  BY <1>3 DEF Traces

(* The largest number of a set of positions.                                 *)
LEMMA MaxIsLargest ==
  ASSUME NEW k \in Nat, NEW S, S \subseteq 1 .. k, S # {}
  PROVE  Max(S) \in S /\ \A i \in S : i <= Max(S)
<1> DEFINE X == {n \in 0 .. k : (\E i \in S : i > k - n) => \E x \in S : \A y \in S : x >= y}
<1>1. 0 \in X
  OBVIOUS
<1>2. ASSUME NEW n \in 0 .. k - 1, n \in X
      PROVE  n + 1 \in X
  <2>1. CASE \E i \in S : i > k - n
    BY <1>2, <2>1
  <2>2. CASE \A i \in S : i <= k - n
    <3>1. SUFFICES ASSUME NEW i \in S, i > k - (n + 1)
                   PROVE  \E x \in S : \A y \in S : x >= y
      OBVIOUS
    <3>2. i = k - n
      BY <2>2, <3>1
    <3> QED
      BY <2>2, <3>2
  <2>3. (\E i \in S : i > k - n) \/ (\A i \in S : i <= k - n)
    OBVIOUS
  <2> QED
    BY <2>1, <2>2, <2>3
<1>3. k \in X
  <2> HIDE DEF X
  <2>1. \A n \in 0 .. k : n \in X
    BY <1>1, <1>2, IntervalInduction
  <2> QED
    BY <2>1
<1>4. \E x \in S : \A y \in S : x >= y
  <2>1. \A i \in S : i > k - k
    OBVIOUS
  <2> QED
    BY <1>3, <2>1
<1> QED
  BY <1>4 DEF Max

-----------------------------------------------------------------------------
(* Fractions *)

Positive == Nat \ {0}

LEMMA Products ==
  /\ \A x, y \in Int : x * y \in Int /\ x + y \in Int /\ x - y \in Int
  /\ \A x, y \in Positive : x * y \in Positive
  BY DEF Positive

LEMMA FracParts ==
  ASSUME NEW n, NEW d
  PROVE  Frac(n, d).num = n /\ Frac(n, d).den = d
  BY DEF Frac

LEMMA FracTyped ==
  ASSUME NEW n \in Int, NEW d \in Positive
  PROVE  Frac(n, d) \in Fractions
  BY DEF Frac, Fractions, Positive

LEMMA FractionParts ==
  ASSUME NEW p \in Fractions
  PROVE  p.num \in Int /\ p.den \in Positive /\ p.den \in Int /\ p.den > 0 /\ p = Frac(p.num, p.den)
  BY DEF Fractions, Frac, Positive

LEMMA OddsParts ==
  ASSUME NEW odds \in Odds
  PROVE  odds \in Fractions /\ odds.den < odds.num /\ odds.num \in Positive /\ odds.num - odds.den \in Positive
<1>1. odds \in Fractions /\ 1 * odds.den < odds.num * 1
  BY FracParts DEF Odds, Less, One
<1>2. odds.num \in Int /\ odds.den \in Int /\ odds.den > 0
  BY <1>1, FractionParts
<1> QED
  BY <1>1, <1>2 DEF Positive

LEMMA EdgeIs ==
  ASSUME NEW p \in Fractions, NEW odds \in Fractions
  PROVE  /\ Edge(p, odds) = Frac(p.num * odds.num - p.den * odds.den, p.den * odds.den)
         /\ Edge(p, odds) \in Fractions
<1>1. p.num \in Int /\ p.den \in Positive /\ odds.num \in Int /\ odds.den \in Positive
  BY FractionParts
<1> DEFINE n == p.num * odds.num
           d == p.den * odds.den
<1>2. n \in Int /\ d \in Positive /\ d \in Int
  BY <1>1, Products DEF Positive
<1>3. Edge(p, odds) = Frac(n * 1 - 1 * d, d * 1)
  BY FracParts DEF Edge, Minus, Times, One
<1>4. n * 1 - 1 * d = n - d /\ d * 1 = d /\ n - d \in Int
  <2> HIDE DEF n, d
  <2> QED
    BY <1>2
<1> QED
  BY <1>2, <1>3, <1>4, FracTyped

Sized(kelly, p, odds) ==
  LET b == Minus(odds, One)
  IN  Times(Over(Minus(Times(b, p), Minus(One, p)), b), kelly)

LEMMA StakeIsSized ==
  ASSUME NEW c, NEW p, NEW odds
  PROVE  KellyStake(c, p, odds) = IF Less(One, Sized(c.kelly, p, odds)) THEN One ELSE Sized(c.kelly, p, odds)
  BY DEF KellyStake, Sized

(* The stake is the Kelly fraction of edge over gain.                        *)
LEMMA SizedIs ==
  ASSUME NEW kelly \in Fractions, NEW p \in Fractions, NEW odds \in Odds
  PROVE  /\ Sized(kelly, p, odds) \in Fractions
         /\ Sized(kelly, p, odds).num * (p.den * ((odds.num - odds.den) * kelly.den))
              = ((p.num * odds.num - p.den * odds.den) * kelly.num) * Sized(kelly, p, odds).den
<1> DEFINE a == p.num
           d == p.den
           o == odds.num
           e == odds.den
           g == o - e
           k == kelly.num
           l == kelly.den
           num == (((g * a) * d - (d - a) * (e * d)) * e) * k
           den == (((e * d) * d) * g) * l
<1>1. /\ a \in Int /\ d \in Positive /\ o \in Int /\ e \in Positive /\ g \in Positive
      /\ k \in Int /\ l \in Positive
  BY FractionParts, OddsParts
<1>2. Sized(kelly, p, odds) = Frac(num, den)
  <2>1. Minus(odds, One) = Frac(o * 1 - 1 * e, e * 1)
    BY FracParts DEF Minus, One
  <2>2. o * 1 - 1 * e = g /\ e * 1 = e
    BY <1>1 DEF Positive
  <2>3. Minus(odds, One) = Frac(g, e)
    BY <2>1, <2>2
  <2>4. Minus(One, p) = Frac(1 * d - a * 1, 1 * d)
    BY FracParts DEF Minus, One
  <2>5. 1 * d - a * 1 = d - a /\ 1 * d = d
    BY <1>1 DEF Positive
  <2>6. Minus(One, p) = Frac(d - a, d)
    BY <2>4, <2>5
  <2>7. Times(Frac(g, e), p) = Frac(g * a, e * d)
    BY FracParts DEF Times
  <2>8. Minus(Frac(g * a, e * d), Frac(d - a, d)) = Frac((g * a) * d - (d - a) * (e * d), (e * d) * d)
    BY FracParts DEF Minus
  <2> HIDE DEF a, d, o, e, g, k, l
  <2>9. Over(Frac((g * a) * d - (d - a) * (e * d), (e * d) * d), Frac(g, e))
          = Frac(((g * a) * d - (d - a) * (e * d)) * e, ((e * d) * d) * g)
    BY FracParts DEF Over
  <2>10. Times(Frac(((g * a) * d - (d - a) * (e * d)) * e, ((e * d) * d) * g), kelly) = Frac(num, den)
    BY FracParts DEF Times, k, l
  <2> QED
    BY <2>3, <2>6, <2>7, <2>8, <2>9, <2>10 DEF Sized
<1> HIDE DEF a, d, o, e, g, k, l
<1>3. num \in Int
  BY <1>1, Products DEF Positive
<1>4. den \in Positive
  BY <1>1, Products
<1>5. num = (e * d) * ((g * a - (d - a) * e) * k)
  BY <1>1 DEF Positive
<1>6. den = (e * d) * (d * (g * l))
  BY <1>1 DEF Positive
<1>7. g * a - (d - a) * e = a * o - d * e
  BY <1>1 DEF g, Positive
<1>8. num * (d * (g * l)) = ((a * o - d * e) * k) * den
  <2> DEFINE x == (a * o - d * e) * k
             y == d * (g * l)
             z == e * d
  <2>1. x \in Int /\ y \in Int /\ z \in Int
    BY <1>1, Products DEF Positive
  <2>2. num = z * x /\ den = z * y
    BY <1>5, <1>6, <1>7
  <2> HIDE DEF x, y, z, num, den
  <2>3. num * y = x * den
    BY <2>1, <2>2
  <2> QED
    BY <2>3 DEF x, y
<1> HIDE DEF num, den
<1>9. Sized(kelly, p, odds) \in Fractions
  BY <1>2, <1>3, <1>4, FracTyped
<1>10. Sized(kelly, p, odds).num = num /\ Sized(kelly, p, odds).den = den
  BY <1>2, FracParts
<1> QED
  BY <1>8, <1>9, <1>10 DEF a, d, o, e, g, k, l

-----------------------------------------------------------------------------
(* When a bet is built *)

(* What Settings and SettingsAssumption let in.                              *)
Config(c) ==
  /\ c.threshold \in Fractions /\ c.threshold.num >= 0
  /\ c.kelly \in Fractions /\ c.kelly.num >= 0
  /\ c.weight \in Fractions /\ 0 <= c.weight.num /\ c.weight.num <= c.weight.den

LEMMA ProbabilityParts ==
  ASSUME NEW p \in Fractions
  PROVE  /\ IsProbability(p) <=> 0 <= p.num /\ p.num <= p.den
         /\ Leq(Zero, p) <=> 0 <= p.num
         /\ Less(Zero, p) <=> 0 < p.num
<1>1. /\ IsProbability(p) <=> 0 * p.den <= p.num * 1 /\ p.num * 1 <= 1 * p.den
      /\ Leq(Zero, p) <=> 0 * p.den <= p.num * 1
      /\ Less(Zero, p) <=> 0 * p.den < p.num * 1
  BY FracParts DEF IsProbability, Leq, Less, Zero, One
<1> QED
  BY <1>1, FractionParts

LEMMA SettingsAreConfigs ==
  ASSUME NEW c \in Settings
  PROVE  Config(c)
<1>1. /\ c.threshold \in Fractions /\ Leq(Zero, c.threshold)
      /\ c.kelly \in Probabilities /\ c.weight \in Probabilities
  BY SettingsAssumption
<1>2. /\ c.kelly \in Fractions /\ IsProbability(c.kelly)
      /\ c.weight \in Fractions /\ IsProbability(c.weight)
  BY <1>1 DEF Probabilities
<1> QED
  BY <1>1, <1>2, ProbabilityParts DEF Config

(* How much a probability wins over the odds, over the product of their      *)
(* denominators.                                                             *)
Gain(p, odds) == p.num * odds.num - p.den * odds.den

LEMMA GainIsAnInteger ==
  ASSUME NEW p \in Fractions, NEW odds \in Fractions
  PROVE  Gain(p, odds) \in Int
  BY FractionParts, Products DEF Gain

LEMMA ExceedsIs ==
  ASSUME NEW c, Config(c), NEW p \in Fractions, NEW odds \in Fractions
  PROVE  Exceeds(c, Edge(p, odds)) <=>
           c.threshold.num * (p.den * odds.den) < Gain(p, odds) * c.threshold.den
<1>1. Edge(p, odds) = Frac(Gain(p, odds), p.den * odds.den)
  BY EdgeIs DEF Gain
<1>2. Edge(p, odds).num = Gain(p, odds) /\ Edge(p, odds).den = p.den * odds.den
  BY <1>1, FracParts
<1> QED
  BY <1>2 DEF Exceeds, Less

LEMMA ExceedsIsAGain ==
  ASSUME NEW c, Config(c), NEW p \in Fractions, NEW odds \in Fractions,
         Exceeds(c, Edge(p, odds))
  PROVE  Gain(p, odds) > 0
<1> DEFINE t == c.threshold.num
           u == c.threshold.den
           d == p.den * odds.den
           x == Gain(p, odds)
<1>1. t \in Nat /\ u \in Positive /\ d \in Positive /\ x \in Int
  BY FractionParts, Products, GainIsAnInteger DEF Config
<1>2. t * d < x * u
  BY ExceedsIs
<1> HIDE DEF t, u, d, x
<1>3. 0 <= t * d
  BY <1>1 DEF Positive
<1>4. 0 < x * u
  BY <1>1, <1>2, <1>3, Products DEF Positive
<1>5. x > 0
  BY <1>1, <1>4 DEF Positive
<1> QED
  BY <1>5 DEF x

LEMMA StakeIs ==
  ASSUME NEW c, Config(c), NEW p \in Fractions, NEW odds \in Odds, Gain(p, odds) > 0
  PROVE  /\ KellyStake(c, p, odds) \in Fractions
         /\ Less(Zero, KellyStake(c, p, odds)) <=> c.kelly.num > 0
<1> DEFINE s == Sized(c.kelly, p, odds)
           n == s.num
           m == s.den
           y == p.den * ((odds.num - odds.den) * c.kelly.den)
           x == Gain(p, odds)
           k == c.kelly.num
<1>1. c.kelly \in Fractions /\ k \in Nat /\ x \in Positive
  BY FractionParts, OddsParts, GainIsAnInteger DEF Config, Positive
<1>2. s \in Fractions /\ n * y = (x * k) * m
  BY <1>1, SizedIs DEF Gain
<1>3. n \in Int /\ m \in Positive
  BY <1>2, FractionParts
<1>4. y \in Positive
  BY <1>1, FractionParts, OddsParts, Products
<1>5. n > 0 <=> k > 0
  <2> HIDE DEF n, m, x, y, k
  <2>1. CASE k = 0
    <3>1. n * y = 0
      BY <1>1, <1>2, <1>3, <2>1 DEF Positive
    <3> QED
      BY <1>3, <1>4, <2>1, <3>1 DEF Positive
  <2>2. CASE k > 0
    <3>1. k \in Positive
      BY <1>1, <2>2 DEF Positive
    <3>2. (x * k) * m \in Positive
      BY <1>1, <1>3, <3>1, Products
    <3>3. n * y > 0
      BY <1>2, <3>2 DEF Positive
    <3> QED
      BY <1>3, <1>4, <2>2, <3>3 DEF Positive
  <2> QED
    BY <1>1, <2>1, <2>2
<1>6. Less(Zero, s) <=> k > 0
  BY <1>2, <1>5, ProbabilityParts
<1>7. One \in Fractions /\ Less(Zero, One)
  BY FracParts DEF One, Zero, Less, Fractions, Frac
<1>8. Less(One, s) => k > 0
  <2>1. Less(One, s) => 1 * m < n * 1
    BY FracParts DEF Less, One
  <2>2. Less(One, s) => n > 0
    <3> HIDE DEF s, n, m
    <3> QED
      BY <1>3, <2>1 DEF Positive
  <2> QED
    BY <1>5, <2>2
<1> QED
  BY <1>2, <1>6, <1>7, <1>8, StakeIsSized

(* A bet is built where the edge exceeds the threshold and Kelly is used.    *)
LEMMA BetIsBuilt ==
  ASSUME NEW c, Config(c), NEW q, q.odds \in Odds, NEW p \in Fractions, NEW source
  PROVE  TryBuild(c, q, p, source) # <<>> <=> Exceeds(c, Edge(p, q.odds)) /\ c.kelly.num > 0
<1>1. q.odds \in Fractions
  BY OddsParts
<1>2. Exceeds(c, Edge(p, q.odds)) => (Less(Zero, KellyStake(c, p, q.odds)) <=> c.kelly.num > 0)
  BY <1>1, ExceedsIsAGain, StakeIs
<1>3. \A bet : <<bet>> # <<>>
  OBVIOUS
<1> QED
  BY <1>2, <1>3 DEF TryBuild

LEMMA BetIs ==
  ASSUME NEW c, NEW q, NEW p, NEW source, TryBuild(c, q, p, source) # <<>>
  PROVE  TryBuild(c, q, p, source) =
           <<[outcome |-> q.outcome, odds |-> q.odds, fair |-> p,
              stake |-> KellyStake(c, p, q.odds), source |-> source]>>
  BY DEF TryBuild

-----------------------------------------------------------------------------
(* What a discount leaves of a bet *)

LEMMA ProductIsAProbability ==
  ASSUME NEW p \in Probabilities, NEW q \in Probabilities
  PROVE  Times(p, q) \in Probabilities
<1>1. p \in Fractions /\ q \in Fractions /\ IsProbability(p) /\ IsProbability(q)
  BY DEF Probabilities
<1> DEFINE a == p.num
           b == p.den
           c == q.num
           d == q.den
<1>2. a \in Int /\ b \in Positive /\ c \in Int /\ d \in Positive /\ 0 <= a /\ a <= b /\ 0 <= c /\ c <= d
  BY <1>1, FractionParts, ProbabilityParts
<1>3. Times(p, q) = Frac(a * c, b * d)
  BY DEF Times
<1> HIDE DEF a, b, c, d
<1>4. a * c \in Int /\ b * d \in Positive
  BY <1>2, Products
<1>5. 0 <= a * c /\ a * c <= b * d
  <2>1. a * c \in Int /\ a * d \in Int /\ b * d \in Int
    BY <1>2, Products DEF Positive
  <2>2. 0 <= a * c
    BY <1>2 DEF Positive
  <2>3. a * c <= a * d
    BY <1>2 DEF Positive
  <2>4. a * d <= b * d
    BY <1>2 DEF Positive
  <2> QED
    BY <2>1, <2>2, <2>3, <2>4
<1>6. Frac(a * c, b * d) \in Fractions
  BY <1>4, FracTyped
<1>7. IsProbability(Frac(a * c, b * d))
  BY <1>5, <1>6, FracParts, ProbabilityParts
<1> QED
  BY <1>3, <1>6, <1>7 DEF Probabilities

LEMMA ComplementIsAProbability ==
  ASSUME NEW p \in Probabilities
  PROVE  Minus(One, p) \in Probabilities
<1>1. p \in Fractions /\ IsProbability(p)
  BY DEF Probabilities
<1>2. p.num \in Int /\ p.den \in Positive /\ 0 <= p.num /\ p.num <= p.den
  BY <1>1, FractionParts, ProbabilityParts
<1>3. Minus(One, p) = Frac(1 * p.den - p.num * 1, 1 * p.den)
  BY FracParts DEF Minus, One
<1>4. 1 * p.den - p.num * 1 = p.den - p.num /\ 1 * p.den = p.den /\ p.den - p.num \in Int
  BY <1>2 DEF Positive
<1>5. Minus(One, p) = Frac(p.den - p.num, p.den)
  BY <1>3, <1>4
<1>6. 0 <= p.den - p.num /\ p.den - p.num <= p.den
  BY <1>2 DEF Positive
<1>7. Minus(One, p) \in Fractions
  BY <1>2, <1>4, <1>5, FracTyped
<1>8. Minus(One, p).num = p.den - p.num /\ Minus(One, p).den = p.den
  BY <1>5, FracParts
<1>9. IsProbability(Minus(One, p))
  BY <1>6, <1>7, <1>8, ProbabilityParts
<1> QED
  BY <1>7, <1>9 DEF Probabilities

LEMMA OneIsAProbability == One \in Probabilities /\ One \in Fractions
<1>1. One \in Fractions /\ One.num = 1 /\ One.den = 1
  BY FracParts, FracTyped DEF One, Positive
<1> QED
  BY <1>1, ProbabilityParts DEF Probabilities

LEMMA ConfidenceIsAProbability ==
  ASSUME NEW lineup, NEW report, NEW p
  PROVE  Confidence(lineup, report, p) \in Probabilities
<1> DEFINE x == IF Officially(lineup, p) THEN One ELSE Minus(One, UnconfirmedPenalty)
           y == IF Absent(report, p) THEN Minus(One, AbsencePenalty) ELSE One
<1>1. Minus(One, UnconfirmedPenalty) \in Probabilities /\ Minus(One, AbsencePenalty) \in Probabilities
  BY PenaltyAssumption, ComplementIsAProbability
<1>2. x \in Probabilities /\ y \in Probabilities
  BY <1>1, OneIsAProbability
<1>3. Confidence(lineup, report, p) = Times(x, y)
  BY DEF Confidence
<1> HIDE DEF x, y
<1> QED
  BY <1>2, <1>3, ProductIsAProbability

LEMMA DiscountedIs ==
  ASSUME NEW p \in Fractions, NEW odds \in Odds, NEW confidence \in Probabilities
  PROVE  LET fair == Discounted(p, odds, confidence)
         IN  /\ fair \in Fractions
             /\ fair.den = (confidence.den * p.den) * odds.num
             /\ Gain(fair, odds) = (confidence.num * odds.num) * Gain(p, odds)
<1> DEFINE fair == Discounted(p, odds, confidence)
           a == p.num
           b == p.den
           o == odds.num
           e == odds.den
           k == confidence.num
           l == confidence.den
           n == (k * a) * o + ((l - k) * e) * b
           d == (l * b) * o
<1>1. confidence \in Fractions /\ odds \in Fractions
  BY OddsParts DEF Probabilities
<1>2. /\ a \in Int /\ b \in Positive /\ o \in Positive /\ e \in Positive /\ k \in Int /\ l \in Positive
  BY <1>1, FractionParts, OddsParts
<1>3. Over(One, odds) = Frac(1 * e, 1 * o)
  BY FracParts DEF Over, One
<1>4. 1 * e = e /\ 1 * o = o
  BY <1>2 DEF Positive
<1>5. Over(One, odds) = Frac(e, o)
  BY <1>3, <1>4
<1>6. fair = Frac(n, d)
  BY <1>5, FracParts DEF Discounted, Blend
<1> HIDE DEF fair, a, b, o, e, k, l
<1>7. n \in Int /\ d \in Positive
  BY <1>2, Products DEF Positive
<1>8. n * o - d * e = (k * o) * (a * o - b * e)
  BY <1>2 DEF Positive
<1> HIDE DEF n, d
<1>9. fair \in Fractions /\ fair.num = n /\ fair.den = d
  BY <1>6, <1>7, FracParts, FracTyped
<1>10. Gain(fair, odds) = (k * o) * Gain(p, odds)
  BY <1>8, <1>9 DEF Gain, a, b, o, e
<1> QED
  BY <1>9, <1>10 DEF fair, d, k, l, o, b

LEMMA DiscountScales ==
  ASSUME NEW p \in Fractions, NEW odds \in Odds, NEW confidence \in Probabilities
  PROVE  Same(Edge(Discounted(p, odds, confidence), odds), Times(confidence, Edge(p, odds)))
<1> DEFINE fair == Discounted(p, odds, confidence)
           b == p.den
           o == odds.num
           e == odds.den
           k == confidence.num
           l == confidence.den
           x == Gain(p, odds)
<1>1. confidence \in Fractions /\ odds \in Fractions
  BY OddsParts DEF Probabilities
<1>2. /\ b \in Int /\ o \in Int /\ e \in Int /\ k \in Int /\ l \in Int /\ x \in Int
  BY <1>1, FractionParts, OddsParts, GainIsAnInteger
<1>3. fair \in Fractions /\ fair.den = (l * b) * o /\ Gain(fair, odds) = (k * o) * x
  BY DiscountedIs
<1>4. Edge(fair, odds) = Frac((k * o) * x, ((l * b) * o) * e)
  BY <1>1, <1>3, EdgeIs DEF Gain
<1>5. Edge(p, odds) = Frac(x, b * e)
  BY <1>1, EdgeIs DEF Gain
<1>6. Times(confidence, Edge(p, odds)) = Frac(k * x, l * (b * e))
  BY <1>5, FracParts DEF Times
<1> HIDE DEF fair, b, o, e, k, l, x
<1>7. ((k * o) * x) * (l * (b * e)) = (k * x) * (((l * b) * o) * e)
  BY <1>2
<1>8. Same(Edge(fair, odds), Times(confidence, Edge(p, odds)))
  BY <1>4, <1>6, <1>7, FracParts DEF Same
<1> QED
  BY <1>8 DEF fair

(* What exceeds the threshold at a discount exceeds it without.              *)
LEMMA DiscountedExceeds ==
  ASSUME NEW c, Config(c), NEW p \in Fractions, NEW odds \in Odds,
         NEW confidence \in Probabilities,
         Exceeds(c, Edge(Discounted(p, odds, confidence), odds))
  PROVE  Exceeds(c, Edge(p, odds)) /\ Gain(p, odds) > 0
<1> DEFINE fair == Discounted(p, odds, confidence)
           b == p.den
           o == odds.num
           e == odds.den
           k == confidence.num
           l == confidence.den
           t == c.threshold.num
           u == c.threshold.den
           x == Gain(p, odds)
<1>1. confidence \in Fractions /\ odds \in Fractions /\ IsProbability(confidence)
  BY OddsParts DEF Probabilities
<1>2. k \in Nat /\ l \in Positive /\ k <= l
  BY <1>1, FractionParts, ProbabilityParts
<1>3. b \in Positive /\ o \in Positive /\ e \in Positive /\ t \in Nat /\ u \in Positive /\ x \in Int
  BY <1>1, FractionParts, OddsParts, GainIsAnInteger DEF Config
<1>4. fair \in Fractions /\ fair.den = (l * b) * o /\ Gain(fair, odds) = (k * o) * x
  BY DiscountedIs
<1>5. t * (((l * b) * o) * e) < ((k * o) * x) * u /\ (k * o) * x > 0
  BY <1>1, <1>4, ExceedsIs, ExceedsIsAGain
<1> HIDE DEF fair, b, o, e, k, l, t, u, x
<1>6. k * o \in Nat
  BY <1>2, <1>3, Products DEF Positive
<1>7. x > 0
  BY <1>3, <1>5, <1>6
<1>8. t * (l * (b * e)) < (k * x) * u
  <2> DEFINE y == t * (l * (b * e))
             z == (k * x) * u
  <2>1. y \in Int /\ z \in Int
    BY <1>2, <1>3, Products DEF Positive
  <2>2. t * (((l * b) * o) * e) = o * y
    BY <1>2, <1>3 DEF Positive
  <2>3. ((k * o) * x) * u = o * z
    BY <1>2, <1>3 DEF Positive
  <2> HIDE DEF y, z
  <2>4. o * y < o * z
    BY <1>5, <2>2, <2>3
  <2>5. y < z
    BY <1>3, <2>1, <2>4 DEF Positive
  <2> QED
    BY <2>5 DEF y, z
<1>9. (k * x) * u <= (l * x) * u
  <2>1. k * x \in Int /\ l * x \in Int
    BY <1>2, <1>3, Products DEF Positive
  <2>2. k * x <= l * x
    BY <1>2, <1>3, <1>7 DEF Positive
  <2> QED
    BY <1>3, <2>1, <2>2 DEF Positive
<1>10. t * (b * e) < x * u
  <2> DEFINE y == t * (b * e)
             z == x * u
  <2>1. y \in Int /\ z \in Int
    BY <1>2, <1>3, Products DEF Positive
  <2>2. t * (l * (b * e)) = l * y
    BY <1>2, <1>3 DEF Positive
  <2>3. (l * x) * u = l * z
    BY <1>2, <1>3 DEF Positive
  <2>4. /\ t * (l * (b * e)) \in Int /\ (k * x) * u \in Int /\ (l * x) * u \in Int
    BY <1>2, <1>3, Products DEF Positive
  <2> HIDE DEF y, z
  <2>5. l * y < l * z
    BY <1>8, <1>9, <2>2, <2>3, <2>4
  <2>6. y < z
    BY <1>2, <2>1, <2>5 DEF Positive
  <2> QED
    BY <2>6 DEF y, z
<1>11. Exceeds(c, Edge(p, odds)) /\ x > 0
  BY <1>1, <1>7, <1>10, ExceedsIs DEF b, e, t, u, x
<1> QED
  BY <1>11 DEF x

(* A discount lowers the sized stake.                                        *)
LEMMA DiscountedIsSized ==
  ASSUME NEW kelly \in Fractions, kelly.num >= 0, NEW p \in Fractions, NEW odds \in Odds,
         NEW confidence \in Probabilities, Gain(p, odds) > 0
  PROVE  Leq(Sized(kelly, Discounted(p, odds, confidence), odds), Sized(kelly, p, odds))
<1> DEFINE fair == Discounted(p, odds, confidence)
           s == Sized(kelly, fair, odds)
           r == Sized(kelly, p, odds)
           b == p.den
           o == odds.num
           g == odds.num - odds.den
           k == confidence.num
           l == confidence.den
           h == kelly.num
           i == kelly.den
           x == Gain(p, odds)
           y == b * (g * i)
           z == x * h
<1>1. confidence \in Fractions /\ odds \in Fractions /\ IsProbability(confidence)
  BY OddsParts DEF Probabilities
<1>2. k \in Nat /\ l \in Positive /\ k <= l
  BY <1>1, FractionParts, ProbabilityParts
<1>3. b \in Positive /\ o \in Positive /\ g \in Positive /\ h \in Nat /\ i \in Positive /\ x \in Positive
  BY <1>1, FractionParts, OddsParts, GainIsAnInteger DEF Positive
<1>4. fair \in Fractions /\ fair.den = (l * b) * o /\ Gain(fair, odds) = (k * o) * x
  BY DiscountedIs
<1>5. s \in Fractions /\ r \in Fractions
  BY <1>4, SizedIs
<1>6. s.num * (((l * b) * o) * (g * i)) = (((k * o) * x) * h) * s.den
  BY <1>4, SizedIs DEF Gain
<1>7. r.num * y = z * r.den
  BY SizedIs DEF Gain
<1>8. s.num \in Int /\ s.den \in Positive /\ r.num \in Int /\ r.den \in Positive
  BY <1>5, FractionParts
<1> DEFINE n == s.num
           m == s.den
           v == r.num
           w == r.den
<1> HIDE DEF fair, s, r, b, o, g, k, l, h, i, x
<1>9. y \in Positive /\ z \in Nat
  BY <1>3, Products DEF Positive
<1>10. n * (l * y) = (k * z) * m
  <2>1. n * (((l * b) * o) * (g * i)) = o * (n * (l * y))
    BY <1>2, <1>3, <1>8 DEF Positive
  <2>2. (((k * o) * x) * h) * m = o * ((k * z) * m)
    BY <1>2, <1>3, <1>8 DEF Positive
  <2>3. n * (l * y) \in Int /\ (k * z) * m \in Int
    BY <1>2, <1>8, <1>9, Products DEF Positive
  <2> DEFINE left == n * (l * y)
             right == (k * z) * m
  <2>4. left \in Int /\ right \in Int /\ o * left = o * right
    BY <1>6, <2>1, <2>2, <2>3
  <2> HIDE DEF left, right
  <2>5. left = right
    BY <1>3, <2>4 DEF Positive
  <2> QED
    BY <2>5 DEF left, right
<1> HIDE DEF y, z, n, m, v, w
<1>11. n \in Int /\ m \in Positive /\ v \in Int /\ w \in Positive
  BY <1>8 DEF n, m, v, w
<1>12. n * y <= z * m
  <2>1. z * m \in Nat /\ n * y \in Int
    BY <1>9, <1>11, Products DEF Positive
  <2>2. n * (l * y) = l * (n * y) /\ (k * z) * m = k * (z * m)
    BY <1>2, <1>9, <1>11 DEF Positive
  <2>3. l * (n * y) = k * (z * m)
    BY <1>10, <2>2
  <2> DEFINE left == n * y
             right == z * m
  <2> HIDE DEF left, right
  <2>4. k * right <= l * right
    BY <1>2, <2>1 DEF Positive, right
  <2>5. l * left <= l * right
    BY <2>3, <2>4 DEF left, right
  <2>6. left <= right
    BY <1>2, <2>1, <2>5 DEF Positive, left, right
  <2> QED
    BY <2>6 DEF left, right
<1>13. n * w <= v * m
  <2>1. n * w \in Int /\ v * m \in Int /\ n * y \in Int /\ z * m \in Int
    BY <1>9, <1>11, Products DEF Positive
  <2>2. (n * y) * w <= (z * m) * w
    BY <1>11, <1>12, <2>1 DEF Positive
  <2>3. (n * y) * w = y * (n * w)
    BY <1>9, <1>11 DEF Positive
  <2>4. (z * m) * w = (z * w) * m
    BY <1>9, <1>11 DEF Positive
  <2>5. (z * w) * m = (v * y) * m
    BY <1>7 DEF v, w
  <2>6. (v * y) * m = y * (v * m)
    BY <1>9, <1>11 DEF Positive
  <2> DEFINE left == n * w
             right == v * m
  <2> HIDE DEF left, right
  <2>7. y * left <= y * right
    BY <2>2, <2>3, <2>4, <2>5, <2>6 DEF left, right
  <2>8. left <= right
    BY <1>9, <2>1, <2>7 DEF Positive, left, right
  <2> QED
    BY <2>8 DEF left, right
<1> QED
  BY <1>13 DEF Leq, n, m, v, w, s, r, fair

LEMMA CapKeepsOrder ==
  ASSUME NEW p \in Fractions, NEW q \in Fractions, Leq(p, q)
  PROVE  Leq(IF Less(One, p) THEN One ELSE p, IF Less(One, q) THEN One ELSE q)
<1> DEFINE a == p.num
           b == p.den
           c == q.num
           d == q.den
<1>1. a \in Int /\ b \in Positive /\ c \in Int /\ d \in Positive
  BY FractionParts
<1>2. a * d <= c * b
  BY DEF Leq
<1>3. /\ Less(One, p) <=> b < a
      /\ Less(One, q) <=> d < c
      /\ Leq(p, One) <=> a <= b
      /\ Leq(One, One)
  <2>1. /\ Less(One, p) <=> 1 * b < a * 1
        /\ Less(One, q) <=> 1 * d < c * 1
        /\ Leq(p, One) <=> a * 1 <= 1 * b
        /\ Leq(One, One) <=> 1 * 1 <= 1 * 1
    BY FracParts DEF Less, Leq, One
  <2> HIDE DEF a, b, c, d
  <2> QED
    BY <1>1, <2>1 DEF Positive
<1>4. b < a => d < c
  <2> HIDE DEF a, b, c, d
  <2> SUFFICES ASSUME b < a PROVE d < c
    OBVIOUS
  <2>1. b * d \in Int /\ a * d \in Int /\ c * b \in Int
    BY <1>1, Products DEF Positive
  <2>2. b * d < a * d
    BY <1>1 DEF Positive
  <2>3. b * d < b * c
    BY <1>1, <1>2, <2>1, <2>2 DEF Positive
  <2> QED
    BY <1>1, <2>3 DEF Positive
<1>5. ~(b < a) => a <= b
  BY <1>1 DEF Positive
<1> HIDE DEF a, b, c, d
<1> QED
  BY <1>3, <1>4, <1>5

LEMMA DiscountedStake ==
  ASSUME NEW c, Config(c), NEW p \in Fractions, NEW odds \in Odds,
         NEW confidence \in Probabilities, Gain(p, odds) > 0
  PROVE  Leq(KellyStake(c, Discounted(p, odds, confidence), odds), KellyStake(c, p, odds))
<1> DEFINE s == Sized(c.kelly, Discounted(p, odds, confidence), odds)
           r == Sized(c.kelly, p, odds)
<1>1. c.kelly \in Fractions /\ c.kelly.num >= 0
  BY DEF Config
<1>2. Leq(s, r) /\ s \in Fractions /\ r \in Fractions
  BY <1>1, DiscountedIs, DiscountedIsSized, SizedIs
<1> HIDE DEF s, r
<1>3. Leq(IF Less(One, s) THEN One ELSE s, IF Less(One, r) THEN One ELSE r)
  BY <1>2, CapKeepsOrder
<1> QED
  BY <1>3, StakeIsSized DEF s, r

-----------------------------------------------------------------------------
(* What is received *)

Received == [official : BOOLEAN, entries : Seq(LineupEntries), report : Seq(InjuryEntries(STRING))]

OffersInv ==
  /\ topic \in {"market", "form", "score", "prop"}
  /\ topic \in {"market", "prop"} => settings \in Settings
  /\ topic = "market" => payload \in Seq(Lines1X2)
  /\ topic = "form" => payload \in Seq(ScoreEvents)
  /\ topic = "score" => payload \in Forms \X Forms
  /\ topic = "prop" => payload \in Received

LEMMA OffersAreTyped == Spec => []OffersInv
<1>1. Init => OffersInv
  <2>1. \A l \in Strays : <<l>> \in Seq(Lines1X2)
    BY OffersAssumption
  <2>2. <<>> \in Seq(Lines1X2) /\ <<>> \in Seq(ScoreEvents)
    OBVIOUS
  <2>3. ASSUME NEW x \in [official : BOOLEAN, entries : {<<>>}, report : {<<>>}]
        PROVE  x \in Received
    <3>1. x = [official |-> x.official, entries |-> <<>>, report |-> <<>>] /\ x.official \in BOOLEAN
      OBVIOUS
    <3>2. <<>> \in Seq(LineupEntries) /\ <<>> \in Seq(InjuryEntries(STRING))
      OBVIOUS
    <3> QED
      BY <3>1, <3>2 DEF Received
  <2> QED
    BY <2>1, <2>2, <2>3 DEF Init, OffersInv
<1>2. OffersInv /\ [Next]_vars => OffersInv'
  <2> SUFFICES ASSUME OffersInv, [Next]_vars PROVE OffersInv'
    OBVIOUS
  <2>1. CASE ReceiveLine
    <3>1. PICK name \in TeamNames, price \in Prices :
            payload' = Append(payload, [book |-> SharpBook, market |-> "h2h", name |-> name, price |-> price])
      BY <2>1 DEF ReceiveLine
    <3>2. [book |-> SharpBook, market |-> "h2h", name |-> name, price |-> price] \in Lines1X2
      <4>1. name \in STRING /\ price \in Fractions
        BY OffersAssumption
      <4> QED
        BY <4>1 DEF Lines1X2, EventLines
    <3>3. payload' \in Seq(Lines1X2)
      BY <2>1, <3>1, <3>2 DEF ReceiveLine, OffersInv
    <3> QED
      BY <2>1, <3>3 DEF ReceiveLine, OffersInv
  <2>2. CASE ReceiveResult
    <3>1. payload' \in Seq(ScoreEvents)
      BY <2>2 DEF ReceiveResult, OffersInv
    <3> QED
      BY <2>2, <3>1 DEF ReceiveResult, OffersInv
  <2>3. CASE ReceiveEntry
    <3>1. PICK e \in LineupEntries : payload' = [payload EXCEPT !.entries = Append(@, e)]
      BY <2>3 DEF ReceiveEntry
    <3>2. payload \in Received /\ payload.entries \in Seq(LineupEntries)
      BY <2>3 DEF ReceiveEntry, OffersInv, Received
    <3>3. Append(payload.entries, e) \in Seq(LineupEntries)
      BY <3>2
    <3>4. payload' \in Received
      BY <3>1, <3>2, <3>3 DEF Received
    <3> QED
      BY <2>3, <3>4 DEF ReceiveEntry, OffersInv
  <2>4. CASE ReceiveReport
    <3>1. PICK i \in Reports : payload' = [payload EXCEPT !.report = Append(@, i)]
      BY <2>4 DEF ReceiveReport
    <3>2. i \in InjuryEntries(STRING)
      BY OffersAssumption
    <3>3. payload \in Received /\ payload.report \in Seq(InjuryEntries(STRING))
      BY <2>4 DEF ReceiveReport, OffersInv, Received
    <3>4. Append(payload.report, i) \in Seq(InjuryEntries(STRING))
      BY <3>2, <3>3
    <3>5. payload' \in Received
      BY <3>1, <3>3, <3>4 DEF Received
    <3> QED
      BY <2>4, <3>5 DEF ReceiveReport, OffersInv
  <2>5. CASE UNCHANGED vars
    BY <2>5 DEF vars, OffersInv
  <2> QED
    BY <2>1, <2>2, <2>3, <2>4, <2>5 DEF Next
<1> QED
  BY <1>1, <1>2, PTL DEF Spec

-----------------------------------------------------------------------------
(* Theorems *)

(* A discount makes no bet of what is none, for any penalties, probabilities *)
(* and odds: the edge is scaled by the confidence, and the stake lowered.    *)
THEOREM DiscountsMakeNoValue == Spec => []DiscountScalesTheEdge
<1>1. OffersInv => DiscountScalesTheEdge
  <2> SUFFICES ASSUME OffersInv, topic = "prop",
                      NEW prop \in PropMarkets, NEW chance \in Chances,
                      NEW priced \in PricedProps(settings, prop, chance), priced.bets # <<>>
               PROVE  LET full == TryBuild(settings, [outcome |-> prop.name, odds |-> prop.odds], chance,
                                           "STATISTICAL")
                          bets == priced.bets
                      IN  /\ full # <<>>
                          /\ Leq(bets[1].stake, full[1].stake)
                          /\ Same(Edge(bets[1].fair, prop.odds),
                                  Times(priced.confidence, Edge(chance, prop.odds)))
    BY DEF DiscountScalesTheEdge
  <2> DEFINE q == [outcome |-> prop.name, odds |-> prop.odds]
             k == priced.confidence
             fair == Discounted(chance, prop.odds, k)
             full == TryBuild(settings, q, chance, "STATISTICAL")
  <2>1. settings \in Settings /\ Config(settings)
    BY SettingsAreConfigs DEF OffersInv
  <2>2. /\ prop.odds \in Odds /\ chance \in Probabilities /\ chance \in Fractions
        /\ q.odds = prop.odds
    BY OffersAssumption DEF Probabilities
  <2>3. PICK p : /\ k = Confidence(payload, payload.report, p)
                 /\ priced.bets = TryBuild(settings, q, fair, "STATISTICAL")
    BY DEF PricedProps, PriceProp
  <2>4. k \in Probabilities
    BY <2>3, ConfidenceIsAProbability
  <2> HIDE DEF k, q
  <2>5. fair \in Fractions
    BY <2>2, <2>4, DiscountedIs
  <2> HIDE DEF fair
  <2>6. Exceeds(settings, Edge(fair, prop.odds)) /\ settings.kelly.num > 0
    BY <2>1, <2>2, <2>3, <2>5, BetIsBuilt
  <2>7. Exceeds(settings, Edge(chance, prop.odds)) /\ Gain(chance, prop.odds) > 0
    BY <2>1, <2>2, <2>4, <2>6, DiscountedExceeds DEF fair
  <2>8. full # <<>>
    BY <2>1, <2>2, <2>6, <2>7, BetIsBuilt
  <2>9. /\ priced.bets[1].fair = fair
        /\ priced.bets[1].stake = KellyStake(settings, fair, prop.odds)
    BY <2>2, <2>3, BetIs
  <2>10. full[1].stake = KellyStake(settings, chance, prop.odds)
    BY <2>2, <2>8, BetIs
  <2>11. Leq(priced.bets[1].stake, full[1].stake)
    BY <2>1, <2>2, <2>4, <2>7, <2>9, <2>10, DiscountedStake DEF fair
  <2>12. Same(Edge(priced.bets[1].fair, prop.odds), Times(k, Edge(chance, prop.odds)))
    BY <2>2, <2>4, <2>9, DiscountScales DEF fair
  <2> QED
    BY <2>8, <2>11, <2>12 DEF k, q
<1> QED
  BY <1>1, OffersAreTyped, PTL

(* A misspelt team is never priced, whatever the payload, the models and the *)
(* configuration.                                                            *)
THEOREM MisspeltTeamsAreRefused == Spec => []MisnamedMarketIsNeverPriced
<1>1. MisnamedMarketIsNeverPriced
  <2> SUFFICES ASSUME NEW local \in {g \in LocalGroups : Quoted(g) = Sides}, NEW model \in Models,
                      ~DetectWithConfirmation(settings, model, SharpQuotes(payload), local).raised
               PROVE  {HomeTeam, AwayTeam} \subseteq
                        {SharpLines(payload)[i].name : i \in DOMAIN SharpLines(payload)}
    BY DEF MisnamedMarketIsNeverPriced
  <2> DEFINE lines == SharpLines(payload)
             sharp == SharpQuotes(payload)
  <2>1. ~Uncoverable(settings, sharp, local)
    BY DEF DetectWithConfirmation, Raised
  <2>2. Sides \subseteq Quoted(sharp)
    BY <2>1 DEF Uncoverable
  <2>3. DOMAIN sharp = DOMAIN lines /\ \A i \in DOMAIN lines : sharp[i].outcome = Label(lines[i].name)
    BY DEF SharpQuotes
  <2> HIDE DEF lines, sharp
  <2>4. \A side \in Sides : \E i \in DOMAIN lines : Label(lines[i].name) = side
    BY <2>2, <2>3 DEF Quoted
  <2>5. \E i \in DOMAIN lines : Label(lines[i].name) = "Home"
    BY <2>4 DEF Sides
  <2>6. \E i \in DOMAIN lines : Label(lines[i].name) = "Away"
    BY <2>4 DEF Sides
  <2>7. \A name : /\ Label(name) = "Home" => name = HomeTeam
                  /\ Label(name) = "Away" => name = AwayTeam
    BY DEF Label
  <2>8. {HomeTeam, AwayTeam} \subseteq {lines[i].name : i \in DOMAIN lines}
    BY <2>5, <2>6, <2>7
  <2> QED
    BY <2>8 DEF lines
<1> QED
  BY <1>1, PTL

-----------------------------------------------------------------------------
(* Reduced fractions *)

Divides(d, n) == \E q \in Int : n = d * q
Divisors(m, n) == {d \in Positive : Divides(d, m) /\ Divides(d, n)}
Greatest(m, n) == {d \in Divisors(m, n) : \A c \in Divisors(m, n) : c <= d}
Chosen(S) == CHOOSE x \in S : TRUE

Euclid(g) == [n \in Nat |-> [m \in Nat |-> IF n = 0 THEN m ELSE g[m % n][n]]]

LEMMA GcdIsChosen == Gcd = CHOOSE g : g = Euclid(g)
  BY DEF Gcd, Euclid

LEMMA Remainder ==
  ASSUME NEW m \in Nat, NEW n \in Positive
  PROVE  m = n * (m \div n) + (m % n) /\ m \div n \in Nat /\ m % n \in 0 .. n - 1
  BY DEF Positive

LEMMA SameDivisors ==
  ASSUME NEW m \in Nat, NEW n \in Positive
  PROVE  Divisors(m, n) = Divisors(n, m % n)
<1> DEFINE q == m \div n
           r == m % n
<1>1. m = n * q + r /\ q \in Int /\ r \in Int /\ n \in Int /\ m \in Int
  BY Remainder DEF Positive
<1> HIDE DEF q, r
<1>2. ASSUME NEW d \in Positive, Divides(d, m), Divides(d, n)
      PROVE  Divides(d, r)
  <2>1. PICK a \in Int : m = d * a
    BY <1>2 DEF Divides
  <2>2. PICK b \in Int : n = d * b
    BY <1>2 DEF Divides
  <2>3. r = m - n * q
    BY <1>1
  <2>4. r = d * (a - b * q)
    BY <1>1, <2>1, <2>2, <2>3 DEF Positive
  <2>5. a - b * q \in Int
    BY <1>1, Products
  <2> QED
    BY <2>4, <2>5 DEF Divides
<1>3. ASSUME NEW d \in Positive, Divides(d, n), Divides(d, r)
      PROVE  Divides(d, m)
  <2>1. PICK b \in Int : n = d * b
    BY <1>3 DEF Divides
  <2>2. PICK c \in Int : r = d * c
    BY <1>3 DEF Divides
  <2>3. m = d * (b * q + c)
    BY <1>1, <2>1, <2>2 DEF Positive
  <2>4. b * q + c \in Int
    BY <1>1, Products
  <2> QED
    BY <2>3, <2>4 DEF Divides
<1> QED
  BY <1>2, <1>3 DEF Divisors, r

LEMMA DivisorOfPositive ==
  ASSUME NEW n \in Positive, NEW d \in Positive, Divides(d, n)
  PROVE  d <= n
<1>1. PICK q \in Int : n = d * q
  BY DEF Divides
<1>2. q >= 1
  BY <1>1 DEF Positive
<1>3. d * q >= d
  BY <1>2 DEF Positive
<1> QED
  BY <1>1, <1>3

LEMMA EuclidHasAFunction == \E g : g = Euclid(g)
<1> DEFINE g == [n \in Nat |-> [m \in Nat |-> IF n = 0 THEN m ELSE Chosen(Greatest(m, n))]]
<1>1. ASSUME NEW m \in Nat, NEW n \in Positive
      PROVE  Chosen(Greatest(m, n)) = g[m % n][n]
  <2>1. m % n \in Nat /\ n \in Nat /\ Greatest(m, n) = Greatest(n, m % n)
    BY Remainder, SameDivisors DEF Greatest, Positive
  <2>2. CASE m % n = 0
    <3>1. Divides(n, n) /\ Divides(n, 0)
      <4>1. n = n * 1 /\ 0 = n * 0
        BY DEF Positive
      <4> QED
        BY <4>1 DEF Divides
    <3>2. n \in Divisors(n, 0)
      BY <3>1 DEF Divisors
    <3>3. \A d \in Divisors(n, 0) : d <= n
      BY DivisorOfPositive DEF Divisors
    <3>4. Divisors(n, 0) \subseteq Positive
      BY DEF Divisors
    <3>5. Greatest(n, 0) = {n}
      BY <3>2, <3>3, <3>4 DEF Greatest, Positive
    <3>6. Chosen({n}) = n
      BY DEF Chosen
    <3>7. g[0][n] = n
      BY <2>1
    <3> QED
      BY <2>1, <2>2, <3>5, <3>6, <3>7
  <2>3. CASE m % n # 0
    BY <2>1, <2>3
  <2> QED
    BY <2>2, <2>3
<1>2. \A n \in Nat : n = 0 \/ n \in Positive
  BY DEF Positive
<1>3. g = Euclid(g)
  <2>1. \A n, m \in Nat : g[n][m] = IF n = 0 THEN m ELSE Chosen(Greatest(m, n))
    OBVIOUS
  <2>2. \A n, m \in Nat : g[n][m] = IF n = 0 THEN m ELSE g[m % n][n]
    <3> HIDE DEF g
    <3> QED
      BY <1>1, <1>2, <2>1
  <2>3. g = [n \in Nat |-> [m \in Nat |-> g[n][m]]]
    OBVIOUS
  <2> HIDE DEF g
  <2> QED
    BY <2>2, <2>3 DEF Euclid
<1> QED
  BY <1>3

LEMMA GcdIs ==
  ASSUME NEW n \in Nat, NEW m \in Nat
  PROVE  Gcd[n][m] = IF n = 0 THEN m ELSE Gcd[m % n][n]
<1>1. Gcd = Euclid(Gcd)
  BY GcdIsChosen, EuclidHasAFunction
<1>2. Euclid(Gcd)[n][m] = IF n = 0 THEN m ELSE Gcd[m % n][n]
  BY DEF Euclid
<1> QED
  BY <1>1, <1>2

LEMMA GcdDivides ==
  ASSUME NEW n \in Positive, NEW m \in Nat
  PROVE  Gcd[n][m] \in Divisors(m, n)
<1> DEFINE X == {k \in Nat : \A i \in 0 .. k : \A j \in Nat :
                   i # 0 \/ j # 0 => Gcd[i][j] \in Divisors(j, i)}
<1>1. 0 \in X
  <2>1. ASSUME NEW j \in Nat, j # 0 PROVE Gcd[0][j] \in Divisors(j, 0)
    <3>1. Gcd[0][j] = j
      BY GcdIs
    <3>2. j = j * 1 /\ 0 = j * 0
      OBVIOUS
    <3>3. Divides(j, j) /\ Divides(j, 0)
      BY <3>2 DEF Divides
    <3> QED
      BY <2>1, <3>1, <3>3 DEF Divisors, Positive
  <2> QED
    BY <2>1
<1>2. \A k \in Nat : k \in X => k + 1 \in X
  <2> SUFFICES ASSUME NEW k \in Nat, k \in X,
                      NEW i \in 0 .. k + 1, NEW j \in Nat, i # 0 \/ j # 0
               PROVE  Gcd[i][j] \in Divisors(j, i)
    OBVIOUS
  <2>1. CASE i \in 0 .. k
    BY <2>1
  <2>2. CASE i = k + 1
    <3>1. i \in Positive /\ i \in Nat /\ i # 0
      BY <2>2 DEF Positive
    <3>2. Gcd[i][j] = Gcd[j % i][i]
      BY <3>1, GcdIs
    <3>3. j % i \in 0 .. k
      BY <2>2, <3>1, Remainder
    <3>4. Gcd[j % i][i] \in Divisors(i, j % i)
      BY <3>1, <3>3
    <3> QED
      BY <3>1, <3>2, <3>4, SameDivisors
  <2> QED
    BY <2>1, <2>2
<1>3. n \in X
  <2> HIDE DEF X
  <2> QED
    BY <1>1, <1>2, NumberInduction DEF Positive
<1> QED
  BY <1>3 DEF Positive

LEMMA Quotient ==
  ASSUME NEW d \in Positive, NEW q \in Int
  PROVE  (d * q) \div d = q
<1> DEFINE x == (d * q) \div d
           r == (d * q) % d
<1>1. d * q \in Int /\ d \in Int /\ d > 0
  BY Products DEF Positive
<1>2. x \in Int /\ r \in Int /\ d * q = d * x + r /\ 0 <= r /\ r < d
  BY <1>1
<1> HIDE DEF x, r
<1>3. d * (q - x) = r
  BY <1>1, <1>2
<1>4. q - x = 0
  BY <1>1, <1>2, <1>3
<1>5. x = q
  BY <1>2, <1>4
<1> QED
  BY <1>5 DEF x

(* Reduced only takes a common factor out.                                   *)
LEMMA ReducedIs ==
  ASSUME NEW p \in Fractions
  PROVE  /\ Reduced(p) \in Fractions
         /\ \E g \in Positive : p.num = g * Reduced(p).num /\ p.den = g * Reduced(p).den
<1> DEFINE m == IF p.num < 0 THEN -p.num ELSE p.num
           g == Gcd[p.den][m]
<1>1. p.num \in Int /\ p.den \in Positive /\ p.den \in Int /\ m \in Nat
  BY FractionParts
<1>2. g \in Divisors(m, p.den)
  BY <1>1, GcdDivides
<1>3. g \in Positive /\ Divides(g, m) /\ Divides(g, p.den)
  BY <1>2 DEF Divisors
<1>4. Reduced(p) = Frac(p.num \div g, p.den \div g)
  BY DEF Reduced
<1>5. PICK b \in Int : p.den = g * b
  BY <1>3 DEF Divides
<1>6. PICK a \in Int : p.num = g * a
  <2>1. PICK c \in Int : m = g * c
    BY <1>3 DEF Divides
  <2> HIDE DEF g
  <2>2. p.num = g * c \/ p.num = g * (-c)
    BY <1>1, <1>3, <2>1 DEF Positive
  <2> QED
    BY <2>2
<1> HIDE DEF m, g
<1>7. p.num \div g = a /\ p.den \div g = b
  BY <1>3, <1>5, <1>6, Quotient
<1>8. b \in Positive
  BY <1>1, <1>3, <1>5 DEF Positive
<1>9. Reduced(p) = Frac(a, b)
  BY <1>4, <1>7
<1> QED
  BY <1>3, <1>5, <1>6, <1>8, <1>9, FracParts, FracTyped

-----------------------------------------------------------------------------
(* The sharp quotes of an event *)

Quotes1X2 == [outcome : Sides, odds : Odds]

Keeping(event, g) ==
  [n \in 0 .. Len(event) |->
     IF n = 0 THEN <<>>
     ELSE IF event[n].book = SharpBook /\ event[n].market = "h2h"
          THEN Append(g[n - 1], event[n]) ELSE g[n - 1]]
Kept(event) == CHOOSE g : g = Keeping(event, g)

LEMMA SharpLinesAreKept ==
  ASSUME NEW event
  PROVE  SharpLines(event) = Kept(event)[Len(event)]
  BY DEF SharpLines, Kept, Keeping

LEMMA SharpLinesAreLines ==
  ASSUME NEW event \in Seq(Lines1X2)
  PROVE  SharpLines(event) \in Seq(Lines1X2)
<1> DEFINE k == Len(event)
           S == Seq(Lines1X2)
           step == [x \in S \X (1 .. k) |->
                      IF event[x[2]].book = SharpBook /\ event[x[2]].market = "h2h"
                      THEN Append(x[1], event[x[2]]) ELSE x[1]]
<1>1. k \in Nat /\ \A n \in 1 .. k : event[n] \in Lines1X2
  OBVIOUS
<1>2. step \in Steps(k, S)
  <2>1. ASSUME NEW x \in S \X (1 .. k) PROVE Append(x[1], event[x[2]]) \in S /\ x[1] \in S
    <3>1. x[1] \in S /\ event[x[2]] \in Lines1X2
      BY <1>1
    <3> QED
      BY <3>1
  <2> HIDE DEF S
  <2> QED
    BY <2>1 DEF Steps
<1>3. <<>> \in S
  OBVIOUS
<1>4. \A v \in S : \A n \in 1 .. k :
        step[<<v, n>>] = IF event[n].book = SharpBook /\ event[n].market = "h2h"
                         THEN Append(v, event[n]) ELSE v
  <2> HIDE DEF S
  <2> QED
    OBVIOUS
<1> HIDE DEF S, step
<1>5. PICK f \in [0 .. k -> S] : f[0] = <<>> /\ \A n \in 1 .. k : f[n] = step[<<f[n - 1], n>>]
  <2>1. k \in Nat
    BY <1>1
  <2> HIDE DEF k
  <2>2. Traces(k, S, <<>>, step) # {}
    BY <1>2, <1>3, <2>1, LoopRuns
  <2> QED
    BY <2>2 DEF Traces
<1>6. f = Keeping(event, f)
  <2>1. \A n \in 1 .. k : n - 1 \in 0 .. k /\ n # 0
    BY <1>1
  <2>2. \A n \in 1 .. k : f[n] = IF event[n].book = SharpBook /\ event[n].market = "h2h"
                                 THEN Append(f[n - 1], event[n]) ELSE f[n - 1]
    BY <1>4, <1>5, <2>1
  <2>3. \A n \in 0 .. k : n = 0 \/ n \in 1 .. k
    BY <1>1
  <2>4. f = [n \in 0 .. k |-> f[n]]
    OBVIOUS
  <2> QED
    BY <1>5, <2>2, <2>3, <2>4 DEF Keeping
<1> DEFINE g == Kept(event)
<1>7. g = Keeping(event, g)
  BY <1>6 DEF Kept
<1> HIDE DEF g
<1>8. g[0] = <<>>
  <2>1. Keeping(event, g)[0] = <<>>
    BY <1>1 DEF Keeping
  <2> QED
    BY <1>7, <2>1
<1>9. \A n \in 0 .. k - 1 : g[n] \in S => g[n + 1] \in S
  <2> SUFFICES ASSUME NEW n \in 0 .. k - 1, g[n] \in S PROVE g[n + 1] \in S
    OBVIOUS
  <2>1. n + 1 \in 0 .. k /\ n + 1 \in 1 .. k /\ n + 1 # 0 /\ (n + 1) - 1 = n
    BY <1>1
  <2>2. Keeping(event, g)[n + 1] = IF event[n + 1].book = SharpBook /\ event[n + 1].market = "h2h"
                                   THEN Append(g[n], event[n + 1]) ELSE g[n]
    BY <2>1 DEF Keeping
  <2>3. g[n + 1] = Append(g[n], event[n + 1]) \/ g[n + 1] = g[n]
    BY <1>7, <2>2
  <2>4. event[n + 1] \in Lines1X2
    BY <1>1, <2>1
  <2>5. \A v \in S, line \in Lines1X2 : Append(v, line) \in S
    BY DEF S
  <2> QED
    BY <2>3, <2>4, <2>5
<1> DEFINE X == {n \in 0 .. k : g[n] \in S}
<1>10. 0 \in X /\ \A n \in 0 .. k - 1 : n \in X => n + 1 \in X
  BY <1>1, <1>3, <1>8, <1>9
<1>11. k \in X
  <2> HIDE DEF X
  <2>1. \A n \in 0 .. k : n \in X
    BY <1>1, <1>10, IntervalInduction
  <2> QED
    BY <1>1, <2>1
<1> QED
  BY <1>11, SharpLinesAreKept DEF S, g

LEMMA SharpQuotesAreQuotes ==
  ASSUME NEW event \in Seq(Lines1X2), ~Unmappable(event)
  PROVE  SharpQuotes(event) \in Seq(Quotes1X2)
<1> DEFINE lines == SharpLines(event)
<1>1. lines \in Seq(Lines1X2)
  BY SharpLinesAreLines
<1>2. \A i \in DOMAIN lines : ~Leq(lines[i].price, One)
  BY DEF Unmappable
<1>3. SharpQuotes(event) = [i \in DOMAIN lines |-> [outcome |-> Label(lines[i].name), odds |-> lines[i].price]]
  BY DEF SharpQuotes
<1> HIDE DEF lines
<1>4. ASSUME NEW i \in DOMAIN lines
      PROVE  [outcome |-> Label(lines[i].name), odds |-> lines[i].price] \in Quotes1X2
  <2>1. lines[i].price \in Fractions
    <3>1. lines[i] \in Lines1X2
      BY <1>1
    <3> QED
      BY <3>1 DEF Lines1X2, EventLines
  <2>2. Less(One, lines[i].price)
    <3>1. /\ Less(One, lines[i].price) <=> 1 * lines[i].price.den < lines[i].price.num * 1
          /\ Leq(lines[i].price, One) <=> lines[i].price.num * 1 <= 1 * lines[i].price.den
      BY FracParts DEF Less, Leq, One
    <3>2. lines[i].price.num \in Int /\ lines[i].price.den \in Int
      BY <2>1, FractionParts
    <3> QED
      BY <1>2, <3>1, <3>2
  <2>3. lines[i].price \in Odds
    BY <2>1, <2>2 DEF Odds
  <2>4. Label(lines[i].name) \in Sides
    BY DEF Label, Sides
  <2> QED
    BY <2>3, <2>4 DEF Quotes1X2
<1>5. DOMAIN lines = 1 .. Len(lines) /\ Len(lines) \in Nat
  BY <1>1
<1> QED
  BY <1>3, <1>4, <1>5

-----------------------------------------------------------------------------
(* Taking the margin out *)

Amounts == {p \in Fractions : p.num >= 0}

LEMMA RawIs ==
  ASSUME NEW quotes \in Seq(Quotes1X2), NEW i \in DOMAIN quotes
  PROVE  /\ quotes[i].odds \in Odds
         /\ Raw(quotes)[i] = Frac(quotes[i].odds.den, quotes[i].odds.num)
         /\ Raw(quotes)[i] \in Fractions /\ Raw(quotes)[i].num > 0
<1>1. quotes[i] \in Quotes1X2
  OBVIOUS
<1>2. quotes[i].odds \in Odds
  BY <1>1 DEF Quotes1X2
<1> DEFINE n == quotes[i].odds.num
           d == quotes[i].odds.den
<1>3. n \in Positive /\ d \in Positive
  BY <1>2, OddsParts, FractionParts
<1>4. Raw(quotes)[i] = Frac(1 * d, 1 * n)
  BY FracParts DEF Raw, Over, One
<1> HIDE DEF n, d
<1>5. 1 * d = d /\ 1 * n = n /\ d \in Int /\ d > 0
  BY <1>3 DEF Positive
<1>6. Raw(quotes)[i] = Frac(d, n)
  BY <1>4, <1>5
<1>7. Raw(quotes)[i] \in Fractions /\ Raw(quotes)[i].num > 0
  BY <1>3, <1>5, <1>6, FracTyped, FracParts
<1> QED
  BY <1>2, <1>6, <1>7 DEF n, d

LEMMA PlusIs ==
  ASSUME NEW p \in Amounts, NEW q \in Fractions, q.num > 0
  PROVE  Plus(p, q) \in Amounts /\ Plus(p, q).num > 0
<1> DEFINE a == p.num
           b == p.den
           c == q.num
           d == q.den
<1>1. a \in Nat /\ b \in Positive /\ c \in Positive /\ d \in Positive
  BY FractionParts DEF Amounts, Positive
<1>2. Plus(p, q) = Frac(a * d + c * b, b * d)
  BY DEF Plus
<1> HIDE DEF a, b, c, d
<1>3. a * d \in Nat /\ c * b \in Positive /\ b * d \in Positive
  BY <1>1, Products DEF Positive
<1> DEFINE x == a * d
           y == c * b
<1> HIDE DEF x, y
<1>4. x + y \in Int /\ x + y > 0
  BY <1>3 DEF Positive, x, y
<1> QED
  BY <1>2, <1>3, <1>4, FracTyped, FracParts DEF Amounts, x, y

Summing(quotes, g) ==
  [n \in 0 .. Len(quotes) |-> IF n = 0 THEN Zero ELSE Plus(g[n - 1], Raw(quotes)[n])]
Summed(quotes) == CHOOSE g : g = Summing(quotes, g)

LEMMA TotalIsSummed ==
  ASSUME NEW quotes
  PROVE  Total(quotes) = Reduced(Summed(quotes)[Len(quotes)])
  BY DEF Total, Summed, Summing

LEMMA TotalIsPositive ==
  ASSUME NEW quotes \in Seq(Quotes1X2), Len(quotes) # 0
  PROVE  Total(quotes) \in Fractions /\ Total(quotes).num > 0
<1> DEFINE k == Len(quotes)
           raw == Raw(quotes)
           S == Amounts
           step == [x \in S \X (1 .. k) |-> Plus(x[1], raw[x[2]])]
<1>1. k \in Nat /\ k # 0 /\ DOMAIN quotes = 1 .. k
  OBVIOUS
<1>2. \A n \in 1 .. k : raw[n] \in Fractions /\ raw[n].num > 0
  BY <1>1, RawIs
<1> HIDE DEF raw
<1>3. step \in Steps(k, S)
  <2> HIDE DEF k
  <2>1. \A x \in S \X (1 .. k) : Plus(x[1], raw[x[2]]) \in S
    BY <1>2, PlusIs
  <2> QED
    BY <2>1 DEF Steps
<1>4. Zero \in S
  BY FracParts, FracTyped DEF Zero, Amounts, Positive
<1>5. \A v \in S : \A n \in 1 .. k : step[<<v, n>>] = Plus(v, raw[n])
  <2> HIDE DEF S, k
  <2> QED
    OBVIOUS
<1> HIDE DEF step
<1>6. PICK f \in [0 .. k -> S] : f[0] = Zero /\ \A n \in 1 .. k : f[n] = step[<<f[n - 1], n>>]
  <2> HIDE DEF k, S
  <2>1. Traces(k, S, Zero, step) # {}
    BY <1>1, <1>3, <1>4, LoopRuns
  <2> QED
    BY <2>1 DEF Traces
<1>7. f = Summing(quotes, f)
  <2>1. \A n \in 1 .. k : n - 1 \in 0 .. k /\ n # 0
    BY <1>1
  <2>2. \A n \in 1 .. k : f[n] = Plus(f[n - 1], raw[n])
    BY <1>5, <1>6, <2>1
  <2>3. \A n \in 0 .. k : n = 0 \/ n \in 1 .. k
    BY <1>1
  <2>4. f = [n \in 0 .. k |-> f[n]]
    OBVIOUS
  <2> QED
    BY <1>6, <2>2, <2>3, <2>4 DEF Summing, raw
<1> DEFINE g == Summed(quotes)
<1>8. g = Summing(quotes, g)
  BY <1>7 DEF Summed
<1> HIDE DEF g
<1>9. g[0] = Zero
  <2>1. Summing(quotes, g)[0] = Zero
    BY <1>1 DEF Summing
  <2> QED
    BY <1>8, <2>1
<1> DEFINE X == {n \in 0 .. k : g[n] \in S /\ (n # 0 => g[n].num > 0)}
<1>10. 0 \in X
  BY <1>1, <1>4, <1>9
<1>11. \A n \in 0 .. k - 1 : n \in X => n + 1 \in X
  <2> SUFFICES ASSUME NEW n \in 0 .. k - 1, n \in X PROVE n + 1 \in X
    OBVIOUS
  <2>1. n + 1 \in 0 .. k /\ n + 1 \in 1 .. k /\ n + 1 # 0 /\ (n + 1) - 1 = n
    BY <1>1
  <2>2. Summing(quotes, g)[n + 1] = Plus(g[n], raw[n + 1])
    BY <2>1 DEF Summing, raw
  <2>3. g[n + 1] = Plus(g[n], raw[n + 1]) /\ g[n] \in S
    BY <1>8, <2>2
  <2>4. g[n + 1] \in S /\ g[n + 1].num > 0
    BY <1>2, <2>1, <2>3, PlusIs
  <2> QED
    BY <2>1, <2>4
<1>12. k \in X
  <2> HIDE DEF X
  <2>1. \A n \in 0 .. k : n \in X
    BY <1>1, <1>10, <1>11, IntervalInduction
  <2> QED
    BY <1>1, <2>1
<1>13. g[k] \in Fractions /\ g[k].num > 0
  BY <1>1, <1>12 DEF Amounts
<1> DEFINE r == Reduced(g[k])
<1>14. r \in Fractions /\ \E c \in Positive : g[k].num = c * r.num /\ g[k].den = c * r.den
  BY <1>13, ReducedIs
<1>15. r.num \in Int
  BY <1>14, FractionParts
<1>16. r.num > 0
  <2>1. PICK c \in Positive : g[k].num = c * r.num
    BY <1>14
  <2> HIDE DEF r
  <2> QED
    BY <1>13, <1>15, <2>1 DEF Positive
<1> QED
  BY <1>14, <1>16, TotalIsSummed DEF r, g, k

LEMMA ReducedStaysBelow ==
  ASSUME NEW p \in Fractions, NEW q \in Fractions, Leq(p, q)
  PROVE  Leq(Reduced(p), q)
<1> DEFINE r == Reduced(p)
<1>1. r \in Fractions /\ \E g \in Positive : p.num = g * r.num /\ p.den = g * r.den
  BY ReducedIs
<1>2. PICK g \in Positive : p.num = g * r.num /\ p.den = g * r.den
  BY <1>1
<1> DEFINE n == r.num
           d == r.den
           a == q.num
           b == q.den
<1>3. n \in Int /\ d \in Int /\ a \in Int /\ b \in Int
  BY <1>1, FractionParts
<1>4. (g * n) * b <= a * (g * d)
  BY <1>2 DEF Leq
<1> HIDE DEF r, n, d, a, b
<1>5. (g * n) * b = g * (n * b) /\ a * (g * d) = g * (a * d)
  BY <1>3 DEF Positive
<1> DEFINE left == n * b
           right == a * d
<1>6. left \in Int /\ right \in Int /\ g * left <= g * right
  BY <1>3, <1>4, <1>5, Products
<1> HIDE DEF left, right
<1>7. left <= right
  BY <1>6 DEF Positive
<1> QED
  BY <1>7 DEF left, right, n, d, a, b, r, Leq

(* A share of a total of at least one is no more than the whole of it.       *)
LEMMA QuotientIs ==
  ASSUME NEW p \in Fractions, p.num > 0, NEW q \in Fractions, q.num > 0
  PROVE  Over(p, q) \in Fractions /\ (Leq(One, q) => Leq(Over(p, q), p))
<1> DEFINE a == p.num
           b == p.den
           c == q.num
           d == q.den
<1>1. a \in Positive /\ b \in Positive /\ c \in Positive /\ d \in Positive
  BY FractionParts DEF Positive
<1>2. Over(p, q) = Frac(a * d, b * c)
  BY DEF Over
<1>3. Leq(One, q) <=> 1 * d <= c * 1
  BY FracParts DEF Leq, One
<1>4. Leq(Frac(a * d, b * c), p) <=> (a * d) * b <= a * (b * c)
  BY FracParts DEF Leq
<1> HIDE DEF a, b, c, d
<1>5. a * d \in Int /\ b * c \in Positive
  BY <1>1, Products DEF Positive
<1>6. d <= c => (a * d) * b <= a * (b * c)
  <2> SUFFICES ASSUME d <= c PROVE (a * d) * b <= a * (b * c)
    OBVIOUS
  <2>1. a * b \in Positive
    BY <1>1, Products
  <2>2. (a * d) * b = (a * b) * d /\ a * (b * c) = (a * b) * c
    BY <1>1 DEF Positive
  <2> DEFINE x == a * b
  <2> HIDE DEF x
  <2>3. x * d <= x * c
    BY <1>1, <2>1 DEF Positive, x
  <2> QED
    BY <2>2, <2>3 DEF x
<1>7. 1 * d <= c * 1 <=> d <= c
  BY <1>1 DEF Positive
<1> QED
  BY <1>2, <1>3, <1>4, <1>5, <1>6, <1>7, FracTyped

LEMMA DifferenceIs ==
  ASSUME NEW p \in Fractions, NEW q \in Fractions
  PROVE  Minus(p, q) \in Fractions /\ (q.num >= 0 => Leq(Minus(p, q), p))
<1> DEFINE a == p.num
           b == p.den
           c == q.num
           d == q.den
<1>1. a \in Int /\ b \in Positive /\ c \in Int /\ d \in Positive
  BY FractionParts
<1>2. Minus(p, q) = Frac(a * d - c * b, b * d)
  BY DEF Minus
<1>3. Leq(Frac(a * d - c * b, b * d), p) <=> (a * d - c * b) * b <= a * (b * d)
  BY FracParts DEF Leq
<1> HIDE DEF a, b, c, d
<1>4. a * d - c * b \in Int /\ b * d \in Positive
  BY <1>1, Products DEF Positive
<1>5. c >= 0 => (a * d - c * b) * b <= a * (b * d)
  <2> SUFFICES ASSUME c >= 0 PROVE (a * d - c * b) * b <= a * (b * d)
    OBVIOUS
  <2>1. (a * d - c * b) * b = a * (b * d) - (c * b) * b
    BY <1>1 DEF Positive
  <2>2. c * b \in Nat
    BY <1>1, Products DEF Positive
  <2>3. (c * b) * b \in Nat
    BY <1>1, <2>2, Products DEF Positive
  <2>4. a * (b * d) \in Int
    BY <1>1, Products DEF Positive
  <2> QED
    BY <2>1, <2>3, <2>4
<1>6. Frac(a * d - c * b, b * d) \in Fractions
  BY <1>4, FracTyped
<1> QED
  BY <1>2, <1>3, <1>5, <1>6 DEF c

LEMMA ShareIs ==
  ASSUME NEW quotes \in Seq(Quotes1X2), Len(quotes) # 0
  PROVE  Share(quotes) \in Fractions /\ (Leq(One, Total(quotes)) => Share(quotes).num >= 0)
<1> DEFINE n == Total(quotes).num
           d == Total(quotes).den
           k == Len(quotes)
<1>1. n \in Int /\ d \in Positive /\ k \in Positive
  BY TotalIsPositive, FractionParts DEF Positive
<1>2. Minus(Total(quotes), One) = Frac(n * 1 - 1 * d, d * 1)
  BY FracParts DEF Minus, One
<1>3. Leq(One, Total(quotes)) <=> 1 * d <= n * 1
  BY FracParts DEF Leq, One
<1>4. Share(quotes) = Over(Frac(n * 1 - 1 * d, d * 1), Frac(k, 1))
  BY <1>2 DEF Share
<1>5. Over(Frac(n * 1 - 1 * d, d * 1), Frac(k, 1)) = Frac((n * 1 - 1 * d) * 1, (d * 1) * k)
  BY FracParts DEF Over
<1> HIDE DEF n, d, k
<1>6. /\ (n * 1 - 1 * d) * 1 = n - d /\ d * 1 = d /\ 1 * d = d /\ n * 1 = n
      /\ n - d \in Int
  BY <1>1 DEF Positive
<1>7. Share(quotes) = Frac(n - d, d * k)
  BY <1>4, <1>5, <1>6
<1>8. d * k \in Positive
  BY <1>1, Products
<1>9. d <= n => n - d >= 0
  BY <1>1 DEF Positive
<1> QED
  BY <1>3, <1>6, <1>7, <1>8, <1>9, FracTyped, FracParts

(* Devigged probabilities are fractions, and where there is a margin none is *)
(* above the inverse of its odds.                                            *)
LEMMA DevigIs ==
  ASSUME NEW strategy, NEW quotes \in Seq(Quotes1X2), NEW i \in DOMAIN quotes
  PROVE  /\ Devig(strategy, quotes)[i] \in Fractions
         /\ Leq(One, Total(quotes)) => Leq(Devig(strategy, quotes)[i], Raw(quotes)[i])
<1> DEFINE raw == Raw(quotes)
           total == Total(quotes)
<1>1. Len(quotes) # 0
  OBVIOUS
<1>2. raw[i] \in Fractions /\ raw[i].num > 0
  BY RawIs
<1>3. total \in Fractions /\ total.num > 0
  BY <1>1, TotalIsPositive
<1>4. Multiplicative(quotes)[i] = Reduced(Over(raw[i], total))
  BY DEF Multiplicative
<1>5. Additive(quotes)[i] = Reduced(Minus(raw[i], Share(quotes)))
  BY DEF Additive
<1> HIDE DEF raw, total
<1>6. Over(raw[i], total) \in Fractions /\ (Leq(One, total) => Leq(Over(raw[i], total), raw[i]))
  BY <1>2, <1>3, QuotientIs
<1>7. Share(quotes) \in Fractions /\ (Leq(One, total) => Share(quotes).num >= 0)
  BY <1>1, ShareIs DEF total
<1>8. /\ Minus(raw[i], Share(quotes)) \in Fractions
      /\ Leq(One, total) => Leq(Minus(raw[i], Share(quotes)), raw[i])
  BY <1>2, <1>7, DifferenceIs
<1>9. Multiplicative(quotes)[i] \in Fractions /\ (Leq(One, total) => Leq(Multiplicative(quotes)[i], raw[i]))
  BY <1>2, <1>4, <1>6, ReducedIs, ReducedStaysBelow
<1>10. Additive(quotes)[i] \in Fractions /\ (Leq(One, total) => Leq(Additive(quotes)[i], raw[i]))
  BY <1>2, <1>5, <1>8, ReducedIs, ReducedStaysBelow
<1> QED
  BY <1>9, <1>10 DEF Devig, raw, total

(* Where an outcome is quoted it has a probability, that of its last quote.  *)
LEMMA FairIs ==
  ASSUME NEW strategy, NEW quotes \in Seq(Quotes1X2), NEW outcome \in Quoted(quotes)
  PROVE  \E i \in DOMAIN quotes :
           /\ quotes[i].outcome = outcome
           /\ FairProbability(strategy, quotes, outcome) = Devig(strategy, quotes)[i]
           /\ FairProbability(strategy, quotes, outcome) \in Fractions
<1> DEFINE S == {i \in DOMAIN quotes : quotes[i].outcome = outcome}
<1>1. S \subseteq 1 .. Len(quotes) /\ Len(quotes) \in Nat /\ S # {}
  BY DEF Quoted
<1>2. Max(S) \in S
  <2> HIDE DEF S
  <2> QED
    BY <1>1, MaxIsLargest
<1>3. FairProbability(strategy, quotes, outcome) = Devig(strategy, quotes)[Max(S)]
  BY DEF FairProbability
<1>4. PICK i \in DOMAIN quotes : quotes[i].outcome = outcome /\ i = Max(S)
  <2>1. S \subseteq {i \in DOMAIN quotes : quotes[i].outcome = outcome}
    OBVIOUS
  <2> QED
    BY <1>2
<1> HIDE DEF S
<1> QED
  BY <1>3, <1>4, DevigIs

-----------------------------------------------------------------------------
(* What a detection holds *)

Elements(s) == {s[i] : i \in DOMAIN s}

LEMMA ElementsOfBoth ==
  ASSUME NEW T, NEW s \in Seq(T), NEW t \in Seq(T)
  PROVE  s \o t \in Seq(T) /\ Elements(s \o t) = Elements(s) \union Elements(t)
<1> DEFINE m == Len(s)
           n == Len(t)
           both == s \o t
<1>1. /\ m \in Nat /\ n \in Nat /\ both \in Seq(T)
      /\ DOMAIN s = 1 .. m /\ DOMAIN t = 1 .. n /\ DOMAIN both = 1 .. m + n
  OBVIOUS
<1>2. \A i \in 1 .. m : both[i] = s[i]
  OBVIOUS
<1>3. \A i \in m + 1 .. m + n : both[i] = t[i - m]
  OBVIOUS
<1> HIDE DEF m, n, both
<1>4. \A i \in 1 .. n : m + i \in m + 1 .. m + n /\ (m + i) - m = i /\ m + i \in 1 .. m + n
  BY <1>1
<1>5. \A i \in 1 .. m : i \in 1 .. m + n
  BY <1>1
<1>6. \A i \in 1 .. m + n : i \in 1 .. m \/ (i \in m + 1 .. m + n /\ i - m \in 1 .. n)
  BY <1>1
<1>7. ASSUME NEW i \in 1 .. n PROVE t[i] = both[m + i]
  BY <1>3, <1>4
<1>8. Elements(s) \subseteq Elements(both) /\ Elements(t) \subseteq Elements(both)
  <2>1. \A i \in DOMAIN s : s[i] \in Elements(both)
    BY <1>1, <1>2, <1>5 DEF Elements
  <2>2. \A i \in DOMAIN t : t[i] \in Elements(both)
    BY <1>1, <1>4, <1>7 DEF Elements
  <2>3. \A u, e : (\A i \in DOMAIN u : u[i] \in e) => Elements(u) \subseteq e
    BY DEF Elements
  <2> QED
    BY <2>1, <2>2, <2>3
<1>9. Elements(both) \subseteq Elements(s) \union Elements(t)
  <2>1. \A i \in DOMAIN both : both[i] \in Elements(s) \union Elements(t)
    BY <1>1, <1>2, <1>3, <1>6 DEF Elements
  <2> QED
    BY <2>1 DEF Elements
<1> QED
  BY <1>1, <1>8, <1>9 DEF both

Flattening(seqs, g) == [i \in 1 .. Len(seqs) |-> IF i = 1 THEN seqs[i] ELSE g[i - 1] \o seqs[i]]
Flat(seqs) == CHOOSE g : g = Flattening(seqs, g)

LEMMA FlattenSeqIsFlat ==
  ASSUME NEW seqs
  PROVE  FlattenSeq(seqs) = IF Len(seqs) = 0 THEN seqs ELSE Flat(seqs)[Len(seqs)]
  BY DEF FlattenSeq, Flat, Flattening

(* An interval from one grows by its next number.                            *)
LEMMA IntervalGrows ==
  \A n \in Nat : 1 .. n + 1 = (1 .. n) \union {n + 1}
  OBVIOUS

(* One index more adds the elements of its sequence.                         *)
LEMMA UnionGrows ==
  ASSUME NEW seqs, NEW A, NEW n
  PROVE  UNION {Elements(seqs[i]) : i \in A \union {n}} =
         (UNION {Elements(seqs[i]) : i \in A}) \union Elements(seqs[n])
  OBVIOUS

LEMMA ElementsOfFlat ==
  ASSUME NEW T, NEW seqs \in Seq(Seq(T))
  PROVE  Elements(FlattenSeq(seqs)) = UNION {Elements(seqs[i]) : i \in DOMAIN seqs}
<1> DEFINE k == Len(seqs) - 1
           S == Seq(T)
           step == [x \in S \X (1 .. k) |-> x[1] \o seqs[x[2] + 1]]
<1>1. CASE Len(seqs) = 0
  <2>1. seqs = <<>> /\ DOMAIN seqs = {}
    BY <1>1
  <2> QED
    BY <1>1, <2>1, FlattenSeqIsFlat DEF Elements
<1>2. CASE Len(seqs) # 0
  <2>1. k \in Nat /\ Len(seqs) = k + 1 /\ DOMAIN seqs = 1 .. k + 1 /\ \A i \in 1 .. k + 1 : seqs[i] \in S
    BY <1>2
  <2> HIDE DEF k
  <2>2. \A n \in 0 .. k : n + 1 \in 1 .. k + 1 /\ seqs[n + 1] \in S
    BY <2>1
  <2>3. step \in Steps(k, S)
    <3>1. \A v \in S, w \in S : v \o w \in S
      BY ElementsOfBoth
    <3>2. \A n \in 1 .. k : seqs[n + 1] \in S
      BY <2>1, <2>2
    <3> HIDE DEF S
    <3>3. \A x \in S \X (1 .. k) : x[1] \o seqs[x[2] + 1] \in S
      BY <3>1, <3>2
    <3> QED
      BY <3>3 DEF Steps
  <2>4. \A v \in S : \A n \in 1 .. k : step[<<v, n>>] = v \o seqs[n + 1]
    <3> HIDE DEF S
    <3> QED
      OBVIOUS
  <2>5. seqs[1] \in S
    BY <2>1
  <2> HIDE DEF step, S
  <2>6. PICK f \in [0 .. k -> S] : f[0] = seqs[1] /\ \A n \in 1 .. k : f[n] = step[<<f[n - 1], n>>]
    <3>1. Traces(k, S, seqs[1], step) # {}
      BY <2>1, <2>3, <2>5, LoopRuns
    <3> QED
      BY <3>1 DEF Traces
  <2> DEFINE h == [i \in 1 .. k + 1 |-> f[i - 1]]
  <2>7. h = Flattening(seqs, h)
    <3>1. \A i \in 1 .. k + 1 : h[i] = IF i = 1 THEN seqs[i] ELSE h[i - 1] \o seqs[i]
      <4> SUFFICES ASSUME NEW i \in 1 .. k + 1
                   PROVE  h[i] = IF i = 1 THEN seqs[i] ELSE h[i - 1] \o seqs[i]
        OBVIOUS
      <4>1. CASE i = 1
        BY <2>1, <2>6, <4>1
      <4>2. CASE i # 1
        <5>1. i - 1 \in 1 .. k /\ i - 1 \in 1 .. k + 1 /\ (i - 1) - 1 \in 0 .. k /\ (i - 1) + 1 = i
          BY <2>1, <4>2
        <5>2. h[i] = f[i - 1] /\ h[i - 1] = f[(i - 1) - 1]
          BY <5>1
        <5> HIDE DEF h
        <5>3. f[i - 1] = step[<<f[(i - 1) - 1], i - 1>>]
          BY <2>6, <5>1
        <5>4. f[(i - 1) - 1] \in S
          BY <5>1
        <5>5. step[<<f[(i - 1) - 1], i - 1>>] = f[(i - 1) - 1] \o seqs[i]
          BY <2>4, <5>1, <5>4
        <5> QED
          BY <4>2, <5>2, <5>3, <5>5
      <4> QED
        BY <4>1, <4>2
    <3>2. h = [i \in 1 .. k + 1 |-> h[i]]
      OBVIOUS
    <3> HIDE DEF h
    <3> QED
      BY <2>1, <3>1, <3>2 DEF Flattening
  <2> DEFINE g == Flat(seqs)
  <2> HIDE DEF h
  <2>8. g = Flattening(seqs, g)
    BY <2>7 DEF Flat
  <2> HIDE DEF g
  <2>9. \A i \in 1 .. k + 1 : g[i] = IF i = 1 THEN seqs[i] ELSE g[i - 1] \o seqs[i]
    <3>1. \A i \in 1 .. k + 1 : Flattening(seqs, g)[i] = IF i = 1 THEN seqs[i] ELSE g[i - 1] \o seqs[i]
      BY <2>1 DEF Flattening
    <3> QED
      BY <2>8, <3>1
  <2> DEFINE Parts(n) == UNION {Elements(seqs[i]) : i \in 1 .. n}
             X == {n \in 0 .. k : g[n + 1] \in S /\ Elements(g[n + 1]) = Parts(n + 1)}
  <2>10. 0 \in X
    <3>1. 1 \in 1 .. k + 1 /\ 0 \in 0 .. k /\ 0 + 1 = 1
      BY <2>1
    <3>2. g[1] = seqs[1]
      BY <2>9, <3>1
    <3>3. 1 .. 1 = {1}
      OBVIOUS
    <3>4. Parts(1) = Elements(seqs[1])
      BY <3>3
    <3> QED
      BY <2>5, <3>1, <3>2, <3>4
  <2>11. \A n \in 0 .. k - 1 : n \in X => n + 1 \in X
    <3> SUFFICES ASSUME NEW n \in 0 .. k - 1, n \in X PROVE n + 1 \in X
      OBVIOUS
    <3>1. /\ n + 1 \in 0 .. k /\ (n + 1) + 1 \in 1 .. k + 1 /\ (n + 1) + 1 # 1
          /\ ((n + 1) + 1) - 1 = n + 1
      BY <2>1
    <3>2. g[(n + 1) + 1] = g[n + 1] \o seqs[(n + 1) + 1]
      BY <2>9, <3>1
    <3>3. seqs[(n + 1) + 1] \in S
      BY <2>2, <3>1
    <3>4. g[n + 1] \in S /\ Elements(g[n + 1]) = Parts(n + 1)
      OBVIOUS
    <3>5. /\ g[(n + 1) + 1] \in S
          /\ Elements(g[(n + 1) + 1]) = Elements(g[n + 1]) \union Elements(seqs[(n + 1) + 1])
      BY <3>2, <3>3, <3>4, ElementsOfBoth DEF S
    <3>6. Parts((n + 1) + 1) = Parts(n + 1) \union Elements(seqs[(n + 1) + 1])
      <4>1. 1 .. (n + 1) + 1 = (1 .. n + 1) \union {(n + 1) + 1}
        <5>1. n + 1 \in Nat
          OBVIOUS
        <5> QED
          BY <5>1, IntervalGrows
      <4> QED
        BY <4>1, UnionGrows
    <3> HIDE DEF Parts
    <3> QED
      BY <3>1, <3>4, <3>5, <3>6
  <2>12. k \in X
    <3> HIDE DEF X
    <3>1. \A n \in 0 .. k : n \in X
      BY <2>1, <2>10, <2>11, IntervalInduction
    <3>2. k \in 0 .. k
      BY <2>1
    <3> QED
      BY <3>1, <3>2
  <2>13. Elements(g[k + 1]) = Parts(k + 1)
    BY <2>12
  <2>14. FlattenSeq(seqs) = g[k + 1]
    BY <1>2, <2>1, FlattenSeqIsFlat DEF g
  <2> HIDE DEF S
  <2> QED
    BY <2>1, <2>13, <2>14
<1> QED
  BY <1>1, <1>2

LEMMA PricedIs ==
  ASSUME NEW local \in Seq(Quotes1X2), NEW tried, tried = [i \in DOMAIN local |-> tried[i]],
         \A i \in DOMAIN local : \/ tried[i] = <<>>
                                 \/ \E b : tried[i] = <<b>> /\ b.outcome = local[i].outcome
  PROVE  /\ ~Priced(tried).raised
         /\ Outcomes(Priced(tried)) = {local[i].outcome : i \in {j \in DOMAIN local : tried[j] # <<>>}}
         /\ \A j \in DOMAIN Priced(tried).bets : \E i \in DOMAIN local :
              tried[i] # <<>> /\ Priced(tried).bets[j] = tried[i][1]
<1> DEFINE k == Len(local)
           T == {tried[i][1] : i \in 1 .. k}
           bets == FlattenSeq(tried)
<1>1. k \in Nat /\ DOMAIN local = 1 .. k /\ DOMAIN tried = 1 .. k
  OBVIOUS
<1>2. \A i \in 1 .. k : \/ tried[i] = <<>>
                        \/ tried[i] = <<tried[i][1]>> /\ tried[i][1].outcome = local[i].outcome
  BY <1>1
<1>3. \A b : <<b>> # <<>> /\ DOMAIN <<b>> = {1} /\ <<b>>[1] = b
  OBVIOUS
<1>4. \A i \in 1 .. k : Elements(tried[i]) = IF tried[i] = <<>> THEN {} ELSE {tried[i][1]}
  <2>1. Elements(<<>>) = {}
    BY DEF Elements
  <2>2. \A b : Elements(<<b>>) = {b}
    BY <1>3 DEF Elements
  <2> QED
    BY <1>2, <2>1, <2>2
<1> HIDE DEF k
<1>5. tried \in Seq(Seq(T))
  <2>1. \A b \in T : <<b>> \in Seq(T)
    OBVIOUS
  <2>2. <<>> \in Seq(T)
    OBVIOUS
  <2>3. \A i \in 1 .. k : tried[i][1] \in T
    OBVIOUS
  <2> HIDE DEF T
  <2>4. \A i \in 1 .. k : tried[i] \in Seq(T)
    BY <1>2, <2>1, <2>2, <2>3
  <2>5. tried = [i \in 1 .. k |-> tried[i]]
    BY <1>1
  <2> QED
    BY <1>1, <2>4, <2>5
<1>6. Elements(bets) = UNION {Elements(tried[i]) : i \in 1 .. k}
  <2> HIDE DEF T
  <2> QED
    BY <1>1, <1>5, ElementsOfFlat
<1>7. Priced(tried) = [raised |-> FALSE, bets |-> bets]
  BY DEF Priced
<1> HIDE DEF bets, T
<1>8. Priced(tried).raised = FALSE /\ Priced(tried).bets = bets
  BY <1>7
<1>9. \A b : b \in Elements(bets) <=> \E i \in 1 .. k : tried[i] # <<>> /\ b = tried[i][1]
  <2>1. \A b : b \in Elements(bets) <=> \E i \in 1 .. k : b \in Elements(tried[i])
    BY <1>6
  <2>2. \A i \in 1 .. k : \A b : b \in Elements(tried[i]) <=> tried[i] # <<>> /\ b = tried[i][1]
    BY <1>4
  <2> SUFFICES ASSUME NEW b
               PROVE  b \in Elements(bets) <=> \E i \in 1 .. k : tried[i] # <<>> /\ b = tried[i][1]
    OBVIOUS
  <2>3. b \in Elements(bets) <=> \E i \in 1 .. k : b \in Elements(tried[i])
    BY <2>1
  <2>4. \A i \in 1 .. k : b \in Elements(tried[i]) <=> tried[i] # <<>> /\ b = tried[i][1]
    BY <2>2
  <2> QED
    BY <2>3, <2>4
<1>10. Outcomes(Priced(tried)) = {b.outcome : b \in Elements(bets)}
  <2>1. Outcomes(Priced(tried)) = {bets[i].outcome : i \in DOMAIN bets}
    BY <1>8 DEF Outcomes
  <2>2. {bets[i].outcome : i \in DOMAIN bets} = {b.outcome : b \in Elements(bets)}
    BY DEF Elements
  <2> QED
    BY <2>1, <2>2
<1>11. \A i \in 1 .. k : tried[i] # <<>> => tried[i][1].outcome = local[i].outcome
  BY <1>2
<1>12. Outcomes(Priced(tried)) = {local[i].outcome : i \in {j \in 1 .. k : tried[j] # <<>>}}
  <2>1. \A b \in Elements(bets) : b.outcome \in {local[i].outcome : i \in {j \in 1 .. k : tried[j] # <<>>}}
    BY <1>9, <1>11
  <2>2. \A i \in {j \in 1 .. k : tried[j] # <<>>} : local[i].outcome \in {b.outcome : b \in Elements(bets)}
    <3> TAKE i \in {j \in 1 .. k : tried[j] # <<>>}
    <3>0. i \in 1 .. k /\ tried[i] # <<>>
      OBVIOUS
    <3>1. tried[i][1] \in Elements(bets)
      BY <1>9, <3>0
    <3>2. tried[i][1].outcome = local[i].outcome
      BY <1>11
    <3> QED
      BY <3>1, <3>2
  <2> QED
    BY <1>10, <2>1, <2>2
<1>13. \A j \in DOMAIN bets : bets[j] \in Elements(bets)
  BY DEF Elements
<1> QED
  BY <1>1, <1>8, <1>9, <1>12, <1>13

(* At each position there is nothing, or one bet on that quote's outcome.    *)
TriesOneEach(local, tried) ==
  /\ tried = [i \in DOMAIN local |-> tried[i]]
  /\ \A i \in DOMAIN local : \/ tried[i] = <<>>
                             \/ \E b : tried[i] = <<b>> /\ b.outcome = local[i].outcome

(* The bets of a list of attempts are on the outcomes whose attempt was built. *)
KeepsTheBuilt(local, tried) ==
  /\ ~Priced(tried).raised
  /\ Outcomes(Priced(tried)) = {local[i].outcome : i \in {j \in DOMAIN local : tried[j] # <<>>}}

LEMMA PricedKeeps ==
  ASSUME NEW local \in Seq(Quotes1X2), NEW tried, TriesOneEach(local, tried)
  PROVE  KeepsTheBuilt(local, tried)
  BY PricedIs DEF TriesOneEach, KeepsTheBuilt

LEMMA TriedIs ==
  ASSUME NEW c, NEW q, NEW p, NEW source
  PROVE  \/ TryBuild(c, q, p, source) = <<>>
         \/ \E b : TryBuild(c, q, p, source) = <<b>> /\ b.outcome = q.outcome
<1> DEFINE b == [outcome |-> q.outcome, odds |-> q.odds, fair |-> p,
                 stake |-> KellyStake(c, p, q.odds), source |-> source]
<1>1. TryBuild(c, q, p, source) # <<>> => TryBuild(c, q, p, source) = <<b>>
  BY BetIs
<1>2. b.outcome = q.outcome
  OBVIOUS
<1> HIDE DEF b
<1> QED
  BY <1>1, <1>2

-----------------------------------------------------------------------------
(* Two opinions *)

LEMMA BlendIs ==
  ASSUME NEW c, Config(c), NEW p \in Fractions, NEW q \in Fractions
  PROVE  /\ Blend(c.weight, p, q) \in Fractions
         /\ Blend(c.weight, p, q).num
              = (c.weight.num * p.num) * q.den + ((c.weight.den - c.weight.num) * q.num) * p.den
         /\ Blend(c.weight, p, q).den = (c.weight.den * p.den) * q.den
<1> DEFINE n == (c.weight.num * p.num) * q.den + ((c.weight.den - c.weight.num) * q.num) * p.den
           d == (c.weight.den * p.den) * q.den
<1>1. c.weight \in Fractions
  BY DEF Config
<1>2. n \in Int /\ d \in Positive
  <2>1. /\ c.weight.num \in Int /\ c.weight.den \in Positive /\ p.num \in Int /\ p.den \in Positive
        /\ q.num \in Int /\ q.den \in Positive /\ c.weight.den \in Int /\ p.den \in Int /\ q.den \in Int
    BY <1>1, FractionParts
  <2> QED
    BY <2>1, Products
<1>3. Blend(c.weight, p, q) = Frac(n, d)
  BY DEF Blend
<1> HIDE DEF n, d
<1> QED
  BY <1>2, <1>3, FracParts, FracTyped DEF n, d

(* A blend of two probabilities that clear the threshold clears it.          *)
LEMMA BlendExceeds ==
  ASSUME NEW c, Config(c), NEW p \in Fractions, NEW q \in Fractions, NEW odds \in Odds,
         Exceeds(c, Edge(p, odds)), Exceeds(c, Edge(q, odds))
  PROVE  Exceeds(c, Edge(Blend(c.weight, p, q), odds))
<1> DEFINE a == p.num
           b == p.den
           f == q.num
           d == q.den
           o == odds.num
           e == odds.den
           t == c.threshold.num
           u == c.threshold.den
           w == c.weight.num
           v == c.weight.den
           x == (a * o - b * e) * u - t * (b * e)
           y == (f * o - d * e) * u - t * (d * e)
           n == (w * a) * d + ((v - w) * f) * b
           m == (v * b) * d
           z == (n * o - m * e) * u - t * (m * e)
<1>1. /\ a \in Int /\ b \in Positive /\ f \in Int /\ d \in Positive
      /\ o \in Int /\ e \in Positive /\ t \in Int /\ u \in Positive
      /\ w \in Nat /\ v \in Positive /\ w <= v
  BY FractionParts, OddsParts DEF Config
<1>2. odds \in Fractions /\ Blend(c.weight, p, q) \in Fractions
  BY OddsParts, BlendIs
<1>3. /\ t * (b * e) < (a * o - b * e) * u
      /\ t * (d * e) < (f * o - d * e) * u
  BY <1>2, ExceedsIs DEF Gain
<1>4. /\ Blend(c.weight, p, q).num = n /\ Blend(c.weight, p, q).den = m
  BY BlendIs
<1>5. t * (m * e) < (n * o - m * e) * u => Exceeds(c, Edge(Blend(c.weight, p, q), odds))
  BY <1>2, <1>4, ExceedsIs DEF Gain
<1> HIDE DEF a, b, f, d, o, e, t, u, w, v
<1>6. x \in Int /\ x > 0 /\ y \in Int /\ y > 0
  <2>1. /\ t * (b * e) \in Int /\ (a * o - b * e) * u \in Int
        /\ t * (d * e) \in Int /\ (f * o - d * e) * u \in Int
    BY <1>1, Products DEF Positive
  <2> QED
    BY <1>3, <2>1
<1>7. z = (w * d) * x + ((v - w) * b) * y
  BY <1>1 DEF Positive
<1> HIDE DEF x, y
<1>8. (w * d) * x + ((v - w) * b) * y > 0
  <2>1. v - w \in Nat
    BY <1>1 DEF Positive
  <2>2. w * d \in Nat /\ (v - w) * b \in Nat
    BY <1>1, <2>1, Products DEF Positive
  <2>3. (w * d) * x \in Nat /\ ((v - w) * b) * y \in Nat
    BY <1>6, <2>2, Products
  <2>4. CASE w # 0
    <3>1. w \in Positive /\ x \in Positive
      BY <1>1, <1>6, <2>4 DEF Positive
    <3>2. (w * d) * x \in Positive
      BY <1>1, <3>1, Products
    <3> QED
      BY <2>3, <3>2 DEF Positive
  <2>5. CASE w = 0
    <3>1. v - w \in Positive /\ y \in Positive
      BY <1>1, <1>6, <2>5 DEF Positive
    <3>2. ((v - w) * b) * y \in Positive
      BY <1>1, <3>1, Products
    <3> QED
      BY <2>3, <3>2 DEF Positive
  <2> QED
    BY <2>4, <2>5
<1>9. z > 0
  BY <1>7, <1>8
<1>10. t * (m * e) < (n * o - m * e) * u
  <2>1. m \in Positive /\ n \in Int
    BY <1>1, Products DEF Positive
  <2> HIDE DEF m, n
  <2>2. t * (m * e) \in Int /\ (n * o - m * e) * u \in Int
    BY <1>1, <2>1, Products DEF Positive
  <2> QED
    BY <1>9, <2>2
<1> QED
  BY <1>5, <1>10

(* What clears the threshold at some odds clears it at longer ones.          *)
LEMMA LongerOddsExceed ==
  ASSUME NEW c, Config(c), NEW p \in Fractions, NEW odds \in Odds, NEW longer \in Odds,
         Leq(odds, longer), Exceeds(c, Edge(p, odds))
  PROVE  Exceeds(c, Edge(p, longer))
<1> DEFINE a == p.num
           b == p.den
           o == odds.num
           e == odds.den
           r == longer.num
           s == longer.den
           t == c.threshold.num
           u == c.threshold.den
<1>1. /\ a \in Int /\ b \in Positive /\ o \in Positive /\ e \in Positive
      /\ r \in Positive /\ s \in Positive /\ t \in Nat /\ u \in Positive
  BY FractionParts, OddsParts DEF Config
<1>2. o * s <= r * e
  BY DEF Leq
<1>3. odds \in Fractions /\ longer \in Fractions
  BY OddsParts
<1>4. t * (b * e) < (a * o - b * e) * u /\ a * o - b * e > 0
  BY <1>3, ExceedsIs, ExceedsIsAGain DEF Gain
<1>5. t * (b * s) < (a * r - b * s) * u => Exceeds(c, Edge(p, longer))
  BY <1>3, ExceedsIs DEF Gain
<1> HIDE DEF a, b, o, e, r, s, t, u
<1>6. a > 0
  <2>1. a * o \in Int /\ b * e \in Positive
    BY <1>1, Products DEF Positive
  <2>2. a * o > 0
    BY <1>4, <2>1 DEF Positive
  <2> QED
    BY <1>1, <2>2 DEF Positive
<1>7. a * u \in Positive
  BY <1>1, <1>6, Products DEF Positive
<1>8. (a * u) * (o * s) <= (a * u) * (r * e)
  <2>1. o * s \in Int /\ r * e \in Int
    BY <1>1, Products DEF Positive
  <2> DEFINE k == a * u
             left == o * s
             right == r * e
  <2>2. k \in Positive /\ left \in Int /\ right \in Int /\ left <= right
    BY <1>2, <1>7, <2>1
  <2> HIDE DEF k, left, right
  <2>3. k * left <= k * right
    BY <2>2 DEF Positive
  <2> QED
    BY <2>3 DEF k, left, right
<1> DEFINE x == (a * o - b * e) * u - t * (b * e)
           y == (a * r - b * s) * u - t * (b * s)
<1>9. x \in Int /\ x > 0
  <2>1. t * (b * e) \in Int /\ (a * o - b * e) * u \in Int
    BY <1>1, Products DEF Positive
  <2> QED
    BY <1>4, <2>1
<1>10. y \in Int
  BY <1>1, Products DEF Positive
<1>11. e * y - s * x = (a * u) * (r * e) - (a * u) * (o * s)
  BY <1>1 DEF Positive
<1>12. (a * u) * (r * e) \in Int /\ (a * u) * (o * s) \in Int
  BY <1>1, Products DEF Positive
<1>13. t * (b * s) \in Int /\ (a * r - b * s) * u \in Int
  BY <1>1, Products DEF Positive
<1> HIDE DEF x
<1>14. y > 0
  <2> HIDE DEF y
  <2>1. e * y \in Int /\ s * x \in Positive
    BY <1>1, <1>9, <1>10, Products DEF Positive
  <2>2. e * y - s * x >= 0
    BY <1>8, <1>11, <1>12
  <2>3. e * y > 0
    BY <2>1, <2>2 DEF Positive
  <2> QED
    BY <1>1, <1>10, <2>3 DEF Positive
<1>15. t * (b * s) < (a * r - b * s) * u
  BY <1>13, <1>14
<1> QED
  BY <1>5, <1>15

-----------------------------------------------------------------------------
(* Match bets *)

LEMMA LongerOrNot ==
  ASSUME NEW p \in Fractions, NEW q \in Fractions
  PROVE  Leq(p, q) \/ Leq(q, p)
<1>1. p.num * q.den \in Int /\ q.num * p.den \in Int
  BY FractionParts, Products
<1> QED
  BY <1>1 DEF Leq

(* What is known of a local market whose outcomes all have a fair probability. *)
LEMMA MarketIsPriced ==
  ASSUME NEW c \in Settings, NEW sharp \in Seq(Quotes1X2), NEW local \in LocalGroups,
         ~Uncoverable(c, sharp, local)
  PROVE  /\ Config(c) /\ local \in Seq(Quotes1X2)
         /\ \A i \in DOMAIN local :
              /\ local[i].odds \in Odds /\ local[i].outcome \in Sides
              /\ local[i].outcome \in Quoted(sharp)
              /\ FairProbability(c.strategy, sharp, local[i].outcome) \in Fractions
<1>1. Config(c)
  BY SettingsAreConfigs
<1>2. local \in Seq(Quotes1X2)
  BY OffersAssumption DEF Quotes1X2
<1>3. \A i \in DOMAIN local : local[i] \in Quotes1X2
  BY <1>2
<1>4. \A i \in DOMAIN local : local[i].outcome \in Quoted(sharp)
  BY DEF Uncoverable, Quoted
<1>5. \A i \in DOMAIN local : FairProbability(c.strategy, sharp, local[i].outcome) \in Fractions
  BY <1>4, FairIs
<1>6. \A i \in DOMAIN local : local[i].odds \in Odds /\ local[i].outcome \in Sides
  BY <1>3 DEF Quotes1X2
<1> QED
  BY <1>1, <1>2, <1>4, <1>5, <1>6

(* For any weight and thresholds, any models and any quotes, of one outcome  *)
(* also several: what is bet on in CONFIRMATION mode is what both models     *)
(* would bet on alone.                                                       *)
THEOREM ConfirmationIntersects == Spec => []ConfirmedIsTheIntersection
<1>1. OffersInv => ConfirmedIsTheIntersection
  <2> SUFFICES ASSUME OffersInv, Mapped, NEW local \in LocalGroups, NEW model \in Models
               PROVE  LET sharp == SharpQuotes(payload)
                          market == MarketDetect(settings, sharp, local)
                          both == DetectWithConfirmation(settings, model, sharp, local)
                      IN  /\ both.raised = market.raised
                          /\ ~both.raised => Outcomes(both) =
                               Outcomes(market) \intersect Outcomes(DetectIndependent(settings, model, local))
    BY DEF ConfirmedIsTheIntersection
  <2> DEFINE sharp == SharpQuotes(payload)
             market == MarketDetect(settings, sharp, local)
             both == DetectWithConfirmation(settings, model, sharp, local)
             alone == DetectIndependent(settings, model, local)
             P(i) == FairProbability(settings.strategy, sharp, local[i].outcome)
             Q(i) == model[local[i].outcome]
             B(i) == Blend(settings.weight, P(i), Q(i))
             tm == [i \in DOMAIN local |-> TryBuild(settings, local[i], P(i), "MARKET")]
             ta == [i \in DOMAIN local |-> TryBuild(settings, local[i], Q(i), "STATISTICAL")]
             tb == [i \in DOMAIN local |->
                      IF BothAgree(settings, local[i], P(i), Q(i))
                      THEN TryBuild(settings, local[i], B(i), "BOTH") ELSE <<>>]
  <2>1. sharp \in Seq(Quotes1X2) /\ settings \in Settings
    BY SharpQuotesAreQuotes DEF OffersInv, Mapped
  <2>2. CASE Uncoverable(settings, sharp, local)
    BY <2>2 DEF MarketDetect, DetectWithConfirmation, Raised
  <2>3. CASE ~Uncoverable(settings, sharp, local)
    <3>1. market = Priced(tm) /\ both = Priced(tb) /\ alone = Priced(ta)
      BY <2>3 DEF MarketDetect, DetectWithConfirmation, DetectIndependent
    <3> HIDE DEF sharp
    <3>2. /\ Config(settings) /\ local \in Seq(Quotes1X2)
          /\ \A i \in DOMAIN local :
               local[i].odds \in Odds /\ local[i].outcome \in Sides /\ P(i) \in Fractions
      BY <2>1, <2>3, MarketIsPriced
    <3>3. \A i \in DOMAIN local : Q(i) \in Fractions
      <4>1. model \in [Sides -> Probabilities]
        BY OffersAssumption
      <4> QED
        BY <3>2, <4>1 DEF Probabilities
    <3>4. /\ tm = [i \in DOMAIN local |-> tm[i]]
          /\ ta = [i \in DOMAIN local |-> ta[i]]
          /\ tb = [i \in DOMAIN local |-> tb[i]]
      OBVIOUS
    <3>5. \A i \in DOMAIN local :
            /\ tm[i] = <<>> \/ \E b : tm[i] = <<b>> /\ b.outcome = local[i].outcome
            /\ ta[i] = <<>> \/ \E b : ta[i] = <<b>> /\ b.outcome = local[i].outcome
            /\ tb[i] = <<>> \/ \E b : tb[i] = <<b>> /\ b.outcome = local[i].outcome
      BY TriedIs
    <3>6. ASSUME NEW i \in DOMAIN local
          PROVE  /\ tm[i] # <<>> <=> Exceeds(settings, Edge(P(i), local[i].odds)) /\ settings.kelly.num > 0
                 /\ ta[i] # <<>> <=> Exceeds(settings, Edge(Q(i), local[i].odds)) /\ settings.kelly.num > 0
                 /\ tb[i] # <<>> <=> tm[i] # <<>> /\ ta[i] # <<>>
      <4> DEFINE p == P(i)
                 q == Q(i)
                 blend == Blend(settings.weight, p, q)
      <4>1. /\ tm[i] = TryBuild(settings, local[i], p, "MARKET")
            /\ ta[i] = TryBuild(settings, local[i], q, "STATISTICAL")
            /\ tb[i] = IF BothAgree(settings, local[i], p, q)
                       THEN TryBuild(settings, local[i], blend, "BOTH") ELSE <<>>
        OBVIOUS
      <4>2. p \in Fractions /\ q \in Fractions /\ local[i].odds \in Odds
        BY <3>2, <3>3
      <4> HIDE DEF p, q, tm, ta, tb
      <4>3. blend \in Fractions
        BY <3>2, <4>2, BlendIs
      <4>4. tm[i] # <<>> <=> Exceeds(settings, Edge(p, local[i].odds)) /\ settings.kelly.num > 0
        BY <3>2, <4>1, <4>2, BetIsBuilt
      <4>5. ta[i] # <<>> <=> Exceeds(settings, Edge(q, local[i].odds)) /\ settings.kelly.num > 0
        BY <3>2, <4>1, <4>2, BetIsBuilt
      <4>6. BothAgree(settings, local[i], p, q) <=>
              Exceeds(settings, Edge(p, local[i].odds)) /\ Exceeds(settings, Edge(q, local[i].odds))
        BY DEF BothAgree
      <4>7. BothAgree(settings, local[i], p, q) => Exceeds(settings, Edge(blend, local[i].odds))
        BY <3>2, <4>2, <4>6, BlendExceeds
      <4> HIDE DEF blend
      <4>8. TryBuild(settings, local[i], blend, "BOTH") # <<>> <=>
              Exceeds(settings, Edge(blend, local[i].odds)) /\ settings.kelly.num > 0
        BY <3>2, <4>2, <4>3, BetIsBuilt
      <4>9. tb[i] # <<>> <=> tm[i] # <<>> /\ ta[i] # <<>>
        BY <4>1, <4>4, <4>5, <4>6, <4>7, <4>8
      <4> QED
        BY <4>4, <4>5, <4>9 DEF p, q
    <3> HIDE DEF tm, ta, tb
    <3>7. /\ ~Priced(tb).raised /\ ~Priced(tm).raised
          /\ Outcomes(Priced(tm)) = {local[i].outcome : i \in {j \in DOMAIN local : tm[j] # <<>>}}
          /\ Outcomes(Priced(ta)) = {local[i].outcome : i \in {j \in DOMAIN local : ta[j] # <<>>}}
          /\ Outcomes(Priced(tb)) = {local[i].outcome : i \in {j \in DOMAIN local : tb[j] # <<>>}}
      <4> HIDE DEF P
      <4>1. local \in Seq(Quotes1X2)
        BY <3>2
      <4>2. TriesOneEach(local, tm)
        BY <3>4, <3>5 DEF TriesOneEach
      <4>3. TriesOneEach(local, ta)
        BY <3>4, <3>5 DEF TriesOneEach
      <4>4. TriesOneEach(local, tb)
        BY <3>4, <3>5 DEF TriesOneEach
      <4>5. KeepsTheBuilt(local, tm) /\ KeepsTheBuilt(local, ta) /\ KeepsTheBuilt(local, tb)
        BY <4>1, <4>2, <4>3, <4>4, PricedKeeps
      <4> QED
        BY <4>5 DEF KeepsTheBuilt
    <3>8. Priced(tb).raised = Priced(tm).raised
      BY DEF Priced
    <3>9. Outcomes(Priced(tb)) \subseteq Outcomes(Priced(tm)) \intersect Outcomes(Priced(ta))
      BY <3>6, <3>7
    <3>10. ASSUME NEW i \in DOMAIN local, NEW j \in DOMAIN local,
                  tm[i] # <<>>, ta[j] # <<>>, local[i].outcome = local[j].outcome
           PROVE  local[i].outcome \in Outcomes(Priced(tb))
      <4>1. P(i) = P(j) /\ Q(i) = Q(j)
        BY <3>10
      <4> HIDE DEF P, Q
      <4>2. /\ Exceeds(settings, Edge(P(i), local[i].odds)) /\ Exceeds(settings, Edge(Q(j), local[j].odds))
            /\ settings.kelly.num > 0
        BY <3>6, <3>10
      <4>3. /\ local[i].odds \in Odds /\ local[j].odds \in Odds
            /\ P(i) \in Fractions /\ Q(j) \in Fractions
        BY <3>2, <3>3
      <4>4. CASE Leq(local[i].odds, local[j].odds)
        <5>1. Exceeds(settings, Edge(P(i), local[j].odds))
          BY <3>2, <4>2, <4>3, <4>4, LongerOddsExceed
        <5>2. tm[j] # <<>>
          BY <3>6, <4>1, <4>2, <5>1
        <5>3. tb[j] # <<>>
          BY <3>6, <3>10, <5>2
        <5> QED
          BY <3>7, <3>10, <5>3
      <4>5. CASE Leq(local[j].odds, local[i].odds)
        <5>1. Exceeds(settings, Edge(Q(j), local[i].odds))
          BY <3>2, <4>2, <4>3, <4>5, LongerOddsExceed
        <5>2. ta[i] # <<>>
          BY <3>6, <4>1, <4>2, <5>1
        <5>3. tb[i] # <<>>
          BY <3>6, <3>10, <5>2
        <5> QED
          BY <3>7, <5>3
      <4> QED
        BY <4>3, <4>4, <4>5, OddsParts, LongerOrNot
    <3>11. Outcomes(Priced(tm)) \intersect Outcomes(Priced(ta)) \subseteq Outcomes(Priced(tb))
      BY <3>7, <3>10
    <3> QED
      BY <3>1, <3>8, <3>9, <3>11 DEF sharp
  <2> QED
    BY <2>2, <2>3
<1> QED
  BY <1>1, OffersAreTyped, PTL

(* As many outcomes as quotes: no outcome has two.                           *)
LEMMA DistinctOutcomes ==
  ASSUME NEW quotes \in Seq(Quotes1X2), Cardinality(Quoted(quotes)) = Len(quotes),
         NEW i \in DOMAIN quotes, NEW j \in DOMAIN quotes, quotes[i].outcome = quotes[j].outcome
  PROVE  i = j
<1> DEFINE n == Len(quotes)
           f == [k \in 1 .. n |-> quotes[k].outcome]
<1>1. n \in Nat /\ DOMAIN quotes = 1 .. n
  OBVIOUS
<1>2. Quoted(quotes) = {quotes[k].outcome : k \in 1 .. n}
  BY <1>1 DEF Quoted
<1>3. IsFiniteSet(1 .. n) /\ Cardinality(1 .. n) = n
  <2> HIDE DEF n
  <2>1. n \in Int /\ 1 \in Int /\ (1 > n => n = 0) /\ n - 1 + 1 = n
    BY <1>1
  <2>2. IsFiniteSet(1 .. n) /\ Cardinality(1 .. n) = IF 1 > n THEN 0 ELSE n - 1 + 1
    BY <2>1, FS_Interval
  <2> QED
    BY <2>1, <2>2
<1> HIDE DEF n
<1>4. f \in Surjection(1 .. n, Quoted(quotes))
  BY <1>2 DEF Surjection
<1> HIDE DEF f
<1>5. f \in Injection(1 .. n, Quoted(quotes))
  BY <1>3, <1>4, FS_Surjection DEF n
<1>6. f[i] = f[j] /\ i \in 1 .. n /\ j \in 1 .. n
  BY <1>1 DEF f
<1> QED
  BY <1>5, <1>6 DEF Injection, IsInjective

(* A probability no larger than the inverse of the sharp odds only gains at  *)
(* longer odds.                                                              *)
LEMMA GainNeedsLongerOdds ==
  ASSUME NEW p \in Fractions, NEW sharp \in Odds, NEW odds \in Odds,
         Leq(p, Frac(sharp.den, sharp.num)), Gain(p, odds) > 0
  PROVE  Less(sharp, odds)
<1> DEFINE a == p.num
           b == p.den
           o == odds.num
           e == odds.den
           r == sharp.num
           s == sharp.den
<1>1. /\ a \in Int /\ b \in Positive /\ o \in Positive /\ e \in Positive
      /\ r \in Positive /\ s \in Positive
  BY FractionParts, OddsParts
<1>2. a * r <= s * b
  BY FracParts DEF Leq
<1>3. a * o - b * e > 0
  BY DEF Gain
<1> HIDE DEF a, b, o, e, r, s
<1>4. /\ a * o \in Int /\ b * e \in Int /\ a * r \in Int /\ s * b \in Int
      /\ r * e \in Int /\ o * s \in Int
  BY <1>1, Products DEF Positive
<1>5. r * (b * e) < r * (a * o)
  <2> DEFINE left == b * e
             right == a * o
  <2>1. left \in Int /\ right \in Int /\ left < right
    BY <1>3, <1>4
  <2> HIDE DEF left, right
  <2>2. r * left < r * right
    BY <1>1, <2>1 DEF Positive
  <2> QED
    BY <2>2 DEF left, right
<1>6. o * (a * r) <= o * (s * b)
  <2> DEFINE left == a * r
             right == s * b
  <2>1. left \in Int /\ right \in Int /\ left <= right
    BY <1>2, <1>4
  <2> HIDE DEF left, right
  <2>2. o * left <= o * right
    BY <1>1, <2>1 DEF Positive
  <2> QED
    BY <2>2 DEF left, right
<1>7. /\ r * (b * e) = b * (r * e) /\ r * (a * o) = o * (a * r) /\ o * (s * b) = b * (o * s)
      /\ r * (b * e) \in Int /\ r * (a * o) \in Int /\ b * (o * s) \in Int
  BY <1>1, Products DEF Positive
<1>8. r * e < o * s
  <2> DEFINE left == r * e
             right == o * s
  <2>1. left \in Int /\ right \in Int /\ b * left < b * right
    BY <1>4, <1>5, <1>6, <1>7
  <2> HIDE DEF left, right
  <2>2. left < right
    BY <1>1, <2>1 DEF Positive
  <2> QED
    BY <2>2 DEF left, right
<1> QED
  BY <1>8 DEF Less, r, e, o, s

(* For any margin, strategy and quotes, a bet of the market model is at      *)
(* longer odds than the sharp book's.                                        *)
THEOREM ValueIsAboveTheSharpPrice == Spec => []ValueBeatsTheSharpPrice
<1>1. OffersInv => ValueBeatsTheSharpPrice
  <2> DEFINE sharp == SharpQuotes(payload)
  <2> SUFFICES ASSUME OffersInv, Mapped,
                      Cardinality(Quoted(sharp)) = Len(sharp), Leq(One, Total(sharp)),
                      NEW local \in LocalGroups,
                      NEW i \in DOMAIN MarketDetect(settings, sharp, local).bets,
                      NEW j \in DOMAIN sharp,
                      MarketDetect(settings, sharp, local).bets[i].outcome = sharp[j].outcome
               PROVE  Less(sharp[j].odds, MarketDetect(settings, sharp, local).bets[i].odds)
    BY DEF ValueBeatsTheSharpPrice
  <2> DEFINE P(k) == FairProbability(settings.strategy, sharp, local[k].outcome)
             tm == [k \in DOMAIN local |-> TryBuild(settings, local[k], P(k), "MARKET")]
  <2>1. sharp \in Seq(Quotes1X2) /\ settings \in Settings
    BY SharpQuotesAreQuotes DEF OffersInv, Mapped
  <2>2. ~Uncoverable(settings, sharp, local)
    BY DEF MarketDetect, Raised
  <2>3. MarketDetect(settings, sharp, local) = Priced(tm)
    BY <2>2 DEF MarketDetect
  <2> HIDE DEF sharp
  <2>4. /\ Config(settings) /\ local \in Seq(Quotes1X2)
        /\ \A k \in DOMAIN local : /\ local[k].odds \in Odds /\ local[k].outcome \in Quoted(sharp)
                                   /\ P(k) \in Fractions
    BY <2>1, <2>2, MarketIsPriced
  <2>5. tm = [k \in DOMAIN local |-> tm[k]]
    OBVIOUS
  <2>6. \A k \in DOMAIN local : tm[k] = TryBuild(settings, local[k], P(k), "MARKET")
    OBVIOUS
  <2>7. \A k \in DOMAIN local : tm[k] = <<>> \/ \E b : tm[k] = <<b>> /\ b.outcome = local[k].outcome
    BY <2>6, TriedIs
  <2> HIDE DEF P, tm
  <2>8. PICK k \in DOMAIN local : tm[k] # <<>> /\ Priced(tm).bets[i] = tm[k][1]
    <3>1. i \in DOMAIN Priced(tm).bets
      BY <2>3
    <3> QED
      BY <2>4, <2>5, <2>7, <3>1, PricedIs
  <2>9. tm[k][1].outcome = local[k].outcome /\ tm[k][1].odds = local[k].odds
    BY <2>6, <2>8, BetIs
  <2>10. local[k].outcome = sharp[j].outcome
    BY <2>3, <2>8, <2>9
  <2>11. P(k) \in Fractions /\ local[k].odds \in Odds /\ local[k].odds \in Fractions
    BY <2>4, OddsParts
  <2>12. Gain(P(k), local[k].odds) > 0
    <3>1. Exceeds(settings, Edge(P(k), local[k].odds))
      BY <2>4, <2>6, <2>8, <2>11, BetIsBuilt
    <3> QED
      BY <2>4, <2>11, <3>1, ExceedsIsAGain
  <2>13. PICK m \in DOMAIN sharp : /\ sharp[m].outcome = local[k].outcome
                                   /\ P(k) = Devig(settings.strategy, sharp)[m]
    BY <2>1, <2>4, FairIs DEF P
  <2>14. m = j
    BY <2>1, <2>10, <2>13, DistinctOutcomes
  <2>15. Leq(P(k), Raw(sharp)[j])
    BY <2>1, <2>13, <2>14, DevigIs
  <2>16. sharp[j].odds \in Odds /\ Raw(sharp)[j] = Frac(sharp[j].odds.den, sharp[j].odds.num)
    BY <2>1, RawIs
  <2>17. Less(sharp[j].odds, local[k].odds)
    BY <2>11, <2>12, <2>15, <2>16, GainNeedsLongerOdds
  <2> QED
    BY <2>3, <2>8, <2>9, <2>17
<1> QED
  BY <1>1, OffersAreTyped, PTL

-----------------------------------------------------------------------------
(* The rate of a player *)

Outings == [started : BOOLEAN, minutes : Nat, count : Nat]
Sums == [weight : Fractions, total : Fractions, rates : Fractions]

LEMMA TimesTyped ==
  ASSUME NEW p \in Fractions, NEW q \in Fractions
  PROVE  Times(p, q) \in Fractions
<1>1. p.num \in Int /\ p.den \in Positive /\ q.num \in Int /\ q.den \in Positive
  BY FractionParts
<1>2. p.num * q.num \in Int /\ p.den * q.den \in Positive
  BY <1>1, Products
<1> QED
  BY <1>2, FracTyped DEF Times

LEMMA PlusTyped ==
  ASSUME NEW p \in Fractions, NEW q \in Fractions
  PROVE  Plus(p, q) \in Fractions
<1>1. p.num \in Int /\ p.den \in Positive /\ q.num \in Int /\ q.den \in Positive
  BY FractionParts
<1>2. Plus(p, q) = Frac(p.num * q.den + q.num * p.den, p.den * q.den)
  BY DEF Plus
<1> DEFINE a == p.num * q.den
           b == q.num * p.den
<1>3. a \in Int /\ b \in Int /\ p.den * q.den \in Positive
  BY <1>1, Products DEF Positive
<1> HIDE DEF a, b
<1>4. a + b \in Int
  BY <1>3
<1> QED
  BY <1>2, <1>3, <1>4, FracTyped DEF a, b

(* A match adds to the sums if the player appeared in it.                    *)
LEMMA WeighTyped ==
  ASSUME NEW x \in Sums, NEW h \in Outings
  PROVE  Weigh(x, h) \in Sums
<1>1. x.weight \in Fractions /\ x.total \in Fractions /\ x.rates \in Fractions
  BY DEF Sums
<1>2. CASE h.minutes = 0
  BY <1>2 DEF Weigh
<1>3. CASE h.minutes # 0
  <2> DEFINE w == Times(x.weight, Minus(One, Alpha))
             t == Plus(x.total, x.weight)
             r == Plus(x.rates, Times(x.weight, PerMatch(h)))
  <2>1. Weigh(x, h) = [weight |-> Reduced(w), total |-> Reduced(t), rates |-> Reduced(r)]
    BY <1>3 DEF Weigh
  <2>2. Alpha \in Fractions /\ FullMatch \in Fractions /\ One \in Fractions
    BY HistoryAssumption, OneIsAProbability DEF Probabilities
  <2>3. w \in Fractions
    BY <1>1, <2>2, DifferenceIs, TimesTyped
  <2>4. t \in Fractions
    BY <1>1, PlusTyped
  <2>5. h.count \in Int /\ h.minutes \in Positive
    BY <1>3 DEF Outings, Positive
  <2>6. PerMatch(h) \in Fractions
    BY <2>2, <2>5, FracTyped, TimesTyped DEF PerMatch
  <2>7. r \in Fractions
    BY <1>1, <2>6, TimesTyped, PlusTyped
  <2> HIDE DEF w, t, r
  <2>8. Reduced(w) \in Fractions /\ Reduced(t) \in Fractions /\ Reduced(r) \in Fractions
    BY <2>3, <2>4, <2>7, ReducedIs
  <2> QED
    BY <2>1, <2>8 DEF Sums
<1> QED
  BY <1>2, <1>3

Start == [weight |-> One, total |-> Zero, rates |-> Zero]
Weighing(k, history, g) ==
  [n \in 0 .. k |-> IF n = 0 THEN Start ELSE Weigh(g[n - 1], history[n])]
Weighed(k, history) == CHOOSE g : g = Weighing(k, history, g)

LEMMA RateIsWeighed ==
  ASSUME NEW history
  PROVE  LET last == Weighed(Len(history), history)[Len(history)]
         IN  RatePerMatch(history) = Over(last.rates, last.total)
  BY DEF RatePerMatch, Weighed, Weighing, Start

LEMMA WeighedTyped ==
  ASSUME NEW k \in Nat, NEW history, \A n \in 1 .. k : history[n] \in Outings
  PROVE  Weighed(k, history)[k] \in Sums
<1> DEFINE step == [x \in Sums \X (1 .. k) |-> Weigh(x[1], history[x[2]])]
<1>1. Start \in Sums
  <2>1. One \in Fractions /\ Zero \in Fractions
    BY FracTyped, OneIsAProbability DEF Zero, Positive
  <2> QED
    BY <2>1 DEF Start, Sums
<1>2. step \in Steps(k, Sums)
  <2>1. \A x \in Sums \X (1 .. k) : Weigh(x[1], history[x[2]]) \in Sums
    BY WeighTyped
  <2> QED
    BY <2>1 DEF Steps
<1>3. \A x \in Sums : \A n \in 1 .. k : step[<<x, n>>] = Weigh(x, history[n])
  OBVIOUS
<1> HIDE DEF step
<1>4. PICK f \in [0 .. k -> Sums] : f[0] = Start /\ \A n \in 1 .. k : f[n] = step[<<f[n - 1], n>>]
  <2>1. Traces(k, Sums, Start, step) # {}
    BY <1>1, <1>2, LoopRuns
  <2> QED
    BY <2>1 DEF Traces
<1>5. f = Weighing(k, history, f)
  <2>1. \A n \in 1 .. k : n - 1 \in 0 .. k /\ n # 0
    OBVIOUS
  <2>2. \A n \in 1 .. k : f[n] = Weigh(f[n - 1], history[n])
    BY <1>3, <1>4, <2>1
  <2>3. \A n \in 0 .. k : n = 0 \/ n \in 1 .. k
    OBVIOUS
  <2>4. f = [n \in 0 .. k |-> f[n]]
    OBVIOUS
  <2> QED
    BY <1>4, <2>2, <2>3, <2>4 DEF Weighing
<1> DEFINE g == Weighed(k, history)
<1>6. g = Weighing(k, history, g)
  BY <1>5 DEF Weighed
<1> HIDE DEF g
<1>7. \A n \in 0 .. k : g[n] = IF n = 0 THEN Start ELSE Weigh(g[n - 1], history[n])
  <2>1. \A n \in 0 .. k :
          Weighing(k, history, g)[n] = IF n = 0 THEN Start ELSE Weigh(g[n - 1], history[n])
    BY DEF Weighing
  <2> QED
    BY <1>6, <2>1
<1> DEFINE X == {n \in 0 .. k : g[n] \in Sums}
<1>8. 0 \in X
  BY <1>1, <1>7
<1>9. \A n \in 0 .. k - 1 : n \in X => n + 1 \in X
  <2> SUFFICES ASSUME NEW n \in 0 .. k - 1, n \in X PROVE n + 1 \in X
    OBVIOUS
  <2>1. n + 1 \in 0 .. k /\ n + 1 \in 1 .. k /\ n + 1 # 0 /\ (n + 1) - 1 = n
    OBVIOUS
  <2>2. g[n + 1] = Weigh(g[n], history[n + 1])
    BY <1>7, <2>1
  <2> QED
    BY <2>1, <2>2, WeighTyped
<1>10. \A n \in 0 .. k : n \in X
  <2> HIDE DEF X
  <2> QED
    BY <1>8, <1>9, IntervalInduction
<1> QED
  BY <1>10 DEF g

LEMMA RateIs ==
  ASSUME NEW history \in Seq(Outings)
  PROVE  RatePerMatch(history).num \in Int /\ RatePerMatch(history).den \in Int
<1> DEFINE k == Len(history)
           last == Weighed(k, history)[k]
<1>1. k \in Nat /\ \A n \in 1 .. k : history[n] \in Outings
  OBVIOUS
<1>2. RatePerMatch(history) = Over(last.rates, last.total)
  BY RateIsWeighed
<1> HIDE DEF k
<1>3. last \in Sums
  BY <1>1, WeighedTyped
<1>4. last.rates \in Fractions /\ last.total \in Fractions
  BY <1>3 DEF Sums
<1> HIDE DEF last
<1>5. last.rates.num * last.total.den \in Int /\ last.rates.den * last.total.num \in Int
  BY <1>4, FractionParts, Products
<1> QED
  BY <1>2, <1>5, FracParts DEF Over

-----------------------------------------------------------------------------
(* Certainty *)

LEMMA CertainProduct ==
  ASSUME NEW p \in Probabilities, NEW q \in Probabilities, Same(Times(p, q), One)
  PROVE  p.num = p.den /\ q.num = q.den
<1> DEFINE a == p.num
           b == p.den
           c == q.num
           d == q.den
<1>1. p \in Fractions /\ IsProbability(p) /\ q \in Fractions /\ IsProbability(q)
  BY DEF Probabilities
<1>2. /\ a \in Int /\ b \in Int /\ 0 <= a /\ a <= b /\ 0 < b
      /\ c \in Int /\ d \in Int /\ 0 <= c /\ c <= d /\ 0 < d
  BY <1>1, FractionParts, ProbabilityParts
<1>3. (a * c) * 1 = 1 * (b * d)
  BY FracParts DEF Same, Times, One
<1> HIDE DEF a, b, c, d
<1>4. \A x, y, z \in Int : 0 <= z /\ x <= y => x * z <= y * z /\ z * x <= z * y
  OBVIOUS
<1>5. \A x, y, z \in Int : 0 < z /\ x < y => x * z < y * z /\ z * x < z * y
  OBVIOUS
<1>6. a * c \in Int /\ a * d \in Int /\ b * c \in Int /\ b * d \in Int /\ a * c = b * d
  BY <1>2, <1>3
<1>7. a * c <= a * d /\ a * c <= b * c
  BY <1>2, <1>4
<1>8. (a < b => a * d < b * d) /\ (c < d => b * c < b * d)
  BY <1>2, <1>5
<1>9. ~(a < b) /\ ~(c < d)
  BY <1>6, <1>7, <1>8
<1>10. a = b /\ c = d
  BY <1>2, <1>9
<1> QED
  BY <1>10 DEF a, b, c, d

LEMMA PenaltyDiscounts ==
  ASSUME NEW u \in Probabilities, Less(Zero, u)
  PROVE  Minus(One, u).num # Minus(One, u).den
<1>1. u.num \in Int /\ u.den \in Int /\ 0 < u.num
  BY FractionParts, ProbabilityParts DEF Probabilities
<1>2. Minus(One, u).num = 1 * u.den - u.num * 1 /\ Minus(One, u).den = 1 * u.den
  BY FracParts DEF Minus, One
<1> QED
  BY <1>1, <1>2

LEMMA FullConfidence ==
  ASSUME NEW lineup, NEW report, NEW p,
         Less(Zero, UnconfirmedPenalty), Less(Zero, AbsencePenalty),
         Same(Confidence(lineup, report, p), One)
  PROVE  Officially(lineup, p) /\ ~Absent(report, p)
<1> DEFINE x == IF Officially(lineup, p) THEN One ELSE Minus(One, UnconfirmedPenalty)
           y == IF Absent(report, p) THEN Minus(One, AbsencePenalty) ELSE One
<1>1. x \in Probabilities /\ y \in Probabilities
  BY PenaltyAssumption, OneIsAProbability, ComplementIsAProbability
<1>2. Confidence(lineup, report, p) = Times(x, y)
  BY DEF Confidence
<1>3. /\ Minus(One, UnconfirmedPenalty).num # Minus(One, UnconfirmedPenalty).den
      /\ Minus(One, AbsencePenalty).num # Minus(One, AbsencePenalty).den
  BY PenaltyAssumption, PenaltyDiscounts
<1>4. x.num = x.den /\ y.num = y.den
  <2> HIDE DEF x, y
  <2> QED
    BY <1>1, <1>2, CertainProduct
<1>5. CASE ~Officially(lineup, p)
  <2>1. x = Minus(One, UnconfirmedPenalty)
    BY <1>5
  <2> HIDE DEF x, y
  <2> QED
    BY <1>3, <1>4, <2>1
<1>6. CASE Absent(report, p)
  <2>1. y = Minus(One, AbsencePenalty)
    BY <1>6
  <2> HIDE DEF x, y
  <2> QED
    BY <1>3, <1>4, <2>1
<1> QED
  BY <1>5, <1>6

(* A weight of one or of zero takes one side.                                *)
LEMMA BlendOfCertain ==
  ASSUME NEW p \in Fractions, NEW q \in Fractions
  PROVE  /\ Blend(One, p, q).num \in Int /\ Blend(One, p, q).den \in Int
         /\ Blend(Zero, p, q).num \in Int /\ Blend(Zero, p, q).den \in Int
         /\ Same(Blend(One, p, q), p) /\ Same(Blend(Zero, p, q), q)
<1> DEFINE a == p.num
           b == p.den
           c == q.num
           d == q.den
<1>1. a \in Int /\ b \in Int /\ c \in Int /\ d \in Int
  BY FractionParts
<1>2. /\ Blend(One, p, q).num = 1 * a * d + (1 - 1) * c * b
      /\ Blend(One, p, q).den = 1 * b * d
      /\ Blend(Zero, p, q).num = 0 * a * d + (1 - 0) * c * b
      /\ Blend(Zero, p, q).den = 1 * b * d
  BY FracParts DEF Blend, One, Zero
<1> HIDE DEF a, b, c, d
<1>3. a * d \in Int /\ c * b \in Int /\ b * d \in Int
  BY <1>1
<1>4. /\ 1 * a * d + (1 - 1) * c * b = a * d /\ 1 * b * d = b * d
      /\ 0 * a * d + (1 - 0) * c * b = c * b
  BY <1>1
<1>5. (a * d) * b = a * (b * d) /\ (c * b) * d = c * (b * d)
  BY <1>1
<1> QED
  BY <1>2, <1>3, <1>4, <1>5 DEF Same, a, b, c, d

(* A rate over a share of a full match is the rate over the minutes.         *)
LEMMA RateOverMinutes ==
  ASSUME NEW rate, rate.num \in Int, rate.den \in Int,
         NEW expected, expected.num \in Int, expected.den \in Int,
         NEW full \in Fractions, NEW minutes \in Fractions, Same(expected, minutes)
  PROVE  Same(Times(Times(rate, Over(expected, full)), full), Times(rate, minutes))
<1> DEFINE r == rate.num
           s == rate.den
           e == expected.num
           d == expected.den
           f == full.num
           g == full.den
           m == minutes.num
           n == minutes.den
<1>1. /\ r \in Int /\ s \in Int /\ e \in Int /\ d \in Int /\ f \in Int /\ g \in Int
      /\ m \in Int /\ n \in Int
  BY FractionParts
<1>2. e * n = m * d
  BY DEF Same
<1>3. /\ Times(Times(rate, Over(expected, full)), full).num = (r * (e * g)) * f
      /\ Times(Times(rate, Over(expected, full)), full).den = (s * (d * f)) * g
      /\ Times(rate, minutes).num = r * m /\ Times(rate, minutes).den = s * n
  <2>1. \A x, y : Times(x, y).num = x.num * y.num /\ Times(x, y).den = x.den * y.den
    BY FracParts DEF Times
  <2>2. Over(expected, full).num = e * g /\ Over(expected, full).den = d * f
    BY FracParts DEF Over
  <2> QED
    BY <2>1, <2>2
<1> HIDE DEF r, s, e, d, f, g, m, n
<1> DEFINE u == (r * g) * (f * s)
<1>4. u \in Int
  BY <1>1
<1>5. ((r * (e * g)) * f) * (s * n) = u * (e * n)
  BY <1>1
<1>6. (r * m) * ((s * (d * f)) * g) = u * (m * d)
  BY <1>1
<1>7. ((r * (e * g)) * f) * (s * n) = (r * m) * ((s * (d * f)) * g)
  <2> HIDE DEF u
  <2> QED
    BY <1>2, <1>5, <1>6
<1> QED
  BY <1>3, <1>7 DEF Same

-----------------------------------------------------------------------------
(* The last word on a player *)

LEMMA LatestIs ==
  ASSUME NEW k \in Nat, NEW list, NEW hits, hits \subseteq 1 .. k, hits # {}
  PROVE  Max(hits) \in hits /\ Latest(list, hits) = {list[Max(hits)]}
<1>1. Max(hits) \in hits /\ \A i \in hits : i <= Max(hits)
  BY MaxIsLargest
<1>2. \A j \in hits : (\A i \in hits : i <= j) <=> j = Max(hits)
  <2>0. \A i \in hits : i \in Int
    OBVIOUS
  <2> TAKE j \in hits
  <2>1. j \in Int /\ Max(hits) \in Int
    BY <1>1, <2>0
  <2>2. (\A i \in hits : i <= j) => j = Max(hits)
    BY <1>1, <2>1
  <2> QED
    BY <1>1, <2>2
<1>3. {j \in hits : \A i \in hits : i <= j} = {Max(hits)}
  BY <1>1, <1>2
<1> QED
  BY <1>1, <1>3 DEF Latest

LEMMA LatestOfNone ==
  ASSUME NEW list
  PROVE  Latest(list, {}) = {}
  BY DEF Latest

LEMMA ReadAsFit ==
  ASSUME NEW raw, StatusOfText(raw) # "unknown",
         StatusOfText(raw) \notin {"DOUBTFUL", "INJURED", "SUSPENDED"}
  PROVE  raw = "fit"
  BY DEF StatusOfText

-----------------------------------------------------------------------------
(* Full confidence *)

(* Full confidence is earned by what the lineup and the report say.          *)
LEMMA Evidence ==
  ASSUME NEW lineup \in Received, NEW p \in Players,
         Less(Zero, UnconfirmedPenalty), Less(Zero, AbsencePenalty),
         Same(Confidence(lineup, lineup.report, p), One)
  PROVE  LET own == {i \in DOMAIN lineup.entries : lineup.entries[i].player = p}
             read == {i \in InjuryStatuses(lineup.report) : lineup.report[i].player = p}
         IN  /\ lineup.official /\ own # {}
             /\ read # {} => lineup.report[Max(read)].status = "fit"
             /\ Same(Times(ExpectedCount(lineup, p), FullMatch),
                     Times(RatePerMatch(History[p]),
                           IF lineup.entries[Max(own)].starting THEN FullMatch ELSE BenchMinutes))
<1> DEFINE own == {i \in DOMAIN lineup.entries : lineup.entries[i].player = p}
           read == {i \in InjuryStatuses(lineup.report) : lineup.report[i].player = p}
           e == lineup.entries[Max(own)]
           minutes == IF e.starting THEN FullMatch ELSE BenchMinutes
<1>1. \E k, m \in Nat : DOMAIN lineup.entries = 1 .. k /\ DOMAIN lineup.report = 1 .. m
  <2>1. lineup.entries \in Seq(LineupEntries) /\ lineup.report \in Seq(InjuryEntries(STRING))
    BY DEF Received
  <2>2. /\ Len(lineup.entries) \in Nat /\ DOMAIN lineup.entries = 1 .. Len(lineup.entries)
        /\ Len(lineup.report) \in Nat /\ DOMAIN lineup.report = 1 .. Len(lineup.report)
    BY <2>1
  <2> QED
    BY <2>2
<1>2. PICK k, m \in Nat : DOMAIN lineup.entries = 1 .. k /\ DOMAIN lineup.report = 1 .. m
  BY <1>1
<1>3. own \subseteq 1 .. k /\ read \subseteq 1 .. m /\ read \subseteq InjuryStatuses(lineup.report)
  BY <1>2 DEF InjuryStatuses
<1>4. LineupOf(lineup, p) = Latest(lineup.entries, own) /\ InjuryOf(lineup.report, p) = Latest(lineup.report, read)
  BY DEF LineupOf, InjuryOf
<1>5. Officially(lineup, p) /\ ~Absent(lineup.report, p)
  BY FullConfidence
<1> HIDE DEF own, read
<1>6. lineup.official /\ own # {}
  BY <1>4, <1>5, LatestOfNone DEF Officially
<1>7. LineupOf(lineup, p) = {e}
  <2>1. k \in Nat /\ own \subseteq 1 .. k /\ own # {}
    BY <1>3, <1>6
  <2>2. Latest(lineup.entries, own) = {lineup.entries[Max(own)]}
    BY <2>1, LatestIs
  <2> QED
    BY <1>4, <2>2
<1>8. read # {} => lineup.report[Max(read)].status = "fit"
  <2> SUFFICES ASSUME read # {} PROVE lineup.report[Max(read)].status = "fit"
    OBVIOUS
  <2>0. m \in Nat /\ read \subseteq 1 .. m
    BY <1>3
  <2>1. Max(read) \in read /\ InjuryOf(lineup.report, p) = {lineup.report[Max(read)]}
    <3>1. Max(read) \in read /\ Latest(lineup.report, read) = {lineup.report[Max(read)]}
      BY <2>0, LatestIs
    <3> QED
      BY <1>4, <3>1
  <2> DEFINE raw == lineup.report[Max(read)].status
  <2>2. StatusOfText(raw) # "unknown"
    BY <1>3, <2>1 DEF InjuryStatuses
  <2>3. StatusOfText(raw) \notin {"DOUBTFUL", "INJURED", "SUSPENDED"}
    BY <1>5, <2>1 DEF Absent
  <2> QED
    BY <2>2, <2>3, ReadAsFit
<1> HIDE DEF e
<1>9. Same(Times(ExpectedCount(lineup, p), FullMatch), Times(RatePerMatch(History[p]), minutes))
  <2>1. FullMatch \in Fractions /\ BenchMinutes \in Fractions /\ History[p] \in Seq(Outings)
    BY HistoryAssumption DEF Outings
  <2>2. (CHOOSE x \in LineupOf(lineup, p) : TRUE) = e
    BY <1>7
  <2>3. StartProbability(lineup.official, e) = IF e.starting THEN One ELSE Zero
    BY <1>6 DEF StartProbability
  <2>4. ExpectedMinutes(lineup, p) = IF e.starting THEN Blend(One, FullMatch, BenchMinutes)
                                     ELSE Blend(Zero, FullMatch, BenchMinutes)
    BY <1>7, <2>2, <2>3 DEF ExpectedMinutes
  <2>5. /\ ExpectedMinutes(lineup, p).num \in Int /\ ExpectedMinutes(lineup, p).den \in Int
        /\ Same(ExpectedMinutes(lineup, p), minutes) /\ minutes \in Fractions
    BY <2>1, <2>4, BlendOfCertain
  <2>6. RatePerMatch(History[p]).num \in Int /\ RatePerMatch(History[p]).den \in Int
    BY <2>1, RateIs
  <2> HIDE DEF minutes
  <2> QED
    BY <2>1, <2>5, <2>6, RateOverMinutes DEF ExpectedCount
<1> QED
  BY <1>6, <1>8, <1>9 DEF own, read, e, minutes

(* The player who is priced is one that the payload names.                   *)
LEMMA PricedPlayer ==
  ASSUME NEW lineup \in Received, NEW name, NEW p \in Resolved(lineup, lineup.report, name)
  PROVE  p \in Players
<1>1. /\ \A i \in DOMAIN lineup.entries : lineup.entries[i].player \in Players
      /\ \A i \in DOMAIN lineup.report : lineup.report[i].player \in Players
  <2>1. lineup.entries \in Seq(LineupEntries) /\ lineup.report \in Seq(InjuryEntries(STRING))
    BY DEF Received
  <2>2. (\A x \in LineupEntries : x.player \in Players) /\ \A x \in InjuryEntries(STRING) : x.player \in Players
    BY DEF LineupEntries, InjuryEntries
  <2>3. \A T, s : s \in Seq(T) => \A i \in DOMAIN s : s[i] \in T
    OBVIOUS
  <2> QED
    BY <2>1, <2>2, <2>3
<1>2. \A list, hits : \A x \in Latest(list, hits) : \E i \in hits : x = list[i]
  BY DEF Latest
<1> DEFINE injured == {i \in InjuryStatuses(lineup.report) : Name[lineup.report[i].player] = name}
           listed == {i \in DOMAIN lineup.entries : Name[lineup.entries[i].player] = name}
<1>3. injured \subseteq DOMAIN lineup.report /\ listed \subseteq DOMAIN lineup.entries
  BY DEF InjuryStatuses
<1>4. PICK x \in IF injured # {} THEN Latest(lineup.report, injured) ELSE Latest(lineup.entries, listed) :
        p = x.player
  BY DEF Resolved
<1> HIDE DEF injured, listed
<1>5. (\E i \in injured : x = lineup.report[i]) \/ (\E i \in listed : x = lineup.entries[i])
  BY <1>2, <1>4
<1> QED
  BY <1>1, <1>3, <1>4, <1>5

(* A prop at full confidence is backed by an official lineup and by the last *)
(* readable report, and its count is expected over the minutes they imply.   *)
THEOREM FullConfidenceIsEarned == Spec => []FullConfidenceNeedsEvidence
<1>1. OffersInv => FullConfidenceNeedsEvidence
  <2> SUFFICES ASSUME OffersInv, topic = "prop",
                      Less(Zero, UnconfirmedPenalty), Less(Zero, AbsencePenalty),
                      NEW prop \in PropMarkets, NEW priced \in PricedProps(settings, prop, Half),
                      Same(priced.confidence, One)
               PROVE  LET own == {i \in DOMAIN payload.entries : payload.entries[i].player = priced.player}
                          read == {i \in InjuryStatuses(payload.report) : payload.report[i].player = priced.player}
                      IN  /\ payload.official /\ own # {}
                          /\ read # {} => payload.report[Max(read)].status = "fit"
                          /\ Same(Times(priced.expected, FullMatch),
                                  Times(RatePerMatch(History[priced.player]),
                                        IF payload.entries[Max(own)].starting THEN FullMatch ELSE BenchMinutes))
    BY DEF FullConfidenceNeedsEvidence
  <2>1. payload \in Received
    BY DEF OffersInv
  <2>2. PICK p \in Resolved(payload, payload.report, prop.name) :
          /\ priced.player = p /\ priced.confidence = Confidence(payload, payload.report, p)
          /\ priced.expected = ExpectedCount(payload, p)
    BY DEF PricedProps, PriceProp
  <2>3. p \in Players
    BY <2>1, <2>2, PricedPlayer
  <2>4. Same(Confidence(payload, payload.report, p), One)
    BY <2>2
  <2> QED
    BY <2>1, <2>2, <2>3, <2>4, Evidence
<1> QED
  BY <1>1, OffersAreTyped, PTL

-----------------------------------------------------------------------------
(* Induction over finite sets, on sets of sets rather than on predicates.    *)
(* This section and the next are those of CalibrationProofs, whose constants *)
(* and variables are not those of Offers.                                    *)

LEMMA MinimalSubset ==
  ASSUME NEW S, IsFiniteSet(S), NEW X, X \subseteq SUBSET S, X # {}
  PROVE  \E m \in X : \A t \in X : t \subseteq m => t = m
<1>1. IsWellFoundedOn(StrictSubsetOrdering(S), SUBSET S)
  BY FS_StrictSubsetOrderingWellFounded, FS_FiniteSubsetsOfFinite
<1>2. PICK m \in X : \A t \in X : <<t, m>> \notin StrictSubsetOrdering(S)
  BY <1>1, WFMin
<1>3. \A t \in X : t \subseteq m => t = m
  BY <1>2 DEF StrictSubsetOrdering
<1> QED
  BY <1>3

LEMMA SubsetInduction ==
  ASSUME NEW S, IsFiniteSet(S), NEW X, {} \in X,
         \A T \in SUBSET S : \A x \in S \ T : T \in X => T \union {x} \in X
  PROVE  S \in X
<1> SUFFICES ASSUME S \notin X PROVE FALSE
  OBVIOUS
<1> DEFINE bad == {T \in SUBSET S : T \notin X}
<1>1. bad \subseteq SUBSET S /\ bad # {}
  OBVIOUS
<1>2. PICK m \in bad : \A t \in bad : t \subseteq m => t = m
  <2> HIDE DEF bad
  <2> QED
    BY <1>1, MinimalSubset
<1>3. PICK x \in m : TRUE
  BY <1>2
<1>4. m \ {x} \notin bad
  BY <1>2, <1>3
<1>5. m \ {x} \in X /\ x \in S \ (m \ {x})
  BY <1>2, <1>3, <1>4
<1>6. (m \ {x}) \union {x} = m
  BY <1>3
<1>7. m \ {x} \in SUBSET S
  BY <1>2
<1>8. (m \ {x}) \union {x} \in X
  BY <1>5, <1>7
<1> QED
  BY <1>2, <1>6, <1>8

-----------------------------------------------------------------------------
(* Sums: SumFunctionOnSet without the order in which it takes the elements. *)

Pick(s) == CHOOSE x \in s : TRUE
TakingOne(f, S, g) == [s \in SUBSET S |-> IF s = {} THEN 0 ELSE f[Pick(s)] + g[s \ {Pick(s)}]]
Totalled(f, S) == CHOOSE g : g = TakingOne(f, S, g)

LEMMA SumIsTotalled ==
  ASSUME NEW f, NEW S
  PROVE  SumFunctionOnSet(f, S) = Totalled(f, S)[S]
  BY DEF SumFunctionOnSet, FoldFunctionOnSet, MapThenFoldSet, Totalled, TakingOne, Pick

LEMMA TotalledExists ==
  ASSUME NEW f, NEW S, IsFiniteSet(S)
  PROVE  \E g : g = TakingOne(f, S, g)
<1> DEFINE Step(g) == [s \in SUBSET S |-> IF s = {} THEN 0 ELSE f[Pick(s)] + g[s \ {Pick(s)}]]
           upTo == {U \in SUBSET S : \E g : \A s \in SUBSET S :
                      Cardinality(s) <= Cardinality(U) => g[s] = Step(g)[s]}
<1>1. \A s \in SUBSET S : IsFiniteSet(s) /\ Cardinality(s) \in Nat /\ Cardinality(s) <= Cardinality(S)
  BY FS_Subset, FS_CardinalityType
<1>2. {} \in upTo
  <2>1. Cardinality({}) = 0
    BY FS_EmptySet
  <2> DEFINE g == [s \in SUBSET S |-> 0]
  <2>2. ASSUME NEW s \in SUBSET S, Cardinality(s) <= 0
        PROVE  g[s] = Step(g)[s]
    BY <1>1, <2>2, FS_EmptySet
  <2> QED
    BY <2>1, <2>2
<1>3. ASSUME NEW T \in SUBSET S, NEW x \in S \ T, T \in upTo
      PROVE  T \union {x} \in upTo
  <2>1. PICK g : \A s \in SUBSET S : Cardinality(s) <= Cardinality(T) => g[s] = Step(g)[s]
    BY <1>3
  <2>2. Cardinality(T \union {x}) = Cardinality(T) + 1
    BY <1>1, FS_AddElement
  <2> DEFINE h == Step(g)
  <2>3. ASSUME NEW s \in SUBSET S, Cardinality(s) <= Cardinality(T) + 1
        PROVE  h[s] = Step(h)[s]
    <3>1. CASE s = {}
      BY <3>1
    <3>2. CASE s # {}
      <4> DEFINE r == s \ {Pick(s)}
      <4>1. Pick(s) \in s
        BY <3>2 DEF Pick
      <4>2. r \in SUBSET S /\ Cardinality(r) = Cardinality(s) - 1
        BY <1>1, <4>1, FS_RemoveElement
      <4>3. Cardinality(r) <= Cardinality(T)
        BY <1>1, <2>3, <4>2
      <4>4. g[r] = h[r]
        BY <2>1, <4>2, <4>3
      <4>5. h[s] = f[Pick(s)] + g[r] /\ Step(h)[s] = f[Pick(s)] + h[r]
        BY <3>2
      <4> QED
        BY <4>4, <4>5
    <3> QED
      BY <3>1, <3>2
  <2> HIDE DEF h
  <2>4. \E e : \A s \in SUBSET S : Cardinality(s) <= Cardinality(T) + 1 => e[s] = Step(e)[s]
    BY <2>3
  <2>5. T \union {x} \in SUBSET S
    OBVIOUS
  <2> QED
    BY <2>2, <2>4, <2>5
<1>4. S \in upTo
  <2> HIDE DEF upTo
  <2> QED
    BY <1>2, <1>3, SubsetInduction
<1>5. PICK g : \A s \in SUBSET S : g[s] = Step(g)[s]
  BY <1>1, <1>4
<1>6. \A s \in SUBSET S : s \ {Pick(s)} \in SUBSET S
  OBVIOUS
<1>7. Step(g) = Step(Step(g))
  <2>1. ASSUME NEW s \in SUBSET S PROVE Step(g)[s] = Step(Step(g))[s]
    BY <1>5, <1>6
  <2> QED
    BY <2>1
<1> QED
  BY <1>7 DEF TakingOne

(* The sums of two sets agree where both are defined. *)
LEMMA TotalledStep ==
  ASSUME NEW f, NEW S, IsFiniteSet(S), NEW s \in SUBSET S
  PROVE  Totalled(f, S)[s] = IF s = {} THEN 0 ELSE f[Pick(s)] + Totalled(f, S)[s \ {Pick(s)}]
<1> DEFINE g == Totalled(f, S)
<1>1. g = TakingOne(f, S, g)
  BY TotalledExists DEF Totalled
<1> HIDE DEF g
<1>2. TakingOne(f, S, g)[s] = IF s = {} THEN 0 ELSE f[Pick(s)] + g[s \ {Pick(s)}]
  BY DEF TakingOne
<1>3. g[s] = IF s = {} THEN 0 ELSE f[Pick(s)] + g[s \ {Pick(s)}]
  BY <1>1, <1>2
<1> QED
  BY <1>3 DEF g

LEMMA TotalledAgree ==
  ASSUME NEW f, NEW S, IsFiniteSet(S), NEW T \in SUBSET S
  PROVE  Totalled(f, S)[T] = SumFunctionOnSet(f, T)
<1> DEFINE off == {s \in SUBSET T : Totalled(f, S)[s] # Totalled(f, T)[s]}
<1>1. IsFiniteSet(T)
  BY FS_Subset
<1> SUFFICES ASSUME off # {} PROVE FALSE
  BY SumIsTotalled
<1>2. PICK m \in off : \A t \in off : t \subseteq m => t = m
  <2>1. off \subseteq SUBSET T
    OBVIOUS
  <2> HIDE DEF off
  <2> QED
    BY <1>1, <2>1, MinimalSubset
<1>3. m \in SUBSET T /\ m \in SUBSET S
  BY <1>2
<1>4. m # {}
  BY <1>1, <1>2, <1>3, TotalledStep
<1>5. Pick(m) \in m
  BY <1>4 DEF Pick
<1>6. m \ {Pick(m)} \notin off
  BY <1>2, <1>5
<1>7. Totalled(f, S)[m \ {Pick(m)}] = Totalled(f, T)[m \ {Pick(m)}]
  BY <1>3, <1>6
<1>8. Totalled(f, S)[m] = f[Pick(m)] + Totalled(f, S)[m \ {Pick(m)}]
  BY <1>3, <1>4, TotalledStep
<1>9. Totalled(f, T)[m] = f[Pick(m)] + Totalled(f, T)[m \ {Pick(m)}]
  BY <1>1, <1>3, <1>4, TotalledStep
<1> QED
  BY <1>2, <1>7, <1>8, <1>9

LEMMA SumEmpty ==
  ASSUME NEW f
  PROVE  SumFunctionOnSet(f, {}) = 0
<1>1. IsFiniteSet({})
  BY FS_EmptySet
<1>2. Totalled(f, {})[{}] = 0
  BY <1>1, TotalledStep
<1> QED
  BY <1>2, SumIsTotalled

LEMMA SumPick ==
  ASSUME NEW f, NEW S, IsFiniteSet(S), S # {}
  PROVE  Pick(S) \in S /\ SumFunctionOnSet(f, S) = f[Pick(S)] + SumFunctionOnSet(f, S \ {Pick(S)})
<1>1. Pick(S) \in S
  BY DEF Pick
<1>2. Totalled(f, S)[S] = f[Pick(S)] + Totalled(f, S)[S \ {Pick(S)}]
  BY TotalledStep
<1>3. Totalled(f, S)[S \ {Pick(S)}] = SumFunctionOnSet(f, S \ {Pick(S)})
  BY TotalledAgree
<1> QED
  BY <1>1, <1>2, <1>3, SumIsTotalled

LEMMA SumType ==
  ASSUME NEW f, NEW S, IsFiniteSet(S), \A x \in S : f[x] \in Int
  PROVE  SumFunctionOnSet(f, S) \in Int
<1> DEFINE off == {s \in SUBSET S : SumFunctionOnSet(f, s) \notin Int}
<1> SUFFICES ASSUME off # {} PROVE FALSE
  OBVIOUS
<1>1. PICK m \in off : \A t \in off : t \subseteq m => t = m
  <2>1. off \subseteq SUBSET S
    OBVIOUS
  <2> HIDE DEF off
  <2> QED
    BY <2>1, MinimalSubset
<1>2. IsFiniteSet(m)
  BY <1>1, FS_Subset
<1>3. m # {}
  <2>1. SumFunctionOnSet(f, m) \notin Int
    BY <1>1
  <2>2. SumFunctionOnSet(f, {}) \in Int
    BY SumEmpty
  <2> QED
    BY <2>1, <2>2
<1>4. Pick(m) \in m /\ SumFunctionOnSet(f, m) = f[Pick(m)] + SumFunctionOnSet(f, m \ {Pick(m)})
  BY <1>2, <1>3, SumPick
<1>5. SumFunctionOnSet(f, m \ {Pick(m)}) \in Int
  BY <1>1, <1>4
<1>6. f[Pick(m)] \in Int
  BY <1>1, <1>4
<1>7. SumFunctionOnSet(f, m) \in Int
  BY <1>4, <1>5, <1>6
<1> QED
  BY <1>1, <1>7

(* Any element may be the one that is taken. *)
LEMMA SumRemove ==
  ASSUME NEW f, NEW S, IsFiniteSet(S), \A x \in S : f[x] \in Int, NEW a \in S
  PROVE  SumFunctionOnSet(f, S) = f[a] + SumFunctionOnSet(f, S \ {a})
<1> DEFINE off == {s \in SUBSET S : \E x \in s : SumFunctionOnSet(f, s) # f[x] + SumFunctionOnSet(f, s \ {x})}
<1> SUFFICES ASSUME off # {} PROVE FALSE
  OBVIOUS
<1>1. PICK m \in off : \A t \in off : t \subseteq m => t = m
  <2>1. off \subseteq SUBSET S
    OBVIOUS
  <2> HIDE DEF off
  <2> QED
    BY <2>1, MinimalSubset
<1>2. PICK x \in m : SumFunctionOnSet(f, m) # f[x] + SumFunctionOnSet(f, m \ {x})
  BY <1>1
<1>3. IsFiniteSet(m) /\ m # {} /\ m \in SUBSET S
  BY <1>1, <1>2, FS_Subset
<1> DEFINE c == Pick(m)
           rest == m \ {c, x}
<1>4. c \in m /\ SumFunctionOnSet(f, m) = f[c] + SumFunctionOnSet(f, m \ {c})
  BY <1>3, SumPick
<1>5. x # c
  BY <1>2, <1>4
<1> HIDE DEF c
<1>6. m \ {c} \notin off /\ m \ {x} \notin off
  BY <1>1, <1>2, <1>4
<1>7. (m \ {c}) \ {x} = rest /\ (m \ {x}) \ {c} = rest
  OBVIOUS
<1>8. m \ {c} \in SUBSET S /\ m \ {x} \in SUBSET S /\ x \in m \ {c} /\ c \in m \ {x}
  BY <1>2, <1>3, <1>4, <1>5
<1>9. SumFunctionOnSet(f, m \ {c}) = f[x] + SumFunctionOnSet(f, rest)
  BY <1>6, <1>7, <1>8
<1>10. SumFunctionOnSet(f, m \ {x}) = f[c] + SumFunctionOnSet(f, rest)
  BY <1>6, <1>7, <1>8
<1>11. IsFiniteSet(rest)
  BY <1>3, FS_Subset
<1>12. SumFunctionOnSet(f, rest) \in Int
  BY <1>3, <1>11, SumType
<1>13. f[x] \in Int /\ f[c] \in Int
  BY <1>2, <1>3, <1>4
<1> HIDE DEF rest
<1> QED
  BY <1>2, <1>4, <1>9, <1>10, <1>12, <1>13

LEMMA SumAdd ==
  ASSUME NEW f, NEW S, IsFiniteSet(S), \A x \in S : f[x] \in Int, NEW a, a \notin S, f[a] \in Int
  PROVE  SumFunctionOnSet(f, S \union {a}) = f[a] + SumFunctionOnSet(f, S)
<1>1. IsFiniteSet(S \union {a})
  BY FS_AddElement
<1>2. (S \union {a}) \ {a} = S
  OBVIOUS
<1>3. \A x \in S \union {a} : f[x] \in Int
  OBVIOUS
<1> QED
  BY <1>1, <1>2, <1>3, SumRemove

(* What is apart is summed apart. *)
LEMMA SumApart ==
  ASSUME NEW f, NEW A, NEW B, IsFiniteSet(A), IsFiniteSet(B), A \intersect B = {},
         \A x \in A \union B : f[x] \in Int
  PROVE  SumFunctionOnSet(f, A \union B) = SumFunctionOnSet(f, A) + SumFunctionOnSet(f, B)
<1> DEFINE good == {T \in SUBSET B :
             SumFunctionOnSet(f, A \union T) = SumFunctionOnSet(f, A) + SumFunctionOnSet(f, T)}
<1>0. SumFunctionOnSet(f, A) \in Int
  BY SumType
<1>1. {} \in good
  BY <1>0, SumEmpty
<1>2. ASSUME NEW T \in SUBSET B, NEW x \in B \ T, T \in good
      PROVE  T \union {x} \in good
  <2>1. IsFiniteSet(T) /\ IsFiniteSet(A \union T) /\ (\A y \in A \union T : f[y] \in Int) /\ f[x] \in Int
    BY FS_Subset, FS_Union
  <2>2. x \notin T /\ x \notin A \union T /\ A \union (T \union {x}) = (A \union T) \union {x}
    OBVIOUS
  <2>3. SumFunctionOnSet(f, A \union (T \union {x})) = f[x] + SumFunctionOnSet(f, A \union T)
    <3>1. SumFunctionOnSet(f, (A \union T) \union {x}) = f[x] + SumFunctionOnSet(f, A \union T)
      BY <2>1, <2>2, SumAdd
    <3> QED
      BY <2>2, <3>1
  <2>4. SumFunctionOnSet(f, T \union {x}) = f[x] + SumFunctionOnSet(f, T)
    BY <2>1, <2>2, SumAdd
  <2>5. SumFunctionOnSet(f, T) \in Int
    BY <2>1, SumType
  <2>6. SumFunctionOnSet(f, A \union T) = SumFunctionOnSet(f, A) + SumFunctionOnSet(f, T)
    BY <1>2
  <2>7. SumFunctionOnSet(f, A \union (T \union {x}))
          = SumFunctionOnSet(f, A) + SumFunctionOnSet(f, T \union {x})
    BY <1>0, <2>1, <2>3, <2>4, <2>5, <2>6
  <2>8. T \union {x} \in SUBSET B
    OBVIOUS
  <2> QED
    BY <2>7, <2>8
<1>3. B \in good
  <2> HIDE DEF good
  <2> QED
    BY <1>1, <1>2, SubsetInduction
<1> QED
  BY <1>3

LEMMA SumOfNaturals ==
  ASSUME NEW f, NEW S, IsFiniteSet(S), \A x \in S : f[x] \in Nat
  PROVE  SumFunctionOnSet(f, S) \in Nat
<1> DEFINE good == {T \in SUBSET S : SumFunctionOnSet(f, T) \in Nat}
<1>1. {} \in good
  BY SumEmpty
<1>2. ASSUME NEW T \in SUBSET S, NEW x \in S \ T, T \in good
      PROVE  T \union {x} \in good
  <2>1. IsFiniteSet(T) /\ (\A y \in T : f[y] \in Int) /\ f[x] \in Nat /\ x \notin T
    BY FS_Subset
  <2>2. SumFunctionOnSet(f, T \union {x}) = f[x] + SumFunctionOnSet(f, T)
    BY <2>1, SumAdd
  <2> QED
    BY <1>2, <2>1, <2>2
<1>3. S \in good
  <2> HIDE DEF good
  <2> QED
    BY <1>1, <1>2, SubsetInduction
<1> QED
  BY <1>3

(* A part is no more than the whole. *)
LEMMA SumOfPart ==
  ASSUME NEW f, NEW S, IsFiniteSet(S), \A x \in S : f[x] \in Nat, NEW T, T \subseteq S
  PROVE  SumFunctionOnSet(f, T) \in Nat /\ SumFunctionOnSet(f, T) <= SumFunctionOnSet(f, S)
<1>1. IsFiniteSet(T) /\ IsFiniteSet(S \ T) /\ T \intersect (S \ T) = {} /\ T \union (S \ T) = S
  BY FS_Subset
<1>2. SumFunctionOnSet(f, T) \in Nat /\ SumFunctionOnSet(f, S \ T) \in Nat
  BY <1>1, SumOfNaturals
<1>3. \A x \in T \union (S \ T) : f[x] \in Int
  OBVIOUS
<1>4. SumFunctionOnSet(f, S) = SumFunctionOnSet(f, T) + SumFunctionOnSet(f, S \ T)
  BY <1>1, <1>3, SumApart
<1> QED
  BY <1>2, <1>4

LEMMA SumIsPositive ==
  ASSUME NEW f, NEW S, IsFiniteSet(S), \A x \in S : f[x] \in Nat, NEW x \in S, f[x] > 0
  PROVE  SumFunctionOnSet(f, S) > 0
<1>1. SumFunctionOnSet(f, S) = f[x] + SumFunctionOnSet(f, S \ {x})
  <2>1. \A y \in S : f[y] \in Int
    OBVIOUS
  <2> QED
    BY <2>1, SumRemove
<1>2. SumFunctionOnSet(f, S \ {x}) \in Nat
  BY SumOfPart
<1> QED
  BY <1>1, <1>2

-----------------------------------------------------------------------------
(* Products *)

Multiplying(f, k, g) == [i \in 0 .. k |-> IF i = 0 THEN 1 ELSE f[i] * g[i - 1]]
Multiplied(f, k) == CHOOSE g : g = Multiplying(f, k, g)

LEMMA ProductIsMultiplied ==
  ASSUME NEW f, NEW k
  PROVE  Product(f, k) = Multiplied(f, k)[k]
  BY DEF Product, Multiplied, Multiplying

LEMMA ProductIs ==
  ASSUME NEW k \in Nat, NEW S, S \in {Nat, Positive}, NEW f, \A i \in 1 .. k : f[i] \in S
  PROVE  Product(f, k) \in S /\ (k = 0 => Product(f, k) = 1)
<1> DEFINE step == [s \in S \X (1 .. k) |-> f[s[2]] * s[1]]
<1>0. 1 \in S /\ \A x, y \in S : x * y \in S
  BY Products DEF Positive
<1>1. step \in Steps(k, S)
  <2>1. ASSUME NEW s \in S \X (1 .. k)
        PROVE  f[s[2]] * s[1] \in S
    <3>1. s[1] \in S /\ f[s[2]] \in S
      OBVIOUS
    <3> QED
      BY <1>0, <3>1
  <2> QED
    BY <2>1 DEF Steps
<1>2. PICK h \in Traces(k, S, 1, step) : TRUE
  <2> HIDE DEF step
  <2> QED
    BY <1>0, <1>1, LoopRuns
<1>3. h = Multiplying(f, k, h)
  <2>1. h \in [0 .. k -> S] /\ h[0] = 1 /\ \A i \in 1 .. k : h[i] = step[<<h[i - 1], i>>]
    BY <1>2 DEF Traces
  <2>2. ASSUME NEW i \in 1 .. k PROVE h[i] = f[i] * h[i - 1]
    <3>1. i - 1 \in 0 .. k /\ h[i - 1] \in S
      BY <2>1
    <3>2. <<h[i - 1], i>> \in S \X (1 .. k)
      BY <3>1
    <3>3. step[<<h[i - 1], i>>] = f[i] * h[i - 1]
      BY <3>2
    <3> HIDE DEF step
    <3> QED
      BY <2>1, <3>3
  <2>3. h = [i \in 0 .. k |-> h[i]]
    BY <2>1
  <2>4. ASSUME NEW i \in 0 .. k PROVE h[i] = IF i = 0 THEN 1 ELSE f[i] * h[i - 1]
    BY <2>1, <2>2
  <2> HIDE DEF step
  <2> QED
    BY <2>3, <2>4 DEF Multiplying
<1> DEFINE g == Multiplied(f, k)
<1>4. g = Multiplying(f, k, g)
  BY <1>3 DEF Multiplied
<1> HIDE DEF g
<1>5. g[0] = 1 /\ \A i \in 1 .. k : g[i] = f[i] * g[i - 1]
  <2>1. \A i \in 0 .. k : Multiplying(f, k, g)[i] = IF i = 0 THEN 1 ELSE f[i] * g[i - 1]
    BY DEF Multiplying
  <2>2. \A i \in 0 .. k : g[i] = IF i = 0 THEN 1 ELSE f[i] * g[i - 1]
    BY <1>4, <2>1
  <2> QED
    BY <2>2
<1> DEFINE X == {i \in 0 .. k : g[i] \in S}
<1>6. \A n \in 0 .. k : n \in X
  <2>1. 0 \in X
    BY <1>0, <1>5
  <2>2. ASSUME NEW n \in 0 .. k - 1, n \in X
        PROVE  n + 1 \in X
    <3>1. n + 1 \in 1 .. k /\ n + 1 \in 0 .. k /\ (n + 1) - 1 = n
      OBVIOUS
    <3>2. g[n + 1] = f[n + 1] * g[n] /\ f[n + 1] \in S
      BY <1>5, <3>1
    <3>3. g[n] \in S
      BY <2>2
    <3> QED
      BY <1>0, <3>1, <3>2, <3>3
  <2> HIDE DEF X
  <2> QED
    BY <2>1, <2>2, IntervalInduction
<1>7. Product(f, k) = g[k]
  BY ProductIsMultiplied DEF g
<1>8. g[k] \in S
  BY <1>6
<1> QED
  BY <1>5, <1>7, <1>8

LEMMA PowerIs ==
  ASSUME NEW k \in Nat, NEW S, S \in {Nat, Positive}, NEW n \in S
  PROVE  Power(n, k) \in S /\ (k = 0 => Power(n, k) = 1)
<1>1. \A i \in 1 .. k : [j \in 1 .. k |-> n][i] \in S
  OBVIOUS
<1> QED
  BY <1>1, ProductIs DEF Power

(* A weight is no less than nothing; no goal always has one, and one goal    *)
(* where any is expected.                                                    *)
LEMMA PoissonIs ==
  ASSUME NEW k \in 0 .. MaxGoals, NEW lambda \in Amounts
  PROVE  Poisson(k, lambda) \in Nat /\ (k = 0 \/ lambda.num > 0 => Poisson(k, lambda) > 0)
<1> DEFINE falling == [i \in 1 .. MaxGoals - k |-> k + i]
<1>1. k \in Nat /\ MaxGoals - k \in Nat
  BY GoalsAssumption
<1>2. lambda.num \in Nat /\ lambda.den \in Positive
  BY FractionParts DEF Amounts
<1>3. Power(lambda.den, MaxGoals - k) \in Positive
  BY <1>1, <1>2, PowerIs
<1>4. Product(falling, MaxGoals - k) \in Positive
  <2>1. \A i \in 1 .. MaxGoals - k : falling[i] \in Positive
    BY <1>1 DEF Positive
  <2> HIDE DEF falling
  <2> QED
    BY <1>1, <2>1, ProductIs
<1>5. Power(lambda.num, k) \in Nat
  BY <1>1, <1>2, PowerIs
<1>6. k = 0 \/ lambda.num > 0 => Power(lambda.num, k) \in Positive
  <2>1. CASE k = 0
    BY <1>1, <1>2, <2>1, PowerIs DEF Positive
  <2>2. CASE lambda.num > 0
    <3>1. lambda.num \in Positive
      BY <1>2, <2>2 DEF Positive
    <3> QED
      BY <1>1, <3>1, PowerIs
  <2> QED
    BY <2>1, <2>2
<1>7. Poisson(k, lambda) = Power(lambda.num, k) * Power(lambda.den, MaxGoals - k) * Product(falling, MaxGoals - k)
  BY DEF Poisson
<1> HIDE DEF falling
<1>8. ASSUME NEW a \in Nat, NEW b \in Positive, NEW c \in Positive
      PROVE  a * b * c \in Nat /\ (a \in Positive => a * b * c > 0)
  <2>1. a * b \in Nat /\ (a \in Positive => a * b \in Positive)
    BY Products DEF Positive
  <2>2. (a * b) * c \in Nat /\ (a * b \in Positive => (a * b) * c \in Positive)
    BY <2>1, Products DEF Positive
  <2> QED
    BY <2>1, <2>2 DEF Positive
<1> QED
  BY <1>3, <1>4, <1>5, <1>6, <1>7, <1>8

-----------------------------------------------------------------------------
(* The grid of scores *)

LEMMA AmountsMultiply ==
  ASSUME NEW p \in Amounts, NEW q \in Amounts
  PROVE  Times(p, q) \in Amounts
<1>1. p.num \in Nat /\ p.den \in Positive /\ q.num \in Nat /\ q.den \in Positive
  BY FractionParts DEF Amounts
<1>2. p.num * q.num \in Nat /\ p.den * q.den \in Positive
  BY <1>1, Products DEF Positive
<1>3. Times(p, q) = Frac(p.num * q.num, p.den * q.den)
  BY DEF Times
<1> QED
  BY <1>2, <1>3, FracTyped, FracParts DEF Amounts

LEMMA ReducedIsAnAmount ==
  ASSUME NEW p \in Amounts
  PROVE  Reduced(p) \in Amounts
<1>1. p \in Fractions /\ p.num >= 0 /\ p.num \in Int
  BY FractionParts DEF Amounts
<1>2. PICK g \in Positive : p.num = g * Reduced(p).num
  BY <1>1, ReducedIs
<1>3. Reduced(p) \in Fractions /\ Reduced(p).num \in Int
  BY <1>1, ReducedIs, FractionParts
<1> DEFINE n == Reduced(p).num
<1> HIDE DEF n
<1>4. n \in Int /\ g * n >= 0 /\ g \in Int /\ g > 0
  BY <1>1, <1>2, <1>3 DEF n, Positive
<1>5. n >= 0
  BY <1>4
<1> QED
  BY <1>3, <1>5 DEF Amounts, n

(* Whoever has played is expected to score no less than nothing. *)
LEMMA LambdasAreAmounts ==
  ASSUME NEW home \in Forms, NEW away \in Forms
  PROVE  LambdaHome(home, away) \in Amounts /\ LambdaAway(home, away) \in Amounts
<1>1. /\ LeagueAverage \in Amounts /\ LeagueAverage.num \in Positive /\ LeagueAverage.den \in Positive
      /\ HomeAdvantage \in Amounts
  <2>1. ASSUME NEW p \in Fractions, Less(Zero, p)
        PROVE  p \in Amounts /\ p.num \in Positive /\ p.den \in Positive
    <3>1. 0 * p.den < p.num * 1 /\ p.num \in Int /\ p.den \in Int /\ p.den \in Positive
      BY <2>1, FractionParts, FracParts DEF Less, Zero
    <3>2. p.num > 0
      BY <3>1
    <3> QED
      BY <3>1, <3>2 DEF Amounts, Positive
  <2> QED
    BY <2>1, GoalsAssumption
<1>2. ASSUME NEW goals \in Nat, NEW played \in Positive
      PROVE  Over(Frac(goals, played), LeagueAverage) \in Amounts
  <2>1. goals * LeagueAverage.den \in Nat /\ played * LeagueAverage.num \in Positive
    BY <1>1, Products DEF Positive
  <2>2. Over(Frac(goals, played), LeagueAverage)
          = Frac(goals * LeagueAverage.den, played * LeagueAverage.num)
    BY FracParts DEF Over
  <2> QED
    BY <2>1, <2>2, FracTyped, FracParts DEF Amounts
<1>3. ASSUME NEW form \in Forms
      PROVE  Attack(form) \in Amounts /\ Defense(form) \in Amounts
  <2>1. form.played \in Positive /\ form.goals_for \in Nat /\ form.goals_against \in Nat
    <3>1. form \in TeamForms /\ form.played > 0
      BY OffersAssumption
    <3>2. form.played \in 0 .. FormWindow /\ form.goals_for \in Nat /\ form.goals_against \in Nat
      BY <3>1 DEF TeamForms
    <3> QED
      BY <3>1, <3>2, GoalsAssumption DEF Positive
  <2> QED
    BY <1>2, <2>1 DEF Attack, Defense
<1>4. Times(LeagueAverage, HomeAdvantage) \in Amounts
  BY <1>1, AmountsMultiply
<1>5. Times(Attack(home), Defense(away)) \in Amounts /\ Times(Attack(away), Defense(home)) \in Amounts
  BY <1>3, AmountsMultiply
<1>6. /\ Times(Times(LeagueAverage, HomeAdvantage), Times(Attack(home), Defense(away))) \in Amounts
      /\ Times(LeagueAverage, Times(Attack(away), Defense(home))) \in Amounts
  BY <1>1, <1>4, <1>5, AmountsMultiply
<1> QED
  BY <1>6, ReducedIsAnAmount DEF LambdaHome, LambdaAway

LEMMA TauTyped ==
  ASSUME NEW lh \in Amounts, NEW la \in Amounts, NEW x, NEW y
  PROVE  Tau(x, y, lh, la) \in Fractions
<1>1. lh \in Fractions /\ la \in Fractions /\ Rho \in Fractions /\ One \in Fractions
  BY GoalsAssumption, OneIsAProbability DEF Amounts
<1>2. ASSUME NEW p \in Fractions PROVE Minus(One, p) \in Fractions
  <2>1. p.num \in Int /\ p.den \in Positive /\ p.den \in Int
    BY FractionParts
  <2>2. 1 * p.den - p.num * 1 \in Int /\ 1 * p.den \in Positive
    BY <2>1
  <2>3. Minus(One, p) = Frac(1 * p.den - p.num * 1, 1 * p.den)
    BY FracParts DEF Minus, One
  <2> QED
    BY <2>2, <2>3, FracTyped
<1>3. /\ Minus(One, Times(Times(lh, la), Rho)) \in Fractions /\ Minus(One, Rho) \in Fractions
      /\ Plus(One, Times(lh, Rho)) \in Fractions /\ Plus(One, Times(la, Rho)) \in Fractions
  BY <1>1, <1>2, TimesTyped, PlusTyped
<1>4. Tau(x, y, lh, la) \in
        {Minus(One, Times(Times(lh, la), Rho)), Plus(One, Times(lh, Rho)),
         Plus(One, Times(la, Rho)), Minus(One, Rho), One}
  BY Zenon DEF Tau
<1> QED
  BY <1>1, <1>3, <1>4

(* The correction never empties the grid: a rho that leaves nothing of the   *)
(* score 0-0 adds to the score 0-1.                                          *)
LEMMA TauUnitsAre ==
  ASSUME NEW lh \in Amounts, NEW la \in Amounts
  PROVE  /\ \A x, y : TauUnits(x, y, lh, la) \in Int
         /\ Rho.num <= 0 \/ lh.num = 0 \/ la.num = 0 => TauUnits(0, 0, lh, la) > 0
         /\ Rho.num > 0 => TauUnits(0, 1, lh, la) > 0
<1>1. /\ lh.num \in Nat /\ lh.den \in Positive /\ la.num \in Nat /\ la.den \in Positive
      /\ Rho.num \in Int /\ Rho.den \in Positive
  BY GoalsAssumption, FractionParts DEF Amounts
<1> DEFINE D == lh.den * la.den * Rho.den
<1>2. D \in Positive
  BY <1>1, Products
<1>3. ASSUME NEW x, NEW y PROVE TauUnits(x, y, lh, la) \in Int
  <2> DEFINE tau == Tau(x, y, lh, la)
  <2>1. tau.num \in Int /\ tau.den \in Positive
    BY TauTyped, FractionParts
  <2>2. TauUnits(x, y, lh, la) = tau.num * (D \div tau.den)
    BY DEF TauUnits
  <2> HIDE DEF tau, D
  <2>3. D \div tau.den \in Int
    BY <1>2, <2>1 DEF Positive
  <2> QED
    BY <2>1, <2>2, <2>3, Products
<1>4. ASSUME Rho.num <= 0 \/ lh.num = 0 \/ la.num = 0 PROVE TauUnits(0, 0, lh, la) > 0
  <2> DEFINE n == lh.num * la.num * Rho.num
  <2>1. Tau(0, 0, lh, la) = Minus(One, Times(Times(lh, la), Rho))
    BY DEF Tau
  <2>2. Times(Times(lh, la), Rho) = Frac(n, D)
    BY FracParts DEF Times
  <2>3. Tau(0, 0, lh, la) = Frac(1 * D - n * 1, 1 * D)
    BY <2>1, <2>2, FracParts DEF Minus, One
  <2>4. TauUnits(0, 0, lh, la) = (1 * D - n * 1) * (D \div (1 * D))
    BY <2>3, FracParts DEF TauUnits
  <2>5. n \in Int /\ n <= 0
    <3>1. lh.num * la.num \in Nat /\ (lh.num = 0 \/ la.num = 0 => lh.num * la.num = 0)
      BY <1>1
    <3> DEFINE m == lh.num * la.num
    <3> HIDE DEF m
    <3>2. m \in Nat /\ (lh.num = 0 \/ la.num = 0 => m = 0)
      BY <3>1 DEF m
    <3>3. m * Rho.num \in Int /\ m * Rho.num <= 0
      BY <1>1, <1>4, <3>2
    <3> QED
      BY <3>3 DEF m
  <2> HIDE DEF n, D
  <2>6. D * 1 = D /\ (D * 1) \div D = 1
    BY <1>2, Quotient DEF Positive
  <2>7. D \div (1 * D) = 1
    BY <1>2, <2>6 DEF Positive
  <2> QED
    BY <1>2, <2>4, <2>5, <2>7 DEF Positive
<1>5. ASSUME Rho.num > 0 PROVE TauUnits(0, 1, lh, la) > 0
  <2> DEFINE n == lh.num * Rho.num
             d == lh.den * Rho.den
  <2>1. Tau(0, 1, lh, la) = Plus(One, Times(lh, Rho))
    BY DEF Tau
  <2>2. Tau(0, 1, lh, la) = Frac(1 * d + n * 1, 1 * d)
    BY <2>1, FracParts DEF Plus, Times, One
  <2>3. TauUnits(0, 1, lh, la) = (1 * d + n * 1) * (D \div (1 * d))
    BY <2>2, FracParts DEF TauUnits
  <2>4. n \in Nat /\ d \in Positive
    BY <1>1, <1>5, Products DEF Positive
  <2>5. D = d * la.den
    BY <1>1 DEF Positive
  <2> HIDE DEF n, d, D
  <2>6. (d * la.den) \div d = la.den
    BY <1>1, <2>4, Quotient DEF Positive
  <2>7. 1 * d = d /\ 1 * d + n * 1 \in Positive
    BY <2>4 DEF Positive
  <2>8. (1 * d + n * 1) * la.den \in Positive
    BY <1>1, <2>7, Products
  <2> QED
    BY <2>3, <2>5, <2>6, <2>7, <2>8 DEF Positive
<1> QED
  BY <1>3, <1>4, <1>5

LEMMA CellsAreNatural ==
  ASSUME NEW lh \in Amounts, NEW la \in Amounts
  PROVE  /\ \A s \in Scores : ScoreMatrix(lh, la)[s] \in Nat
         /\ \E s \in Scores : ScoreMatrix(lh, la)[s] > 0
<1>1. \A s \in Scores : ScoreMatrix(lh, la)[s] = Cell(s[1], s[2], lh, la)
  BY DEF ScoreMatrix
<1>2. ASSUME NEW units \in Int, NEW a \in Nat, NEW b \in Nat
      PROVE  /\ units >= 0 => units * a * b \in Nat
             /\ units > 0 /\ a > 0 /\ b > 0 => units * a * b > 0
  <2>1. units >= 0 => units * a \in Nat
    OBVIOUS
  <2>2. units > 0 /\ a > 0 => units * a \in Nat /\ units * a > 0
    OBVIOUS
  <2> DEFINE c == units * a
  <2> HIDE DEF c
  <2>3. c \in Nat => c * b \in Nat
    OBVIOUS
  <2>4. c \in Nat /\ c > 0 /\ b > 0 => c * b > 0
    OBVIOUS
  <2> QED
    BY <2>1, <2>2, <2>3, <2>4 DEF c
<1>3. ASSUME NEW x \in 0 .. MaxGoals, NEW y \in 0 .. MaxGoals
      PROVE  /\ Cell(x, y, lh, la) \in Nat
             /\ TauUnits(x, y, lh, la) > 0 /\ Poisson(x, lh) > 0 /\ Poisson(y, la) > 0
                  => Cell(x, y, lh, la) > 0
  <2>1. TauUnits(x, y, lh, la) \in Int /\ Poisson(x, lh) \in Nat /\ Poisson(y, la) \in Nat
    BY TauUnitsAre, PoissonIs
  <2> DEFINE units == TauUnits(x, y, lh, la)
  <2>2. Cell(x, y, lh, la) = IF units < 0 THEN 0 ELSE units * Poisson(x, lh) * Poisson(y, la)
    BY DEF Cell
  <2> HIDE DEF units
  <2>3. units < 0 \/ units >= 0
    BY <2>1 DEF units
  <2>4. units > 0 => ~(units < 0)
    BY <2>1 DEF units
  <2>5. units \in Int
    BY <2>1 DEF units
  <2>6. /\ units >= 0 => units * Poisson(x, lh) * Poisson(y, la) \in Nat
        /\ units > 0 /\ Poisson(x, lh) > 0 /\ Poisson(y, la) > 0
             => units * Poisson(x, lh) * Poisson(y, la) > 0
    BY <1>2, <2>1, <2>5
  <2> QED
    BY <2>2, <2>3, <2>4, <2>6 DEF units
<1>4. 0 \in 0 .. MaxGoals /\ 1 \in 0 .. MaxGoals
  BY GoalsAssumption
<1>5. Poisson(0, lh) > 0 /\ Poisson(0, la) > 0 /\ (la.num > 0 => Poisson(1, la) > 0)
  BY <1>4, PoissonIs
<1>6. <<0, 0>> \in Scores /\ <<0, 1>> \in Scores
  BY <1>4 DEF Scores
<1>7. \E s \in Scores : Cell(s[1], s[2], lh, la) > 0
  <2>1. CASE Rho.num <= 0 \/ lh.num = 0 \/ la.num = 0
    <3>1. Cell(0, 0, lh, la) > 0
      BY <1>3, <1>4, <1>5, <2>1, TauUnitsAre
    <3> QED
      BY <1>6, <3>1
  <2>2. CASE Rho.num > 0 /\ la.num > 0
    <3>1. Cell(0, 1, lh, la) > 0
      BY <1>3, <1>4, <1>5, <2>2, TauUnitsAre
    <3> QED
      BY <1>6, <3>1
  <2>3. Rho.num \in Int /\ la.num \in Int /\ la.num >= 0
    BY GoalsAssumption, FractionParts DEF Amounts
  <2> QED
    BY <2>1, <2>2, <2>3
<1>8. \A s \in Scores : Cell(s[1], s[2], lh, la) \in Nat
  <2>1. \A s \in Scores : s[1] \in 0 .. MaxGoals /\ s[2] \in 0 .. MaxGoals
    BY DEF Scores
  <2> QED
    BY <1>3, <2>1
<1> QED
  BY <1>1, <1>7, <1>8

ScoresAgree(p) ==
  /\ p.whole > 0
  /\ p.home + p.draw + p.away = p.whole
  /\ \A part \in {p.home, p.draw, p.away, p.yes, p.no} : part \in 0 .. p.whole
  /\ \A k \in Lines : p.over[k] \in 0 .. p.whole /\ p.under[k] \in 0 .. p.whole
  /\ p.over[3] <= p.over[2] /\ p.over[2] <= p.over[1] /\ p.yes <= p.over[1]

(* The markets of one match are sums over parts of one grid of naturals.     *)
LEMMA MarketsAgree ==
  ASSUME NEW home \in Forms, NEW away \in Forms
  PROVE  ScoresAgree(MatchProbabilities(home, away))
<1> DEFINE matrix == ScoreMatrix(LambdaHome(home, away), LambdaAway(home, away))
           p == MatchProbabilities(home, away)
           M(scores) == Mass(matrix, scores)
<1>1. IsFiniteSet(Scores)
  <2>1. IsFiniteSet(0 .. MaxGoals)
    BY GoalsAssumption, FS_Interval
  <2> QED
    BY <2>1, FS_Product DEF Scores
<1>2. /\ p.whole = M(Scores) /\ p.home = M(HomeWins) /\ p.draw = M(Draws) /\ p.away = M(AwayWins)
      /\ p.yes = M(BothScore) /\ p.no = M(Scores) - M(BothScore)
      /\ \A k \in Lines : p.over[k] = M(Above(k)) /\ p.under[k] = M(Scores) - M(Above(k))
  BY DEF MatchProbabilities
<1>3. (\A s \in Scores : matrix[s] \in Nat) /\ \E s \in Scores : matrix[s] > 0
  BY LambdasAreAmounts, CellsAreNatural
<1> HIDE DEF matrix, p
<1>4. ASSUME NEW whole, NEW part, part \subseteq whole, whole \subseteq Scores
      PROVE  M(part) \in Nat /\ M(whole) \in Nat /\ M(part) <= M(whole)
  <2>1. IsFiniteSet(whole) /\ \A s \in whole : matrix[s] \in Nat
    BY <1>1, <1>3, <1>4, FS_Subset
  <2> QED
    BY <1>4, <2>1, SumOfNaturals, SumOfPart DEF Mass
<1>5. M(Scores) > 0
  BY <1>1, <1>3, SumIsPositive DEF Mass
<1>6. M(HomeWins) + M(Draws) + M(AwayWins) = M(Scores)
  <2>1. HomeWins \subseteq Scores /\ Draws \subseteq Scores /\ AwayWins \subseteq Scores
    BY DEF HomeWins, Draws, AwayWins
  <2>2. IsFiniteSet(HomeWins) /\ IsFiniteSet(Draws) /\ IsFiniteSet(AwayWins) /\ IsFiniteSet(HomeWins \union Draws)
    BY <1>1, <2>1, FS_Subset, FS_Union
  <2>3. \A s \in Scores : s[1] \in Int /\ s[2] \in Int
    BY DEF Scores
  <2>4. (HomeWins \union Draws) \union AwayWins = Scores
    BY <2>3 DEF HomeWins, Draws, AwayWins
  <2>5. HomeWins \intersect Draws = {} /\ (HomeWins \union Draws) \intersect AwayWins = {}
    BY <2>3 DEF HomeWins, Draws, AwayWins
  <2>6. \A s \in Scores : matrix[s] \in Int
    BY <1>3
  <2>7. M(HomeWins \union Draws) = M(HomeWins) + M(Draws)
    BY <2>1, <2>2, <2>5, <2>6, SumApart DEF Mass
  <2>8. M((HomeWins \union Draws) \union AwayWins) = M(HomeWins \union Draws) + M(AwayWins)
    BY <2>1, <2>2, <2>5, <2>6, SumApart DEF Mass
  <2> QED
    BY <2>4, <2>7, <2>8
<1>7. \A part \in {HomeWins, Draws, AwayWins, BothScore, Above(1), Above(2), Above(3)} : part \subseteq Scores
  BY DEF HomeWins, Draws, AwayWins, BothScore, Above
<1>8. Above(3) \subseteq Above(2) /\ Above(2) \subseteq Above(1) /\ BothScore \subseteq Above(1)
  BY DEF Above, BothScore, Scores
<1>9. \A part \in {HomeWins, Draws, AwayWins, BothScore, Above(1), Above(2), Above(3)} :
         M(part) \in Nat /\ M(part) <= M(Scores)
  BY <1>4, <1>7
<1>10. M(Above(3)) <= M(Above(2)) /\ M(Above(2)) <= M(Above(1)) /\ M(BothScore) <= M(Above(1))
  BY <1>4, <1>7, <1>8
<1>11. M(Scores) \in Nat
  BY <1>4
<1> HIDE DEF M
<1>12. \A part \in {p.home, p.draw, p.away, p.yes, p.no} : part \in 0 .. p.whole
  <2>1. \A part \in {M(HomeWins), M(Draws), M(AwayWins), M(BothScore)} : part \in 0 .. M(Scores)
    BY <1>9, <1>11
  <2>2. M(Scores) - M(BothScore) \in 0 .. M(Scores)
    BY <1>9, <1>11
  <2> QED
    BY <1>2, <2>1, <2>2
<1>13. \A k \in Lines : p.over[k] \in 0 .. p.whole /\ p.under[k] \in 0 .. p.whole
  <2>1. \A k \in Lines : k = 1 \/ k = 2 \/ k = 3
    BY DEF Lines
  <2>2. \A k \in Lines : M(Above(k)) \in Nat /\ M(Above(k)) <= M(Scores)
    BY <1>9, <2>1
  <2>3. \A k \in Lines : M(Above(k)) \in 0 .. M(Scores) /\ M(Scores) - M(Above(k)) \in 0 .. M(Scores)
    BY <1>11, <2>2
  <2> QED
    BY <1>2, <2>3
<1>14. p.over[3] <= p.over[2] /\ p.over[2] <= p.over[1] /\ p.yes <= p.over[1]
  <2>1. 1 \in Lines /\ 2 \in Lines /\ 3 \in Lines
    BY DEF Lines
  <2> QED
    BY <1>2, <1>10, <2>1
<1>15. p.whole > 0 /\ p.home + p.draw + p.away = p.whole
  BY <1>2, <1>5, <1>6
<1> QED
  BY <1>12, <1>13, <1>14, <1>15 DEF ScoresAgree, p

(* The markets that DixonColesModel derives agree with each other for any    *)
(* forms, whatever the sign and the size of rho, and its grid is never empty: *)
(* only the rounding of floats reaches its "underflowed to zero".            *)
THEOREM MarketsOfAMatchAgree == Spec => []ScoreMarketsAreCoherent
<1>1. OffersInv => ScoreMarketsAreCoherent
  BY MarketsAgree DEF OffersInv, ScoreMarketsAreCoherent, ScoresAgree
<1> QED
  BY <1>1, OffersAreTyped, PTL

-----------------------------------------------------------------------------
(* The order of the results *)

(* What a rearrangement of D puts at the positions of T. *)
Behind(D, order, T) == {i \in D : order[i] \in T}

LEMMA BehindGrows ==
  ASSUME NEW D, NEW order \in Bijection(D, D), NEW T, T \subseteq D, NEW x \in D, x \notin T
  PROVE  \E y \in D : /\ order[y] = x /\ y \notin Behind(D, order, T)
                      /\ Behind(D, order, T \union {x}) = Behind(D, order, T) \union {y}
<1>1. order \in [D -> D] /\ (\A a, b \in D : order[a] = order[b] => a = b) /\ (\A d \in D : \E c \in D : order[c] = d)
  BY DEF Bijection, Injection, Surjection, IsInjective
<1>2. PICK y \in D : order[y] = x
  BY <1>1
<1>3. \A i \in D : order[i] = x => i = y
  BY <1>1, <1>2
<1> QED
  BY <1>2, <1>3 DEF Behind

(* A rearrangement keeps sums and sizes. *)
LEMMA SumBehind ==
  ASSUME NEW D, IsFiniteSet(D), NEW order \in Bijection(D, D), NEW S, S \subseteq D,
         NEW f, NEW g, \A j \in S : g[j] \in Int,
         \A i \in Behind(D, order, S) : f[i] = g[order[i]]
  PROVE  SumFunctionOnSet(f, Behind(D, order, S)) = SumFunctionOnSet(g, S)
<1> DEFINE B(T) == Behind(D, order, T)
           good == {T \in SUBSET S : SumFunctionOnSet(f, B(T)) = SumFunctionOnSet(g, T)}
<1>1. {} \in good
  <2>1. B({}) = {}
    BY DEF Behind
  <2> QED
    BY <2>1, SumEmpty
<1>2. ASSUME NEW T \in SUBSET S, NEW x \in S \ T, T \in good
      PROVE  T \union {x} \in good
  <2>1. PICK y \in D : order[y] = x /\ y \notin B(T) /\ B(T \union {x}) = B(T) \union {y}
    BY BehindGrows
  <2>2. IsFiniteSet(T) /\ IsFiniteSet(B(T)) /\ (\A j \in T : g[j] \in Int) /\ g[x] \in Int /\ x \notin T
    BY FS_Subset DEF Behind
  <2>3. y \in B(S) /\ f[y] = g[x]
    BY <2>1 DEF Behind
  <2>4. \A i \in B(T) : f[i] \in Int
    BY DEF Behind
  <2>5. SumFunctionOnSet(f, B(T) \union {y}) = f[y] + SumFunctionOnSet(f, B(T))
    <3> HIDE DEF B
    <3> QED
      BY <2>1, <2>2, <2>3, <2>4, SumAdd
  <2>6. SumFunctionOnSet(g, T \union {x}) = g[x] + SumFunctionOnSet(g, T)
    BY <2>2, SumAdd
  <2>7. SumFunctionOnSet(f, B(T)) = SumFunctionOnSet(g, T)
    BY <1>2
  <2> HIDE DEF B
  <2>8. SumFunctionOnSet(f, B(T \union {x})) = SumFunctionOnSet(g, T \union {x})
    BY <2>1, <2>3, <2>5, <2>6, <2>7
  <2>9. T \union {x} \in SUBSET S
    OBVIOUS
  <2> QED
    BY <2>8, <2>9
<1>3. S \in good
  <2>1. IsFiniteSet(S)
    BY FS_Subset
  <2> HIDE DEF good
  <2> QED
    BY <1>1, <1>2, <2>1, SubsetInduction
<1> QED
  BY <1>3

LEMMA SizeBehind ==
  ASSUME NEW D, IsFiniteSet(D), NEW order \in Bijection(D, D), NEW S, S \subseteq D
  PROVE  Cardinality(Behind(D, order, S)) = Cardinality(S)
<1> DEFINE B(T) == Behind(D, order, T)
           good == {T \in SUBSET S : Cardinality(B(T)) = Cardinality(T)}
<1>1. {} \in good
  <2>1. B({}) = {}
    BY DEF Behind
  <2> QED
    BY <2>1
<1>2. ASSUME NEW T \in SUBSET S, NEW x \in S \ T, T \in good
      PROVE  T \union {x} \in good
  <2>1. PICK y \in D : order[y] = x /\ y \notin B(T) /\ B(T \union {x}) = B(T) \union {y}
    BY BehindGrows
  <2>2. IsFiniteSet(T) /\ IsFiniteSet(B(T)) /\ x \notin T
    BY FS_Subset DEF Behind
  <2>3. Cardinality(T \union {x}) = Cardinality(T) + 1
    BY <2>2, FS_AddElement
  <2>4. Cardinality(B(T) \union {y}) = Cardinality(B(T)) + 1
    <3> HIDE DEF B
    <3> QED
      BY <2>1, <2>2, FS_AddElement
  <2>5. Cardinality(B(T)) = Cardinality(T)
    BY <1>2
  <2> HIDE DEF B
  <2>6. Cardinality(B(T \union {x})) = Cardinality(T \union {x})
    BY <2>1, <2>3, <2>4, <2>5
  <2>7. T \union {x} \in SUBSET S
    OBVIOUS
  <2> QED
    BY <2>6, <2>7
<1>3. S \in good
  <2>1. IsFiniteSet(S)
    BY FS_Subset
  <2> HIDE DEF good
  <2> QED
    BY <1>1, <1>2, <2>1, SubsetInduction
<1> QED
  BY <1>3

OneMatchAtATime(events) ==
  \A i, j \in Played(events) : events[i].time = events[j].time => i = j

Reordered(events, order) == [i \in DOMAIN events |-> events[order[i]]]

(* Where the times differ, the latest results are the same events.           *)
LEMMA LastPlayedMoves ==
  ASSUME NEW events \in Seq(Events), OneMatchAtATime(events),
         NEW order \in Bijection(DOMAIN events, DOMAIN events)
  PROVE  LastPlayed(Reordered(events, order)) = Behind(DOMAIN events, order, LastPlayed(events))
<1> DEFINE D == DOMAIN events
           other == Reordered(events, order)
<1>1. D = 1 .. Len(events) /\ IsFiniteSet(D) /\ D \subseteq Int
  BY FS_Interval
<1>2. order \in [D -> D] /\ \A a, b \in D : order[a] = order[b] => a = b
  BY DEF Bijection, Injection, IsInjective
<1>3. DOMAIN other = D /\ \A i \in D : other[i] = events[order[i]]
  BY DEF Reordered
<1>4. \A i \in D : events[i].time \in Int
  <2>1. \A i \in D : events[i] \in Events
    OBVIOUS
  <2> QED
    BY <2>1 DEF Events
<1> HIDE DEF D, other
<1>5. Played(events) \subseteq D
  BY DEF Played, D
<1>6. \A i \in D : i \in Played(other) <=> order[i] \in Played(events)
  BY <1>2, <1>3 DEF Played, D
<1>7. Played(other) \subseteq D
  BY <1>3 DEF Played
<1>8. ASSUME NEW i \in D, order[i] \in Played(events)
      PROVE  Cardinality(Ahead(other, i)) = Cardinality(Ahead(events, order[i]))
  <2>1. \A j \in Played(events) : events[j].time = events[order[i]].time => j = order[i]
    BY <1>8 DEF OneMatchAtATime
  <2>2. Ahead(events, order[i]) = {j \in Played(events) : events[j].time > events[order[i]].time}
    <3>1. \A j \in Played(events) : ~(events[j].time = events[order[i]].time /\ j < order[i])
      BY <1>1, <1>2, <2>1
    <3> QED
      BY <3>1 DEF Ahead
  <2>3. Ahead(other, i) = {j \in Played(other) : events[order[j]].time > events[order[i]].time}
    <3>1. \A j \in Played(other) : order[j] \in Played(events) /\ other[j] = events[order[j]] /\ j \in D
      BY <1>3, <1>6, <1>7
    <3>2. \A j \in Played(other) : other[j].time = other[i].time => order[j] = order[i]
      BY <1>3, <2>1, <3>1
    <3>3. \A j \in Played(other) : ~(other[j].time = other[i].time /\ j < i)
      BY <1>1, <1>2, <3>1, <3>2
    <3> QED
      BY <1>3, <3>1, <3>3 DEF Ahead
  <2>4. Ahead(other, i) = Behind(D, order, Ahead(events, order[i]))
    BY <1>6, <1>7, <2>2, <2>3 DEF Behind
  <2>5. Ahead(events, order[i]) \subseteq D
    BY <1>5, <2>2
  <2> QED
    BY <1>1, <2>4, <2>5, SizeBehind DEF D
<1>9. \A i \in D : i \in LastPlayed(other) <=> order[i] \in LastPlayed(events)
  BY <1>6, <1>8 DEF LastPlayed
<1>10. LastPlayed(other) \subseteq D
  BY <1>7 DEF LastPlayed
<1>11. LastPlayed(other) = Behind(D, order, LastPlayed(events))
  BY <1>9, <1>10 DEF Behind
<1> QED
  BY <1>11 DEF other, D

LEMMA FormOfReordered ==
  ASSUME NEW events \in Seq(Events), OneMatchAtATime(events),
         NEW order \in Bijection(DOMAIN events, DOMAIN events)
  PROVE  TeamForm(Reordered(events, order)) = TeamForm(events)
<1> DEFINE D == DOMAIN events
           other == Reordered(events, order)
           last == LastPlayed(events)
           lastOther == LastPlayed(other)
<1>1. D = 1 .. Len(events) /\ IsFiniteSet(D)
  BY FS_Interval
<1>2. order \in [D -> D]
  BY DEF Bijection, Injection
<1>3. DOMAIN other = D /\ \A i \in D : other[i] = events[order[i]]
  BY DEF Reordered
<1>4. last \subseteq D /\ \A i \in last : events[i].ours \in Int /\ events[i].theirs \in Int
  <2>1. \A i \in last : i \in D /\ Usable(events[i])
    BY DEF LastPlayed, Played
  <2>2. \A i \in D : events[i] \in Events
    OBVIOUS
  <2> QED
    BY <2>1, <2>2 DEF Usable, Events
<1>5. lastOther = Behind(D, order, last)
  BY LastPlayedMoves
<1> HIDE DEF D, other, last, lastOther
<1>6. \A i \in lastOther : i \in D /\ order[i] \in last /\ other[i] = events[order[i]]
  BY <1>3, <1>5 DEF Behind
<1>7. ASSUME NEW T, T \subseteq last, NEW U, U = {i \in D : order[i] \in T}
      PROVE  Cardinality(U) = Cardinality(T)
  <2>1. T \subseteq D /\ U = Behind(D, order, T)
    BY <1>4, <1>7 DEF Behind
  <2> QED
    BY <1>1, <2>1, SizeBehind DEF D
<1>8. Cardinality(lastOther) = Cardinality(last)
  BY <1>5, <1>7 DEF Behind
<1>9. /\ Cardinality({i \in lastOther : other[i].ours > other[i].theirs})
           = Cardinality({i \in last : events[i].ours > events[i].theirs})
      /\ Cardinality({i \in lastOther : other[i].ours = other[i].theirs})
           = Cardinality({i \in last : events[i].ours = events[i].theirs})
      /\ Cardinality({i \in lastOther : other[i].ours < other[i].theirs})
           = Cardinality({i \in last : events[i].ours < events[i].theirs})
  <2>1. /\ {i \in lastOther : other[i].ours > other[i].theirs}
             = {i \in D : order[i] \in {j \in last : events[j].ours > events[j].theirs}}
        /\ {i \in lastOther : other[i].ours = other[i].theirs}
             = {i \in D : order[i] \in {j \in last : events[j].ours = events[j].theirs}}
        /\ {i \in lastOther : other[i].ours < other[i].theirs}
             = {i \in D : order[i] \in {j \in last : events[j].ours < events[j].theirs}}
    BY <1>5, <1>6 DEF Behind
  <2>2. /\ {j \in last : events[j].ours > events[j].theirs} \subseteq last
        /\ {j \in last : events[j].ours = events[j].theirs} \subseteq last
        /\ {j \in last : events[j].ours < events[j].theirs} \subseteq last
    OBVIOUS
  <2> QED
    BY <1>7, <2>1, <2>2
<1>10. SumFunctionOnSet([i \in lastOther |-> other[i].ours], lastOther)
         = SumFunctionOnSet([i \in last |-> events[i].ours], last)
  <2> DEFINE f == [i \in lastOther |-> other[i].ours]
             g == [i \in last |-> events[i].ours]
  <2>1. (\A j \in last : g[j] \in Int) /\ \A i \in lastOther : f[i] = g[order[i]]
    BY <1>4, <1>6
  <2> HIDE DEF f, g
  <2>2. SumFunctionOnSet(f, lastOther) = SumFunctionOnSet(g, last)
    BY <1>1, <1>4, <1>5, <2>1, SumBehind DEF D
  <2> QED
    BY <2>2 DEF f, g
<1>11. SumFunctionOnSet([i \in lastOther |-> other[i].theirs], lastOther)
         = SumFunctionOnSet([i \in last |-> events[i].theirs], last)
  <2> DEFINE f == [i \in lastOther |-> other[i].theirs]
             g == [i \in last |-> events[i].theirs]
  <2>1. (\A j \in last : g[j] \in Int) /\ \A i \in lastOther : f[i] = g[order[i]]
    BY <1>4, <1>6
  <2> HIDE DEF f, g
  <2>2. SumFunctionOnSet(f, lastOther) = SumFunctionOnSet(g, last)
    BY <1>1, <1>4, <1>5, <2>1, SumBehind DEF D
  <2> QED
    BY <2>2 DEF f, g
<1> QED
  BY <1>8, <1>9, <1>10, <1>11 DEF TeamForm, other, last, lastOther

(* The form of a team does not depend on the order in which its results are  *)
(* listed, for any number of them, any window and any scores.                *)
THEOREM FormIsOfTheLatest == Spec => []FormIgnoresPayloadOrder
<1>1. ASSUME OffersInv, topic = "form", OneMatchAtATime(payload)
      PROVE  \A order \in Bijection(DOMAIN payload, DOMAIN payload) :
               TeamForm([i \in DOMAIN payload |-> payload[order[i]]]) = TeamForm(payload)
  <2>1. payload \in Seq(Events)
    BY <1>1, OffersAssumption DEF OffersInv
  <2> QED
    BY <1>1, <2>1, FormOfReordered DEF Reordered
<1>2. OffersInv => FormIgnoresPayloadOrder
  BY <1>1 DEF FormIgnoresPayloadOrder, OneMatchAtATime
<1> QED
  BY <1>2, OffersAreTyped, PTL

(* In any order of the payload, and with any ties, the sort is strict and    *)
(* compares any two results.                                                 *)
LEMMA AheadIsAnOrder ==
  ASSUME NEW events \in Seq(Events), NEW i \in Played(events), NEW j \in Played(events)
  PROVE  /\ i \notin Ahead(events, i)
         /\ i # j => i \in Ahead(events, j) \/ j \in Ahead(events, i)
         /\ j \in Ahead(events, i) => Ahead(events, j) \subseteq Ahead(events, i)
         /\ j \in Ahead(events, i) => i \notin Ahead(events, j)
<1>1. \A k \in Played(events) : k \in Int /\ events[k].time \in Int
  <2>1. \A k \in Played(events) : k \in 1 .. Len(events)
    BY DEF Played
  <2>2. \A k \in 1 .. Len(events) : events[k] \in Events
    OBVIOUS
  <2> QED
    BY <2>1, <2>2 DEF Events
<1>2. \A k \in Played(events) : Ahead(events, k) =
        {l \in Played(events) : \/ events[l].time > events[k].time
                                \/ events[l].time = events[k].time /\ l < k}
  BY DEF Ahead
<1>3. i \notin Ahead(events, i)
  BY <1>1, <1>2
<1>4. i # j => i \in Ahead(events, j) \/ j \in Ahead(events, i)
  BY <1>1, <1>2
<1>5. j \in Ahead(events, i) => i \notin Ahead(events, j)
  BY <1>1, <1>2
<1>6. ASSUME j \in Ahead(events, i), NEW l \in Ahead(events, j)
      PROVE  l \in Ahead(events, i)
  <2>1. l \in Played(events)
    BY <1>2
  <2> QED
    BY <1>1, <1>2, <1>6, <2>1
<1> QED
  BY <1>3, <1>4, <1>5, <1>6

(* The window holds no more than FormWindow results: all others of them are  *)
(* ahead of the earliest.                                                    *)
LEMMA WindowIsKept ==
  ASSUME NEW events \in Seq(Events)
  PROVE  IsFiniteSet(LastPlayed(events)) /\ Cardinality(LastPlayed(events)) \in 0 .. FormWindow
<1> DEFINE last == LastPlayed(events)
           Later(i) == {j \in last : i \in Ahead(events, j)}
<1>1. IsFiniteSet(Played(events)) /\ last \subseteq Played(events) /\ IsFiniteSet(last)
  <2>1. IsFiniteSet(DOMAIN events)
    <3>1. DOMAIN events = 1 .. Len(events)
      OBVIOUS
    <3> QED
      BY <3>1, FS_Interval
  <2>2. Played(events) \subseteq DOMAIN events /\ last \subseteq Played(events)
    BY DEF Played, LastPlayed
  <2> QED
    BY <2>1, <2>2, FS_Subset
<1>2. \A i \in last : IsFiniteSet(Ahead(events, i)) /\ Cardinality(Ahead(events, i)) < FormWindow
  <2>1. \A i \in last : Ahead(events, i) \subseteq Played(events)
    BY DEF Ahead
  <2> QED
    BY <1>1, <2>1, FS_Subset DEF LastPlayed
<1>3. CASE last = {}
  BY <1>1, <1>3, FS_EmptySet, GoalsAssumption
<1>4. CASE last # {}
  <2> DEFINE X == {Later(i) : i \in last}
  <2>1. X \subseteq SUBSET last /\ X # {}
    BY <1>4
  <2>2. PICK m \in X : \A t \in X : t \subseteq m => t = m
    <3> HIDE DEF X, last
    <3> QED
      BY <1>1, <2>1, MinimalSubset
  <2>3. PICK i \in last : m = Later(i)
    BY <2>2
  <2>4. \A j \in last : i \notin Ahead(events, j)
    <3> SUFFICES ASSUME NEW j \in last, i \in Ahead(events, j) PROVE FALSE
      OBVIOUS
    <3>1. i \in Played(events) /\ j \in Played(events)
      BY <1>1
    <3>2. Later(j) \subseteq Later(i)
      <4>1. ASSUME NEW l \in last, j \in Ahead(events, l) PROVE i \in Ahead(events, l)
        <5>1. l \in Played(events)
          BY <1>1
        <5> QED
          BY <3>1, <4>1, <5>1, AheadIsAnOrder
      <4> QED
        BY <4>1
    <3>3. Later(j) = Later(i)
      BY <2>2, <2>3, <3>2
    <3>4. j \in Later(i) /\ j \notin Later(j)
      BY <3>1, AheadIsAnOrder
    <3> QED
      BY <3>3, <3>4
  <2>5. last \ {i} \subseteq Ahead(events, i)
    <3> SUFFICES ASSUME NEW j \in last, j # i PROVE j \in Ahead(events, i)
      OBVIOUS
    <3>1. i \in Played(events) /\ j \in Played(events) /\ i \notin Ahead(events, j)
      BY <1>1, <2>4
    <3> QED
      BY <3>1, AheadIsAnOrder
  <2> HIDE DEF last
  <2>6. Cardinality(last \ {i}) <= Cardinality(Ahead(events, i))
    BY <1>2, <2>5, FS_Subset
  <2>7. Cardinality(last) \in Nat /\ Cardinality(last \ {i}) = Cardinality(last) - 1
    BY <1>1, FS_RemoveElement, FS_CardinalityType
  <2>8. Cardinality(Ahead(events, i)) \in Nat /\ Cardinality(Ahead(events, i)) < FormWindow
    BY <1>2, FS_CardinalityType
  <2>9. Cardinality(last) \in 0 .. FormWindow
    BY <2>6, <2>7, <2>8, GoalsAssumption
  <2> QED
    BY <1>1, <2>9 DEF last
<1> QED
  BY <1>3, <1>4

LEMMA SizeApart ==
  ASSUME NEW A, NEW B, IsFiniteSet(A), IsFiniteSet(B), A \intersect B = {}
  PROVE  Cardinality(A \union B) = Cardinality(A) + Cardinality(B)
<1>1. Cardinality(A \union B) = Cardinality(A) + Cardinality(B) - Cardinality(A \intersect B)
  BY FS_Union
<1>2. Cardinality(A \intersect B) = 0
  BY FS_EmptySet
<1>3. Cardinality(A) \in Nat /\ Cardinality(B) \in Nat
  BY FS_CardinalityType
<1> QED
  BY <1>1, <1>2, <1>3

LEMMA FormIsValid ==
  ASSUME NEW events \in Seq(Events)
  PROVE  TeamForm(events) \in TeamForms
<1> DEFINE last == LastPlayed(events)
           won == {i \in last : events[i].ours > events[i].theirs}
           drawn == {i \in last : events[i].ours = events[i].theirs}
           lost == {i \in last : events[i].ours < events[i].theirs}
           scored == SumFunctionOnSet([i \in last |-> events[i].ours], last)
           conceded == SumFunctionOnSet([i \in last |-> events[i].theirs], last)
<1>1. IsFiniteSet(last) /\ Cardinality(last) \in 0 .. FormWindow
  BY WindowIsKept
<1>2. \A i \in last : events[i].ours \in Nat /\ events[i].theirs \in Nat
  <2>1. \A i \in last : i \in DOMAIN events /\ Usable(events[i])
    BY DEF LastPlayed, Played
  <2>2. \A i \in DOMAIN events : events[i] \in Events
    OBVIOUS
  <2> QED
    BY <2>1, <2>2 DEF Usable, Events
<1>3. TeamForm(events) =
        [played |-> Cardinality(last), wins |-> Cardinality(won), draws |-> Cardinality(drawn),
         losses |-> Cardinality(lost), goals_for |-> scored, goals_against |-> conceded]
  BY DEF TeamForm
<1> HIDE DEF last
<1>4. scored \in Nat /\ conceded \in Nat
  <2> DEFINE f == [i \in last |-> events[i].ours]
             g == [i \in last |-> events[i].theirs]
  <2>1. \A i \in last : f[i] \in Nat /\ g[i] \in Nat
    BY <1>2
  <2> HIDE DEF f, g
  <2>2. SumFunctionOnSet(f, last) \in Nat /\ SumFunctionOnSet(g, last) \in Nat
    BY <1>1, <2>1, SumOfNaturals
  <2> QED
    BY <2>2 DEF f, g
<1>5. /\ (won \union drawn) \union lost = last
      /\ won \intersect drawn = {} /\ (won \union drawn) \intersect lost = {}
  BY <1>2
<1>6. won \subseteq last /\ drawn \subseteq last /\ lost \subseteq last /\ won \union drawn \subseteq last
  OBVIOUS
<1> HIDE DEF won, drawn, lost, scored, conceded
<1>7. IsFiniteSet(won) /\ IsFiniteSet(drawn) /\ IsFiniteSet(lost) /\ IsFiniteSet(won \union drawn)
  BY <1>1, <1>6, FS_Subset
<1>8. /\ Cardinality(won) \in Nat /\ Cardinality(drawn) \in Nat /\ Cardinality(lost) \in Nat
      /\ Cardinality(won \union drawn) = Cardinality(won) + Cardinality(drawn)
      /\ Cardinality((won \union drawn) \union lost) = Cardinality(won \union drawn) + Cardinality(lost)
  BY <1>5, <1>7, SizeApart, FS_CardinalityType
<1>9. Cardinality(won) + Cardinality(drawn) + Cardinality(lost) = Cardinality(last)
  BY <1>5, <1>8
<1> QED
  BY <1>1, <1>3, <1>4, <1>8, <1>9 DEF TeamForms

(* The validation of TeamForm rejects no form that the mapper makes, however *)
(* the scores are listed: at most FormWindow matches, each won, drawn or     *)
(* lost. Those of at least one match are the forms that Offers prices.       *)
THEOREM FormsAreValid == Spec => [](topic = "form" => TeamForm(payload) \in TeamForms)
<1>1. OffersInv => (topic = "form" => TeamForm(payload) \in TeamForms)
  <2>1. Seq(ScoreEvents) \subseteq Seq(Events)
    BY OffersAssumption
  <2> QED
    BY <2>1, FormIsValid DEF OffersInv
<1> QED
  BY <1>1, OffersAreTyped, PTL
=============================================================================
