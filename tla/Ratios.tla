------------------------------- MODULE Ratios -------------------------------
(***************************************************************************)
(* Exact fractions, in which the arithmetic of the models is written: the  *)
(* code computes in floats, and the rounding of floats is left out.        *)
(* Operators do not reduce what they return; Reduced keeps the numbers of  *)
(* a long computation small enough for TLC's 32 bits.                      *)
(***************************************************************************)
EXTENDS Integers

Fractions == [num : Int, den : Nat \ {0}]

Frac(n, d) == [num |-> n, den |-> d]   \* d > 0
Zero == Frac(0, 1)
One  == Frac(1, 1)

Plus(p, q)  == Frac(p.num * q.den + q.num * p.den, p.den * q.den)
Minus(p, q) == Frac(p.num * q.den - q.num * p.den, p.den * q.den)
Times(p, q) == Frac(p.num * q.num, p.den * q.den)
Over(p, q)  == Frac(p.num * q.den, p.den * q.num)   \* q > 0

Less(p, q) == p.num * q.den < q.num * p.den
Leq(p, q)  == p.num * q.den <= q.num * p.den
Same(p, q) == p.num * q.den = q.num * p.den

Gcd[n \in Nat] == [m \in Nat |-> IF n = 0 THEN m ELSE Gcd[m % n][n]]
Reduced(p) ==
  LET g == Gcd[p.den][IF p.num < 0 THEN -p.num ELSE p.num]
  IN  Frac(p.num \div g, p.den \div g)

IsProbability(p) == Leq(Zero, p) /\ Leq(p, One)
Probabilities == {p \in Fractions : IsProbability(p)}

(* The weighted mean w p + (1 - w) q.  *)
Blend(w, p, q) ==
  Frac(w.num * p.num * q.den + (w.den - w.num) * q.num * p.den, w.den * p.den * q.den)
=============================================================================
