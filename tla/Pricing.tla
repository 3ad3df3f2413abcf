------------------------------- MODULE Pricing -------------------------------
(***************************************************************************)
(* What a local quote is worth at a probability: the edge over the odds    *)
(* (ev_calculator.py), the stake (kelly.py) and the bet that every         *)
(* detector builds of the two.  Settings are                               *)
(* [strategy, threshold, kelly, weight].                                   *)
(***************************************************************************)
EXTENDS Ratios, Sequences

Edge(p, odds) == Minus(Times(p, odds), One)

Exceeds(settings, edge) == Less(settings.threshold, edge)

(* The Kelly fraction, scaled down and capped at the whole bankroll. *)
KellyStake(settings, p, odds) ==
  LET b == Minus(odds, One)
      sized == Times(Over(Minus(Times(b, p), Minus(One, p)), b), settings.kelly)
  IN  IF Less(One, sized) THEN One ELSE sized

TryBuild(settings, quote, p, source) ==
  LET stake == KellyStake(settings, p, quote.odds)
  IN  IF Exceeds(settings, Edge(p, quote.odds)) /\ Less(Zero, stake)
      THEN <<[outcome |-> quote.outcome, odds |-> quote.odds, fair |-> p,
              stake |-> stake, source |-> source]>>
      ELSE <<>>
=============================================================================
