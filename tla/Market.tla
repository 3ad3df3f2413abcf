------------------------------- MODULE Market -------------------------------
(***************************************************************************)
(* How a 1X2 market becomes value bets: the sharp quotes that mappers.py   *)
(* reads from an event of The Odds API, the fair probabilities that        *)
(* MarketValueDetector takes the margin out of (detector.py, devig.py),    *)
(* and the double confirmation of MatchValueDetector.                      *)
(*                                                                         *)
(* An event is the sequence of its lines [book, market, name, price].      *)
(* Shin's and the power method solve equations over the reals and are left *)
(* out.  A detection is [raised, bets].                                    *)
(***************************************************************************)
EXTENDS Pricing, SequencesExt

CONSTANTS
  HomeTeam, AwayTeam,  \* the teams as the event names them
  SharpBook            \* SHARP_BOOKMAKER

-----------------------------------------------------------------------------
(* The adapter *)

(* What a payload holds of an event, flattened to its lines. *)
EventLines(names, prices) ==
  [book : {SharpBook, "other"}, market : {"h2h", "totals"}, name : names, price : prices]

(* [mutant] The name that is left over is taken for the home team. *)
LabelHomeLast(name) ==
  IF name = AwayTeam THEN "Away" ELSE IF name = "Draw" THEN "Draw" ELSE "Home"

Label(name) ==
  IF name = HomeTeam THEN "Home" ELSE IF name = AwayTeam THEN "Away" ELSE "Draw"

(* The lines of the sharp book's 1X2 market, appended one by one.  *)
SharpLines(event) ==
  LET kept[n \in 0 .. Len(event)] ==
        IF n = 0 THEN <<>>
        ELSE IF event[n].book = SharpBook /\ event[n].market = "h2h"
             THEN Append(kept[n - 1], event[n]) ELSE kept[n - 1]
  IN  kept[Len(event)]

(* DecimalOdds refuses a price of 1 or less, and with it the event. *)
Unmappable(event) == \E i \in DOMAIN SharpLines(event) : Leq(SharpLines(event)[i].price, One)

SharpQuotes(event) ==
  [i \in DOMAIN SharpLines(event) |->
     [outcome |-> Label(SharpLines(event)[i].name), odds |-> SharpLines(event)[i].price]]

-----------------------------------------------------------------------------
(* Taking the margin out *)

Raw(quotes) == [i \in DOMAIN quotes |-> Over(One, quotes[i].odds)]
Total(quotes) ==
  LET sum[n \in 0 .. Len(quotes)] == IF n = 0 THEN Zero ELSE Plus(sum[n - 1], Raw(quotes)[n])
  IN  Reduced(sum[Len(quotes)])

Multiplicative(quotes) == [i \in DOMAIN quotes |-> Reduced(Over(Raw(quotes)[i], Total(quotes)))]

Share(quotes) == Over(Minus(Total(quotes), One), Frac(Len(quotes), 1))
Additive(quotes) == [i \in DOMAIN quotes |-> Reduced(Minus(Raw(quotes)[i], Share(quotes)))]

Devig(strategy, quotes) ==
  IF strategy = "additive" THEN Additive(quotes) ELSE Multiplicative(quotes)

(* A market of one outcome, or a longshot that the additive method takes below 0. *)
DevigRaises(strategy, quotes) ==
  \/ Len(quotes) < 2
  \/ \E i \in DOMAIN quotes : ~IsProbability(Devig(strategy, quotes)[i])

Quoted(quotes) == {quotes[i].outcome : i \in DOMAIN quotes}

(* [mutant] The probabilities come back in another order than the quotes. *)
FairReversed(strategy, quotes, outcome) ==
  Reverse(Devig(strategy, quotes))[Max({i \in DOMAIN quotes : quotes[i].outcome = outcome})]

(* The dictionary keeps the last of two quotes of one outcome. *)
FairProbability(strategy, quotes, outcome) ==
  Devig(strategy, quotes)[Max({i \in DOMAIN quotes : quotes[i].outcome = outcome})]

-----------------------------------------------------------------------------
(* MarketValueDetector *)

Raised == [raised |-> TRUE, bets |-> <<>>]
Priced(tried) == [raised |-> FALSE, bets |-> FlattenSeq(tried)]

(* There is no fair probability for some local quote. *)
Uncoverable(settings, sharp, local) ==
  DevigRaises(settings.strategy, sharp) \/ ~(Quoted(local) \subseteq Quoted(sharp))

MarketDetect(settings, sharp, local) ==
  LET Fair(q) == FairProbability(settings.strategy, sharp, q.outcome)
  IN  IF Uncoverable(settings, sharp, local) THEN Raised
      ELSE Priced([i \in DOMAIN local |-> TryBuild(settings, local[i], Fair(local[i]), "MARKET")])

(* MatchValueDetector in INDEPENDENT mode; model maps outcomes to probabilities. *)
DetectIndependent(settings, model, local) ==
  Priced([i \in DOMAIN local |-> TryBuild(settings, local[i], model[local[i].outcome], "STATISTICAL")])

(* [mutant] One opinion is enough. *)
EitherAgrees(settings, q, market, statistical) ==
  Exceeds(settings, Edge(market, q.odds)) \/ Exceeds(settings, Edge(statistical, q.odds))

BothAgree(settings, q, market, statistical) ==
  Exceeds(settings, Edge(market, q.odds)) /\ Exceeds(settings, Edge(statistical, q.odds))

(* In CONFIRMATION mode the blend of the two probabilities is what is bet on. *)
DetectWithConfirmation(settings, model, sharp, local) ==
  LET Fair(q) == FairProbability(settings.strategy, sharp, q.outcome)
      Blended(q) == Blend(settings.weight, Fair(q), model[q.outcome])
      Build(q) == IF BothAgree(settings, q, Fair(q), model[q.outcome])
                  THEN TryBuild(settings, q, Blended(q), "BOTH") ELSE <<>>
  IN  IF Uncoverable(settings, sharp, local) THEN Raised
      ELSE Priced([i \in DOMAIN local |-> Build(local[i])])
=============================================================================
