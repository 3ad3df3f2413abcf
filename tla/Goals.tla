-------------------------------- MODULE Goals --------------------------------
(***************************************************************************)
(* From the results of The Odds API to the probabilities of a match: the   *)
(* TeamForm of mappers.py, the TeamStrength of team_strength.py, and the   *)
(* grid of scores of DixonColesModel (xg_model.py).                        *)
(*                                                                         *)
(* A score event is [time, completed, involved, ours, theirs] as one team  *)
(* sees it; goals that are missing, or are no number, are NoScore.         *)
(* The exponentials of the Poisson weights are one factor of the whole     *)
(* grid, which the normalization cancels: cells are integers in proportion *)
(* to the probabilities.                                                   *)
(***************************************************************************)
EXTENDS Ratios, SequencesExt

CONSTANTS
  FormWindow,      \* _FORM_WINDOW, 10
  NoScore,         \* a missing or unreadable score
  LeagueAverage,   \* LEAGUE_AVERAGE_GOALS
  HomeAdvantage,   \* home_advantage of the model
  Rho,             \* rho of the model, -0.1 unless it is given
  MaxGoals         \* max_goals of the model, 10

(* DixonColesModel and calculate_team_strength refuse what is not positive,  *)
(* and a grid without a goal; a rho of either sign is let through.           *)
ASSUME GoalsAssumption ==
  /\ FormWindow \in Nat \ {0} /\ MaxGoals \in Nat \ {0}
  /\ LeagueAverage \in Fractions /\ Less(Zero, LeagueAverage)
  /\ HomeAdvantage \in Fractions /\ Less(Zero, HomeAdvantage)
  /\ Rho \in Fractions

(* The totals lines 1.5, 2.5 and 3.5, written as their floor. *)
Lines == 1 .. 3

-----------------------------------------------------------------------------
(* Form *)

Events ==
  [time : Int, completed : BOOLEAN, involved : BOOLEAN,
   ours : Nat \union {NoScore}, theirs : Nat \union {NoScore}]

(* A completed event between the team and another. *)
Match(t, ours, theirs) ==
  [time |-> t, completed |-> TRUE, involved |-> TRUE, ours |-> ours, theirs |-> theirs]

Usable(e) == e.completed /\ e.involved /\ e.ours # NoScore /\ e.theirs # NoScore

Played(events) == {i \in DOMAIN events : Usable(events[i])}

(* [mutant] The payload is taken to be sorted. *)
AheadByPosition(events, i) == {j \in Played(events) : j < i}

(* What a sort by time, latest first, puts ahead of i: it is stable. *)
Ahead(events, i) ==
  {j \in Played(events) :
     \/ events[j].time > events[i].time
     \/ events[j].time = events[i].time /\ j < i}

LastPlayed(events) == {i \in Played(events) : Cardinality(Ahead(events, i)) < FormWindow}

TeamForm(events) ==
  LET last == LastPlayed(events)
  IN  [played |-> Cardinality(last),
       wins   |-> Cardinality({i \in last : events[i].ours > events[i].theirs}),
       draws  |-> Cardinality({i \in last : events[i].ours = events[i].theirs}),
       losses |-> Cardinality({i \in last : events[i].ours < events[i].theirs}),
       goals_for     |-> SumFunctionOnSet([i \in last |-> events[i].ours], last),
       goals_against |-> SumFunctionOnSet([i \in last |-> events[i].theirs], last)]

-----------------------------------------------------------------------------
(* Strength and expected goals; a form of no matches raises. *)

TeamForms ==
  {f \in [played : 0 .. FormWindow, wins : Nat, draws : Nat, losses : Nat,
          goals_for : Nat, goals_against : Nat] : f.wins + f.draws + f.losses = f.played}

Attack(form)  == Over(Frac(form.goals_for, form.played), LeagueAverage)
Defense(form) == Over(Frac(form.goals_against, form.played), LeagueAverage)

LambdaHome(home, away) ==
  Reduced(Times(Times(LeagueAverage, HomeAdvantage), Times(Attack(home), Defense(away))))
LambdaAway(home, away) == Reduced(Times(LeagueAverage, Times(Attack(away), Defense(home))))

-----------------------------------------------------------------------------
(* The grid of scores *)

Scores == (0 .. MaxGoals) \X (0 .. MaxGoals)

(* The product of f[1] to f[k]. *)
Product(f, k) ==
  LET upTo[i \in 0 .. k] == IF i = 0 THEN 1 ELSE f[i] * upTo[i - 1]
  IN  upTo[k]

(* As Python has it, where 0 ** 0 is 1. *)
Power(n, k) == Product([i \in 1 .. k |-> n], k)

(* lambda^k / k!, times MaxGoals! and the denominator of lambda^MaxGoals. *)
Poisson(k, lambda) ==
  Power(lambda.num, k) * Power(lambda.den, MaxGoals - k)
    * Product([i \in 1 .. MaxGoals - k |-> k + i], MaxGoals - k)

Tau(x, y, lh, la) ==
  CASE x = 0 /\ y = 0 -> Minus(One, Times(Times(lh, la), Rho))
    [] x = 0 /\ y = 1 -> Plus(One, Times(lh, Rho))
    [] x = 1 /\ y = 0 -> Plus(One, Times(la, Rho))
    [] x = 1 /\ y = 1 -> Minus(One, Rho)
    [] OTHER -> One

(* Tau over the denominator that all of its cases share. *)
TauUnits(x, y, lh, la) ==
  LET tau == Tau(x, y, lh, la)
  IN  tau.num * ((lh.den * la.den * Rho.den) \div tau.den)

(* [mutant] Cells may be negative. *)
UnflooredCell(x, y, lh, la) == TauUnits(x, y, lh, la) * Poisson(x, lh) * Poisson(y, la)

(* A correction below zero is floored. *)
Cell(x, y, lh, la) ==
  IF TauUnits(x, y, lh, la) < 0 THEN 0
  ELSE TauUnits(x, y, lh, la) * Poisson(x, lh) * Poisson(y, la)

ScoreMatrix(lh, la) == [s \in Scores |-> Cell(s[1], s[2], lh, la)]

Mass(matrix, scores) == SumFunctionOnSet(matrix, scores)

HomeWins == {s \in Scores : s[1] > s[2]}
Draws    == {s \in Scores : s[1] = s[2]}
AwayWins == {s \in Scores : s[1] < s[2]}
Above(k) == {s \in Scores : s[1] + s[2] > k}
BothScore == {s \in Scores : s[1] >= 1 /\ s[2] >= 1}

(* What the markets are worth, in proportion to the whole grid. *)
MatchProbabilities(home, away) ==
  LET matrix == ScoreMatrix(LambdaHome(home, away), LambdaAway(home, away))
      whole == Mass(matrix, Scores)
      over == [k \in Lines |-> Mass(matrix, Above(k))]
      btts == Mass(matrix, BothScore)
  IN  [whole |-> whole,
       home |-> Mass(matrix, HomeWins),
       draw |-> Mass(matrix, Draws),
       away |-> Mass(matrix, AwayWins),
       over |-> over, under |-> [k \in Lines |-> whole - over[k]],
       yes |-> btts, no |-> whole - btts]
=============================================================================
