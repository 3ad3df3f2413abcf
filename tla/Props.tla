-------------------------------- MODULE Props --------------------------------
(***************************************************************************)
(* How a player prop becomes a value bet: what the Sportmonks adapter      *)
(* makes of a lineup and of an injury report (player_stats/provider.py and *)
(* mappers.py), how DetectPlayerPropValueBetsUseCase finds the player and  *)
(* what is known of him, and how PlayerPropDetector discounts the model's  *)
(* probability by its confidence (player_model.py).                        *)
(*                                                                         *)
(* A lineup is [official, entries], with entries [player, starting]; an    *)
(* injury report is a sequence of [player, status].  Names are compared    *)
(* without case.  The Poisson tail is beyond exact arithmetic: the model's *)
(* probability is an input, its expected count is computed.                *)
(***************************************************************************)
EXTENDS Pricing, SequencesExt

CONSTANTS
  Players,        \* player ids of Sportmonks
  Name,           \* the name of each player, in lower case
  History,        \* recent matches of each, the latest first: [started, minutes, count]
  Alpha,          \* ewma_alpha
  FullMatch, BenchMinutes,  \* expected minutes of a starter, of a substitute
  UnconfirmedPenalty, AbsencePenalty  \* the two penalties of PlayerPropDetector

(* What confidence_penalty accepts.  *)
ASSUME PenaltyAssumption == UnconfirmedPenalty \in Probabilities /\ AbsencePenalty \in Probabilities

(* What PlayerMatchStats and PoissonPropsModel accept. *)
ASSUME HistoryAssumption ==
  /\ \A p \in Players : History[p] \in Seq([started : BOOLEAN, minutes : Nat, count : Nat])
  /\ Alpha \in Probabilities /\ Less(Zero, Alpha)
  /\ FullMatch \in Fractions /\ Less(Zero, FullMatch) /\ BenchMinutes \in Fractions

Half == Frac(1, 2)

-----------------------------------------------------------------------------
(* The adapter *)

LineupEntries == [player : Players, starting : BOOLEAN]
InjuryEntries(texts) == [player : Players, status : texts]

(* [mutant] What cannot be read is taken for good news. *)
UnreadIsFit(raw) ==
  CASE raw \in {"doubtful", "questionable"} -> "DOUBTFUL"
    [] raw \in {"injured", "out"} -> "INJURED"
    [] raw = "suspended" -> "SUSPENDED"
    [] OTHER -> "FIT"

(* _INJURY_STATUS_MAP: any other text is unknown. *)
StatusOfText(raw) ==
  CASE raw = "fit" -> "FIT"
    [] raw \in {"doubtful", "questionable"} -> "DOUBTFUL"
    [] raw \in {"injured", "out"} -> "INJURED"
    [] raw = "suspended" -> "SUSPENDED"
    [] OTHER -> "unknown"

(* Entries of unknown status are dropped: the positions of the others. *)
InjuryStatuses(report) == {i \in DOMAIN report : StatusOfText(report[i].status) # "unknown"}

(* estimate_start_probability *)
StartRate(history) ==
  IF history = <<>> THEN Half
  ELSE Frac(Len(SelectSeq(history, LAMBDA h : h.started)), Len(history))

StartProbability(official, entry) ==
  IF ~official THEN StartRate(History[entry.player])
  ELSE IF entry.starting THEN One ELSE Zero

-----------------------------------------------------------------------------
(* The use case: later entries replace earlier ones in every dictionary. *)

Latest(list, hits) == {list[i] : i \in {j \in hits : \A k \in hits : k <= j}}

(* The player of that name, an injured one before one of the lineup: a set of at most one. *)
Resolved(lineup, report, name) ==
  LET injured == {i \in InjuryStatuses(report) : Name[report[i].player] = name}
      listed == {i \in DOMAIN lineup.entries : Name[lineup.entries[i].player] = name}
  IN  {e.player : e \in IF injured # {} THEN Latest(report, injured)
                        ELSE Latest(lineup.entries, listed)}

LineupOf(lineup, p) ==
  Latest(lineup.entries, {i \in DOMAIN lineup.entries : lineup.entries[i].player = p})
InjuryOf(report, p) ==
  Latest(report, {i \in InjuryStatuses(report) : report[i].player = p})

-----------------------------------------------------------------------------
(* The model *)

(* expected_minutes_from_lineup: a player whom no lineup lists plays a full match. *)
ExpectedMinutes(lineup, p) ==
  IF LineupOf(lineup, p) = {} THEN FullMatch
  ELSE LET e == CHOOSE e \in LineupOf(lineup, p) : TRUE
       IN  Blend(StartProbability(lineup.official, e), FullMatch, BenchMinutes)

Appearances(history) == {i \in DOMAIN history : history[i].minutes > 0}

PerMatch(h) == Times(Frac(h.count, h.minutes), FullMatch)

(* The sums over the first n matches, and the weight of the next appearance  *)
(* relative to the latest: the factor alpha that all weights share cancels.  *)
Weigh(sums, h) ==
  IF h.minutes = 0 THEN sums
  ELSE [weight |-> Reduced(Times(sums.weight, Minus(One, Alpha))),
        total |-> Reduced(Plus(sums.total, sums.weight)),
        rates |-> Reduced(Plus(sums.rates, Times(sums.weight, PerMatch(h))))]

(* _ewma_per_90_rate over the matches the player appeared in. *)
RatePerMatch(history) ==
  LET sums[n \in 0 .. Len(history)] ==
        IF n = 0 THEN [weight |-> One, total |-> Zero, rates |-> Zero]
        ELSE Weigh(sums[n - 1], history[n])
  IN  Over(sums[Len(history)].rates, sums[Len(history)].total)

(* lambda of the Poisson model *)
ExpectedCount(lineup, p) ==
  Times(RatePerMatch(History[p]), Over(ExpectedMinutes(lineup, p), FullMatch))

Officially(lineup, p) == lineup.official /\ LineupOf(lineup, p) # {}

Absent(report, p) ==
  \E i \in InjuryOf(report, p) : StatusOfText(i.status) \in {"DOUBTFUL", "INJURED", "SUSPENDED"}

Confidence(lineup, report, p) ==
  Times(IF Officially(lineup, p) THEN One ELSE Minus(One, UnconfirmedPenalty),
        IF Absent(report, p) THEN Minus(One, AbsencePenalty) ELSE One)

(* [mutant] The discount pulls the probability to zero. *)
ShrunkProbability(model, odds, confidence) == Times(confidence, model)

(* confidence_adjusted_probability: towards the break-even probability of the odds. *)
Discounted(model, odds, confidence) == Blend(confidence, model, Over(One, odds))

-----------------------------------------------------------------------------
(* PlayerPropDetector.detect for a prop [name, odds] of which the model says p. *)

(* No appearance to compute a rate from: the detector raises. *)
NoRate(p) == Appearances(History[p]) = {}

PriceProp(settings, lineup, report, prop, model) ==
  {[player |-> p,
    minutes |-> ExpectedMinutes(lineup, p),
    expected |-> ExpectedCount(lineup, p),
    confidence |-> Confidence(lineup, report, p),
    bets |-> LET fair == Discounted(model, prop.odds, Confidence(lineup, report, p))
             IN  TryBuild(settings, [outcome |-> prop.name, odds |-> prop.odds], fair, "STATISTICAL")]
   : p \in {q \in Resolved(lineup, report, prop.name) : ~NoRate(q)}}
=============================================================================
