------------------------------- MODULE Offers -------------------------------
(***************************************************************************)
(* What the pricing modules make of what arrives: an event of the sharp    *)
(* book, the scores of a team, the forms of two, or a lineup with an       *)
(* injury report.  A behaviour chooses what it is about and receives it    *)
(* line by line or entry by entry, under any configuration.                *)
(***************************************************************************)
EXTENDS Market, Goals, Props

CONSTANTS
  Settings,     \* configurations [strategy, threshold, kelly, weight]
  TeamNames, Prices,  \* the names and prices of the lines of an event
  Strays,       \* lines that the request does not ask for
  LocalGroups,  \* the quotes of one local market
  Models,       \* probabilities of a statistical model, by outcome
  ScoreEvents,  \* events of the scores endpoint
  Forms,        \* forms of a team
  Reports,      \* entries of an injury report
  PropMarkets,  \* quotes of a player prop: [name, odds]
  Chances       \* probabilities of the model of a prop
CONSTANTS MarketSize, MaxForm, MaxEntries  \* bounds: lines of a market, events, entries

Sides == {"Home", "Draw", "Away"}
Odds == {o \in Fractions : Less(One, o)}
Lines1X2 == EventLines(STRING, Fractions)

(* Settings bounds its fields, and Stake, Probability and DecimalOdds theirs. *)
ASSUME SettingsAssumption ==
  \A c \in Settings :
    /\ c.threshold \in Fractions /\ Leq(Zero, c.threshold)
    /\ c.kelly \in Probabilities /\ c.weight \in Probabilities

ASSUME OffersAssumption ==
  /\ TeamNames \subseteq STRING /\ Prices \subseteq Fractions
  /\ Strays \subseteq Lines1X2
  /\ \A local \in LocalGroups : local \in Seq([outcome : Sides, odds : Odds])
  /\ Models \subseteq [Sides -> Probabilities]
  /\ ScoreEvents \subseteq Events
  /\ Forms \subseteq {f \in TeamForms : f.played > 0}
  /\ Reports \subseteq InjuryEntries(STRING)
  /\ \A prop \in PropMarkets : prop.odds \in Odds
  /\ Chances \subseteq Probabilities

VARIABLES
  topic,     \* "market", "form", "score" or "prop"
  settings,  \* the configuration
  payload    \* what has arrived so far

vars == <<topic, settings, payload>>

-----------------------------------------------------------------------------
Init ==
  \/ topic = "market" /\ settings \in Settings
     /\ payload \in {<<>>} \union {<<l>> : l \in Strays}
  \/ topic = "form" /\ settings = "none" /\ payload = <<>>
  \/ topic = "score" /\ settings = "none" /\ payload \in Forms \X Forms
  \/ topic = "prop" /\ settings \in {s \in Settings : s.strategy = "multiplicative"}
     /\ payload \in [official : BOOLEAN, entries : {<<>>}, report : {<<>>}]

(* An outcome has one line. *)
ReceiveLine ==
  /\ topic = "market"
  /\ Len(SharpLines(payload)) < MarketSize
  /\ \E name \in TeamNames, price \in Prices :
       /\ \A i \in DOMAIN SharpLines(payload) : SharpLines(payload)[i].name # name
       /\ payload' = Append(payload, [book |-> SharpBook, market |-> "h2h", name |-> name, price |-> price])
  /\ UNCHANGED <<topic, settings>>

ReceiveResult ==
  /\ topic = "form" /\ Len(payload) < MaxForm
  /\ \E e \in ScoreEvents : ~Contains(payload, e) /\ payload' = Append(payload, e)
  /\ UNCHANGED <<topic, settings>>

ReceiveEntry ==
  /\ topic = "prop" /\ Len(payload.entries) < MaxEntries /\ payload.report = <<>>
  /\ \E e \in LineupEntries : payload' = [payload EXCEPT !.entries = Append(@, e)]
  /\ UNCHANGED <<topic, settings>>

ReceiveReport ==
  /\ topic = "prop" /\ Len(payload.report) < MaxEntries
  /\ \E i \in Reports : payload' = [payload EXCEPT !.report = Append(@, i)]
  /\ UNCHANGED <<topic, settings>>

Next == ReceiveLine \/ ReceiveResult \/ ReceiveEntry \/ ReceiveReport

Spec == Init /\ [][Next]_vars

-----------------------------------------------------------------------------
(* Match bets *)

Mapped == topic = "market" /\ SharpQuotes(payload) # <<>> /\ ~Unmappable(payload)

Outcomes(detection) == {detection.bets[i].outcome : i \in DOMAIN detection.bets}

(* In CONFIRMATION mode the bets are on exactly the outcomes that the market *)
(* model and the statistical model would each bet on by itself: the blend of *)
(* two probabilities that clear the threshold is never dropped by the        *)
(* second check of _try_build_value_bet, at any weight.                      *)
ConfirmedIsTheIntersection ==
  Mapped =>
    \A local \in LocalGroups, model \in Models :
      LET sharp == SharpQuotes(payload)
          market == MarketDetect(settings, sharp, local)
          both == DetectWithConfirmation(settings, model, sharp, local)
      IN  /\ both.raised = market.raised
          /\ ~both.raised => Outcomes(both) =
               Outcomes(market) \intersect Outcomes(DetectIndependent(settings, model, local))

(* Where the sharp book takes a margin and every outcome has its own label,  *)
(* a bet of the market model is at longer odds than the sharp book's.        *)
ValueBeatsTheSharpPrice ==
  Mapped =>
    LET sharp == SharpQuotes(payload)
    IN  Cardinality(Quoted(sharp)) = Len(sharp) /\ Leq(One, Total(sharp)) =>
          \A local \in LocalGroups :
            LET found == MarketDetect(settings, sharp, local).bets
            IN  \A i \in DOMAIN found, j \in DOMAIN sharp :
                  found[i].outcome = sharp[j].outcome => Less(sharp[j].odds, found[i].odds)

(* A full local market is only ever priced against an event in which both    *)
(* teams stand under their own names: a team that the payload spells in      *)
(* another way becomes a second "Draw" and is refused, not priced as one.    *)
MisnamedMarketIsNeverPriced ==
  Mapped =>
    \A local \in {g \in LocalGroups : Quoted(g) = Sides}, model \in Models :
      \/ DetectWithConfirmation(settings, model, SharpQuotes(payload), local).raised
      \/ {HomeTeam, AwayTeam} \subseteq {SharpLines(payload)[i].name : i \in DOMAIN SharpLines(payload)}

(* The form of a team that plays one match at a time is that of its latest   *)
(* results, in whatever order the scores endpoint lists them and whatever    *)
(* unusable events are among them.                                           *)
FormIgnoresPayloadOrder ==
  topic = "form" /\ (\A i, j \in Played(payload) : payload[i].time = payload[j].time => i = j) =>
    \A order \in Bijection(DOMAIN payload, DOMAIN payload) :
      TeamForm([i \in DOMAIN payload |-> payload[order[i]]]) = TeamForm(payload)

(* The markets of one match agree with each other: chances are no less than  *)
(* nothing and no more than the whole, a higher line is no likelier, and     *)
(* both teams scoring is no likelier than two goals. Also where the          *)
(* correction of low scores would take a cell below zero.                    *)
ScoreMarketsAreCoherent ==
  topic = "score" =>
    LET p == MatchProbabilities(payload[1], payload[2])
    IN  /\ p.whole > 0
        /\ p.home + p.draw + p.away = p.whole
        /\ \A part \in {p.home, p.draw, p.away, p.yes, p.no} : part \in 0 .. p.whole
        /\ \A k \in Lines : p.over[k] \in 0 .. p.whole /\ p.under[k] \in 0 .. p.whole
        /\ p.over[3] <= p.over[2] /\ p.over[2] <= p.over[1] /\ p.yes <= p.over[1]

-----------------------------------------------------------------------------
(* Player props *)

PricedProps(config, prop, chance) == PriceProp(config, payload, payload.report, prop, chance)

(* Discounting a probability by its confidence discounts the edge by as      *)
(* much: no prop is a bet that would not be one at full confidence, and the  *)
(* stake is no larger.                                                       *)
DiscountScalesTheEdge ==
  topic = "prop" =>
    \A prop \in PropMarkets, chance \in Chances :
      \A priced \in PricedProps(settings, prop, chance) :
        LET full == TryBuild(settings, [outcome |-> prop.name, odds |-> prop.odds], chance, "STATISTICAL")
            bets == priced.bets
        IN  bets # <<>> =>
              /\ full # <<>>
              /\ Leq(bets[1].stake, full[1].stake)
              /\ Same(Edge(bets[1].fair, prop.odds), Times(priced.confidence, Edge(chance, prop.odds)))

(* Where both penalties discount, a prop is priced at full confidence only   *)
(* if the player himself, and no namesake, is in an official lineup, and the *)
(* last report on him that could be read, if any, calls him fit; the count   *)
(* is then expected from his own matches, over a full match if he starts and *)
(* off the bench if not.                                                     *)
FullConfidenceNeedsEvidence ==
  topic = "prop" /\ Less(Zero, UnconfirmedPenalty) /\ Less(Zero, AbsencePenalty) =>
    \A prop \in PropMarkets :
      \A priced \in PricedProps(settings, prop, Half) :
        Same(priced.confidence, One) =>
          LET own == {i \in DOMAIN payload.entries : payload.entries[i].player = priced.player}
              read == {i \in InjuryStatuses(payload.report) : payload.report[i].player = priced.player}
          IN  /\ payload.official /\ own # {}
              /\ read # {} => payload.report[Max(read)].status = "fit"
              /\ Same(Times(priced.expected, FullMatch),
                      Times(RatePerMatch(History[priced.player]),
                            IF payload.entries[Max(own)].starting THEN FullMatch ELSE BenchMinutes))
=============================================================================
