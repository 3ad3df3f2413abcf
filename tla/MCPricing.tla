------------------------------ MODULE MCPricing ------------------------------
(* Instances of the pricing modules for TLC. *)
EXTENDS Offers

MCLeagueAverage == One
MCHomeAdvantage == Frac(3, 2)
MCRho == Frac(-1, 10)
MCAlpha == Frac(3, 10)
MCFullMatch == Frac(6, 1)      \* minutes in quarters of an hour
MCBenchMinutes == Frac(1, 1)

MCPlayers == {"p1", "p2", "p3"}
MCName == [p1 |-> "garcia", p2 |-> "garcia", p3 |-> "ruiz"]
MCHistory ==
  [p1 |-> <<[started |-> TRUE, minutes |-> 6, count |-> 2], [started |-> FALSE, minutes |-> 0, count |-> 0]>>,
   p2 |-> <<[started |-> FALSE, minutes |-> 3, count |-> 1]>>,
   p3 |-> <<>>]

MCSettings ==
  {[strategy |-> "multiplicative", threshold |-> Frac(2, 100), kelly |-> Half, weight |-> Half],
   [strategy |-> "multiplicative", threshold |-> Zero, kelly |-> One, weight |-> One],
   [strategy |-> "multiplicative", threshold |-> Zero, kelly |-> Zero, weight |-> Zero],
   [strategy |-> "additive", threshold |-> Frac(10, 100), kelly |-> One, weight |-> Zero]}

MCPrices == {One, Frac(3, 2), Frac(2, 1), Frac(9, 1)}
MCTeamNames == {HomeTeam, AwayTeam, "Draw", "misspelt"}

(* A line of another book, of another market: the request asks for neither. *)
MCStrays ==
  {l \in EventLines({HomeTeam, "Over"}, {Frac(9, 1)}) : l.book # SharpBook \/ l.market # "h2h"}

Group(h, d, a) ==
  <<[outcome |-> "Home", odds |-> h], [outcome |-> "Draw", odds |-> d], [outcome |-> "Away", odds |-> a]>>
FullGroups ==
  {Group(Frac(2, 1), Frac(3, 1), Frac(4, 1)), Group(Frac(5, 1), Frac(5, 2), Frac(3, 2)),
   Group(Frac(10, 1), Frac(2, 1), Frac(2, 1)), Group(Frac(3, 2), Frac(10, 1), Frac(10, 1))}
MCLocalGroups == FullGroups \union {Tail(g) : g \in FullGroups}

MCModels ==
  {[Home |-> Frac(5, 10), Draw |-> Frac(3, 10), Away |-> Frac(2, 10)],
   [Home |-> Frac(1, 10), Draw |-> Frac(1, 10), Away |-> Frac(8, 10)]}

(* Two of them are at one time: their order in the payload matters.          *)
MCScoreEvents ==
  {Match(1, 3, 0), Match(2, 0, 2), Match(2, 5, 0), Match(3, 1, 1), Match(4, 2, NoScore), Match(5, 0, 1),
   [Match(6, 2, 2) EXCEPT !.completed = FALSE], [Match(7, 4, 0) EXCEPT !.involved = FALSE]}

(* All results of one match, and the lopsided ones of three that take the    *)
(* correction of low scores below zero.                                      *)
MCForms ==
  {TeamForm(<<Match(1, ours, theirs)>>) : ours \in 0 .. 3, theirs \in 0 .. 3}
    \union {TeamForm(<<Match(1, 0, 9), Match(2, 0, 9), Match(3, 1, 9)>>),
            TeamForm(<<Match(1, 9, 0), Match(2, 9, 0), Match(3, 9, 1)>>)}

MCReports == InjuryEntries({"fit", "questionable", "out", "knock"})

MCPropMarkets == [name : {"garcia", "ruiz", "nobody"}, odds : {Frac(3, 2), Frac(3, 1)}]
MCChances == {Frac(3, 10), Half, Frac(8, 10)}
=============================================================================
