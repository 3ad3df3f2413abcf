------------------------------ MODULE MCRecords ------------------------------
(* Instances of Records for TLC. *)
EXTENDS Records

MCBookmakers == {[name |-> "betplay", region |-> "co"], [name |-> "betplay", region |-> "latam"]}

Bet(m, day, market, outcome, line, odds, edge, stake, source, lineup, book) ==
  [match |-> [id |-> m, league |-> "epl", day |-> day], market |-> market, outcome |-> outcome,
   line |-> line, odds |-> odds, edge |-> edge, stake |-> stake, source |-> source,
   lineup_confirmed |-> lineup, bookmaker |-> book, threshold |-> Frac(2, 100)]

Betplay(region) == [name |-> "betplay", region |-> region]

(* One selection at two odds, at one odds with two stakes, on a match that   *)
(* is moved, without a bookmaker; a prop with and without a confirmed lineup *)
(* whose outcome is too long.  2 % is no edge that a run would save.         *)
MCBets ==
  {Bet("m1", 1, "1X2", "Home", 0, Frac(2, 1), Frac(5, 2), Frac(1, 20), "BOTH", NoLineup, Betplay("co")),
   Bet("m1", 2, "1X2", "Home", 0, Frac(2, 1), Frac(8, 1), Frac(1, 10), "BOTH", NoLineup, NoBook),
   Bet("m1", 1, "1X2", "Home", 0, Frac(3, 1), Frac(9, 1), Frac(1, 10), "BOTH", NoLineup, Betplay("latam")),
   Bet("m2", 1, "prop", "long name", 1, Frac(2, 1), Frac(4, 1), Frac(1, 10), "STATISTICAL", FALSE, NoBook)}

Request(m, outcome, odds, result, zone, closing) ==
  [match |-> m, market |-> "1X2", outcome |-> outcome, line |-> 0, odds |-> odds,
   result |-> result, zone |-> zone, closing |-> closing]

MCRequests ==
  {Request("m1", "Home", o, r, "utc", c) :
     o \in {Frac(2, 1), Frac(3, 1)}, r \in {"won", "lost", "push"}, c \in {NoOdds, Frac(5, 2)}}
    \union {Request("m1", "Home", Frac(2, 1), "won", z, c) :
              z \in {"naive", "offset"}, c \in {NoOdds, One}}

MCWide == {"long name"}
=============================================================================
