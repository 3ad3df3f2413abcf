--------------------------- MODULE MCCalibration ---------------------------
(* Instances of Calibration for TLC. *)
EXTENDS Calibration

CONSTANTS NoB, NoP

Bet(market, source, book, prop, p, result) ==
  [market |-> market, source |-> source, book |-> book, prop |-> prop, p |-> p, result |-> result]

(* Predictions on and off the borders of the buckets and past the last one,  *)
(* which ends short of 1 when the width is 3 out of 10; a bet without a      *)
(* bookmaker, a prop whose type is not in its text, every result.            *)
MCSettledBets ==
  {Bet("1X2", "both", "betano", NoP, 10, "won"), Bet("1X2", "statistical", NoB, NoP, 5, "lost"),
   Bet("1X2", "both", NoB, NoP, 0, "lost"), Bet("prop", "statistical", "betano", "shots", 3, "won"),
   Bet("prop", "statistical", NoB, NoP, 7, "push")}

MaxRows == 4
MCStores == {<<>>}

(* Tables of up to MaxRows settled bets, a bet possibly settled twice.       *)
MCArchives ==
  LET order == SetToSeq(MCSettledBets)
      choices == {c \in [1..MaxRows -> 0..Len(order)] : \A i \in 1..(MaxRows - 1) : c[i] <= c[i + 1]}
  IN  {{Row(i, order[c[i]]) : i \in {j \in 1..MaxRows : c[j] # 0}} : c \in choices}

MCSegments ==
  {Overall} \union ({"market_type"} \X {"1X2", "prop"}) \union ({"prop_type"} \X {"shots"})
    \union ({"model_source"} \X {"both", "statistical"}) \union ({"bookmaker"} \X {"betano"})

MCEntries ==
  [type : {"settled"}, id : 1..MaxRows, bet : MCSettledBets]
    \union [type : {"factor"}, segment : MCSegments, won : 0..MaxRows,
            predicted : 1..(Unit * MaxRows), size : 0..MaxRows]
=============================================================================
