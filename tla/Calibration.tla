----------------------------- MODULE Calibration -----------------------------
(***************************************************************************)
(* The calibration requests (routers/calibration.py): recomputing the      *)
(* correction factors from every settled bet on file, and the report over  *)
(* the same bets.  Each is a session of UnitOfWork.  The two services,      *)
(* correction_factor.py and calibration_service.py, each sort the bets into *)
(* segments on their own, and are modelled apart.                           *)
(*                                                                         *)
(* A settled bet is what the services look at.  Probabilities are integers  *)
(* out of Unit and means are kept as sums, so that the model computes them  *)
(* exactly; where the code's division of floats may fall on either side of  *)
(* a bucket's border, either bucket is taken.  Log loss and CLV are left    *)
(* out.                                                                     *)
(***************************************************************************)
EXTENDS UnitOfWork, Integers, SequencesExt

CONSTANTS
  SettledBets,     \* [market, source, book, prop, p, result]
  PlayerProp,      \* the market type of props
  NoBook, NoProp,  \* no bookmaker on file; no prop type in the outcome's text
  Unit,            \* the probability 1
  MinSampleSize,   \* calibration_min_sample_size
  BucketWidth      \* calibration_bucket_width, out of Unit

Results == {"won", "lost", "push"}

ASSUME CalibrationAssumption ==
  /\ Unit \in Nat \ {0} /\ BucketWidth \in 1..Unit /\ MinSampleSize \in Nat \ {0}
  /\ \A bet \in SettledBets : bet.p \in 0..Unit /\ bet.result \in Results

VARIABLES
  pc,       \* session -> where its request is
  reply,    \* session -> the status it was answered with
  report    \* session -> the report it was answered with, and its filters

calVars == <<pc, reply, report>>
vars == <<uowVars, calVars>>

Overall == <<"overall", "overall">>
NoReport == [source |-> "none", market |-> "none", by |-> <<>>]

Row(n, bet) == [type |-> "settled", id |-> n, bet |-> bet]

(* SettledBetRepository.list_all: a request inserts no settled bet itself. *)
SettledIn(rows) == {row \in rows : row.type = "settled"}
Table == SettledIn(disk)

Of(rows, result) == {row \in rows : row.bet.result = result}
Predicted(rows) == SumFunction([row \in rows |-> row.bet.p])

-----------------------------------------------------------------------------
(* correction_factor.py *)

(* [mutant] A bet is only in the whole if its bookmaker is known. *)
SegmentsOfBooked(bet) ==
  {<<"market_type", bet.market>>, <<"model_source", bet.source>>}
    \union (IF bet.book # NoBook THEN {Overall, <<"bookmaker", bet.book>>} ELSE {})
    \union (IF bet.market = PlayerProp /\ bet.prop # NoProp
            THEN {<<"prop_type", bet.prop>>} ELSE {})

SegmentsOf(bet) ==
  {Overall, <<"market_type", bet.market>>, <<"model_source", bet.source>>}
    \union (IF bet.book # NoBook THEN {<<"bookmaker", bet.book>>} ELSE {})
    \union (IF bet.market = PlayerProp /\ bet.prop # NoProp
            THEN {<<"prop_type", bet.prop>>} ELSE {})

Segments(rows) == {Overall} \union UNION {SegmentsOf(row.bet) : row \in rows}
InSegment(rows, segment) == {row \in rows : segment \in SegmentsOf(row.bet)}

(* [mutant] Refunded bets count as bets that were not won. *)
ScoreablePushes(rows) == rows

Scoreable(rows) == rows \ Of(rows, "push")

(* There is enough of the segment to divide by. *)
Trusted(rows, segment) ==
  LET used == Scoreable(InSegment(rows, segment)) IN
    Cardinality(used) >= MinSampleSize /\ Predicted(used) > 0

(* observed_frequency / predicted_mean = Unit * won / predicted *)
FactorFor(rows, segment) ==
  LET used == Scoreable(InSegment(rows, segment)) IN
    [type |-> "factor", segment |-> segment, won |-> Cardinality(Of(used, "won")),
     predicted |-> Predicted(used), size |-> Cardinality(used)]

Factors(rows) ==
  {FactorFor(rows, segment) : segment \in {g \in Segments(rows) : Trusted(rows, g)}}

(* Tables are finite, of settled bets, and have room for their factors.      *)
ASSUME ArchivesAssumption ==
  \A archive \in Archives :
    /\ IsFiniteSet(archive)
    /\ \A row \in SettledIn(archive) : row.bet \in SettledBets
    /\ Factors(SettledIn(archive)) \subseteq Entries

(* CorrectionFactor.__post_init__: a factor must be positive.  *)
Rejected(factor) == factor.won = 0

(* apply_correction_factor, out of Unit * factor.predicted *)
Corrected(p, factor) ==
  Min({p * Unit * factor.won, Unit * factor.predicted})

-----------------------------------------------------------------------------
(* calibration_service.py *)

(* [mutant] Asking for a source and a market gets the bets of either. *)
SelectedByEither(rows, source, market) ==
  {row \in rows : row.bet.source = source \/ row.bet.market = market
                   \/ (source = "any" /\ market = "any")}

Selected(rows, source, market) ==
  {row \in rows : /\ source \in {"any", row.bet.source}
                  /\ market \in {"any", row.bet.market}}

(* Where a bet is reported: by_market_type, by_bookmaker, and so on. *)
ReportedIn(bet) ==
  [market_type |-> {bet.market}, model_source |-> {bet.source},
   bookmaker |-> {bet.book} \ {NoBook},
   prop_type |-> IF bet.market = PlayerProp THEN {bet.prop} \ {NoProp} ELSE {}]

ReportKeys(bet) ==
  {Overall} \union UNION {{<<d, v>> : v \in ReportedIn(bet)[d]} : d \in DOMAIN ReportedIn(bet)}

(* round(1.0 / bucket_width): a half goes to the even number.  *)
NumBuckets ==
  LET down == Unit \div BucketWidth
      twice == 2 * (Unit % BucketWidth)
  IN  IF twice > BucketWidth \/ (twice = BucketWidth /\ down % 2 = 1) THEN down + 1 ELSE down

LastBucket == NumBuckets - 1

(* [mutant] The bucket a prediction is closest to the start of. *)
BucketsForRounded(p) ==
  {Min({(p + BucketWidth \div 2) \div BucketWidth, LastBucket})}

(* Where int(prediction / bucket_width) may fall.  *)
BucketsFor(p) ==
  LET exact == p \div BucketWidth IN
    {Min({index, LastBucket}) :
       index \in {exact} \union (IF p > 0 /\ p % BucketWidth = 0 THEN {exact - 1} ELSE {})}

(* [mutant] The refunded bets are part of the sample. *)
MetricsOfAll(rows, bucketOf) ==
  LET In(index) == {row \in rows : bucketOf[row.bet.p] = index}
  IN  [size |-> Cardinality(rows),
       curve |-> [index \in 0..LastBucket |->
                    [size |-> Cardinality(In(index)),
                     won |-> Cardinality(Of(In(index), "won")),
                     predicted |-> Predicted(In(index))]]]

Metrics(rows, bucketOf) ==
  LET used == rows \ Of(rows, "push")
      In(index) == {row \in used : bucketOf[row.bet.p] = index}
  IN  [size |-> Cardinality(used),
       curve |-> [index \in 0..LastBucket |->
                    [size |-> Cardinality(In(index)),
                     won |-> Cardinality(Of(In(index), "won")),
                     predicted |-> Predicted(In(index))]]]

(* [mutant] The whole is only reported if there is something in it. *)
CalculateSegmentsOnly(rows, bucketOf) ==
  LET keys == UNION {ReportKeys(row.bet) : row \in rows}
  IN  [key \in keys |-> Metrics({row \in rows : key \in ReportKeys(row.bet)}, bucketOf)]

CalculateSegmented(rows, bucketOf) ==
  LET keys == {Overall} \union UNION {ReportKeys(row.bet) : row \in rows}
  IN  [key \in keys |-> Metrics({row \in rows : key \in ReportKeys(row.bet)}, bucketOf)]

-----------------------------------------------------------------------------
At(s, step) == pc[s] = step /\ phase[s] = "open" /\ writes[s] = <<>>
Goto(s, step) == pc' = [pc EXCEPT ![s] = step]

Answer(s, status) ==
  /\ Goto(s, "answered")
  /\ reply' = [reply EXCEPT ![s] = status]

Begin(s) ==
  /\ pc[s] = "idle"
  /\ Open(s)
  /\ \E step \in {"recompute", "report"} : Goto(s, step)
  /\ UNCHANGED <<reply, report>>

(* ComputeCorrectionFactorsUseCase: every factor is computed before the     *)
(* first is saved.                                                          *)
Recompute(s) ==
  /\ At(s, "recompute")
  /\ \A factor \in Factors(Table) : ~Rejected(factor)
  /\ LET factors == SetToSeq(Factors(Table)) IN
       Issue(s, [i \in 1..Len(factors) |-> Insert(factors[i])])
  /\ Goto(s, "saving")
  /\ UNCHANGED <<reply, report>>

RecomputeRaises(s) ==
  /\ At(s, "recompute")
  /\ \E factor \in Factors(Table) : Rejected(factor)
  /\ Answer(s, "400")
  /\ UNCHANGED <<uowVars, report>>

RecomputeDone(s) ==
  /\ At(s, "saving")
  /\ Answer(s, "200")
  /\ UNCHANGED <<uowVars, report>>

(* GetCalibrationReportUseCase *)
GetReport(s, source, market) ==
  /\ At(s, "report")
  /\ LET rows == Selected(Table, source, market)
         predictions == {row.bet.p : row \in rows}
     IN  \E bucketOf \in {f \in [predictions -> 0..LastBucket] :
                            \A p \in predictions : f[p] \in BucketsFor(p)} :
           report' = [report EXCEPT ![s] = [source |-> source, market |-> market,
                                            by |-> CalculateSegmented(rows, bucketOf)]]
  /\ Answer(s, "200")
  /\ UNCHANGED uowVars

DatabaseError(s) ==
  /\ Refuse(s)
  /\ Answer(s, "500")
  /\ UNCHANGED report

FlushNext(s) ==
  /\ Flush(s)
  /\ UNCHANGED calVars

End(s) ==
  /\ pc[s] = "answered"
  /\ Close(s)
  /\ Goto(s, "idle")
  /\ reply' = [reply EXCEPT ![s] = "none"]
  /\ report' = [report EXCEPT ![s] = NoReport]

Init ==
  /\ UowInit
  /\ pc = [s \in Sessions |-> "idle"]
  /\ reply = [s \in Sessions |-> "none"]
  /\ report = [s \in Sessions |-> NoReport]

Sources == {"any"} \union {bet.source : bet \in SettledBets}
Markets == {"any"} \union {bet.market : bet \in SettledBets}

Next ==
  \E s \in Sessions :
    \/ Begin(s)
    \/ Recompute(s) \/ RecomputeRaises(s) \/ RecomputeDone(s)
    \/ \E source \in Sources, market \in Markets : GetReport(s, source, market)
    \/ DatabaseError(s)
    \/ FlushNext(s)
    \/ End(s)

Spec == Init /\ [][Next]_vars

-----------------------------------------------------------------------------
(* Every variable keeps its type; a report has the overall segment, even on *)
(* an empty table.                                                          *)
TypeOK ==
  /\ UowTypeOK
  /\ pc \in [Sessions -> {"idle", "recompute", "saving", "report", "answered"}]
  /\ reply \in [Sessions -> {"none", "200", "400", "500"}]
  /\ \A s \in Sessions :
       report[s] # NoReport => /\ report[s].source \in Sources /\ report[s].market \in Markets
                               /\ Overall \in DOMAIN report[s].by

Saved(s) == {ledger[s][i] : i \in DOMAIN ledger[s]}
Recomputed(s) == pc[s] = "answered" /\ reply[s] = "200" /\ report[s] = NoReport

(* Applying a factor to the very bets it was computed from calibrates them: *)
(* the corrected probabilities add up to the bets won, or to less where the *)
(* clamp to 1 cut one off, and a refunded bet plays no part in either.      *)
CorrectionIsCalibrated ==
  \A s \in Sessions : \A factor \in Saved(s) :
    LET scored == {row \in InSegment(Table, factor.segment) : row.bet.result # "push"}
        corrected == SumFunction([row \in scored |-> Corrected(row.bet.p, factor)])
        won == Unit * factor.predicted * Cardinality(Of(scored, "won"))
    IN  /\ corrected <= won
        /\ (\A row \in scored : row.bet.p * factor.won <= factor.predicted) => corrected = won

(* The overall factor is a weighted mean of the market types' factors: when *)
(* every scored bet is in a market type that has one, it lies between the   *)
(* smallest and the largest of them.                                        *)
OverallWithinMarkets ==
  \A s \in Sessions : Recomputed(s) =>
    \A overall \in {f \in Saved(s) : f.segment = Overall} :
      LET markets == {f \in Saved(s) : f.segment[1] = "market_type"}
      IN  (\A row \in Table : row.bet.result # "push" =>
             \E f \in markets : f.segment[2] = row.bet.market)
            => /\ \E f \in markets : f.won * overall.predicted <= overall.won * f.predicted
               /\ \E f \in markets : f.won * overall.predicted >= overall.won * f.predicted

Total(curve, field) == SumFunction([index \in DOMAIN curve |-> curve[index][field]])

(* A factor and the report speak of the same bets: over the buckets of the  *)
(* segment's curve, the sample, the wins and the predictions add up to the  *)
(* factor's (the two services sort the bets into segments separately).      *)
ReportMatchesFactors ==
  \A s, t \in Sessions : \A factor \in Saved(s) :
    (report[t].source = "any" /\ report[t].market = "any") =>
      /\ factor.segment \in DOMAIN report[t].by
      /\ LET metrics == report[t].by[factor.segment] IN
           /\ metrics.size = factor.size
           /\ Total(metrics.curve, "size") = factor.size
           /\ Total(metrics.curve, "won") = factor.won
           /\ Total(metrics.curve, "predicted") = factor.predicted

(* The mean prediction of a bucket lies between the bounds it is reported   *)
(* with, for every width.  Only the last bucket may hold more, and only when *)
(* the buckets of a width that does not divide 1 end short of it.           *)
BucketsBracketPredictions ==
  \A s \in Sessions : \A key \in DOMAIN report[s].by :
    LET curve == report[s].by[key].curve IN
      \A index \in DOMAIN curve :
        /\ index * BucketWidth * curve[index].size <= curve[index].predicted
        /\ (index < LastBucket \/ Unit <= NumBuckets * BucketWidth) =>
             curve[index].predicted <= (index + 1) * BucketWidth * curve[index].size

(* A report on one market and source says of it what the report on all the  *)
(* bets of that source says of the market: filtering and segmenting agree.  *)
FilterIsASegment ==
  \A s, t \in Sessions :
    (/\ report[s].market \notin {"none", "any"} /\ report[t].market = "any"
     /\ report[s].source = report[t].source) =>
      LET key == <<"market_type", report[s].market>>
          one == report[s].by[Overall]
      IN  IF key \in DOMAIN report[t].by
          THEN /\ one.size = report[t].by[key].size
               /\ \A field \in {"won", "predicted"} :
                    Total(one.curve, field) = Total(report[t].by[key].curve, field)
          ELSE one.size = 0

(* Every segment with enough settled bets to trust gets its factor, and the *)
(* shortage of another segment costs only that one its factor               *)
(* (CorrectionFactorService, class docstring).                              *)
TrustedSegmentsAreCorrected ==
  \A s \in Sessions : (pc[s] = "answered" /\ reply[s] \in {"200", "400"} /\ report[s] = NoReport)
    => \A segment \in Segments(Table) :
         Trusted(Table, segment) => \E factor \in Saved(s) : factor.segment = segment
=============================================================================
