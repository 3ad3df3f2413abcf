------------------------------- MODULE Records -------------------------------
(***************************************************************************)
(* Value bets between the runs that find them, the panel that lists them   *)
(* (GET /value-bets) and the settlements that pair them with a result      *)
(* (POST /value-bets/settle): what mappers.py writes of an entity and      *)
(* reads back, what the filters of ListValueBetsUseCase let through, and   *)
(* which row SettleBetUseCase finds.  Sessions are the business of         *)
(* UnitOfWork, with what they fail to commit: here calls follow each       *)
(* other, one that succeeds keeps its rows and one that fails has none.    *)
(*                                                                         *)
(* A match entity is [id, league, day], a bookmaker [name, region].  Teams *)
(* are part of the match.  Odds, edges and stakes are exact fractions.     *)
(***************************************************************************)
EXTENDS Ratios, Sequences

CONSTANTS
  MatchIds, Days, Leagues,
  Bookmakers,      \* bookmaker entities
  Bets,            \* value bets that a run may save
  Requests,        \* bodies of POST /value-bets/settle
  Wide,            \* outcomes of more than 64 characters
  NoRow, NoBook, NoLineup, NoFilter, NoOdds  \* NULL or None
CONSTANTS MaxBets, MaxSettled, MaxSchedule   \* bounds for TLC

Announcements == [id : MatchIds, league : Leagues, day : Days]

(* ValueBet, with the threshold it was found at.                             *)
ValueBets ==
  [match : Announcements, market : STRING, outcome : STRING, line : Int,
   odds : Fractions, edge : Fractions, stake : Fractions, source : STRING,
   lineup_confirmed : BOOLEAN \union {NoLineup}, bookmaker : Bookmakers \union {NoBook},
   threshold : Fractions]

(* Odds are more than one (DecimalOdds), and the detectors let through no    *)
(* edge that does not clear their threshold (exceeds_ev_threshold).          *)
ASSUME BetAssumption ==
  /\ Bets \subseteq ValueBets
  /\ \A b \in Bets : Less(One, b.odds) /\ Less(Times(b.threshold, Frac(100, 1)), b.edge)

(* What SettleBetRequest lets through.                                       *)
ASSUME RequestAssumption ==
  \A r \in Requests :
    r.odds \in Fractions /\ r.result \in {"won", "lost", "push"} /\ r.closing \in Fractions \union {NoOdds}

(* NULL is no row, no bookmaker and no filter anybody can mean.              *)
ASSUME NullAssumption ==
  /\ NoRow \notin Announcements /\ NoRow \notin Bookmakers
  /\ NoBook \notin Bookmakers /\ NoBook \notin {b.name : b \in Bookmakers}
  /\ NoFilter \notin Leagues /\ NoFilter \notin Days
  /\ NoOdds \notin Fractions

VARIABLES
  enforced,  \* the database enforces String(64): PostgreSQL does, SQLite does not
  matches,   \* matches: id to the current entity
  books,     \* bookmakers: name to the current entity
  bets,      \* value_bets, in order of insertion
  settled,   \* settled_bets, likewise
  status,    \* the HTTP status of the last settlement
  schedule,  \* history: the match entities saved, the latest last
  saved,     \* history: the bets handed to save, as they were
  asked      \* history: the requests behind settled

tables == <<matches, books, bets, settled>>
vars == <<enforced, tables, status, schedule, saved, asked>>

-----------------------------------------------------------------------------
(* mappers.py: a row refers to its match and bookmaker, an entity holds them. *)

Names == {b.name : b \in Bookmakers}

(* [mutant] NULL is stored as false. *)
BetToRowCoerced(b) ==
  [b EXCEPT !.match = b.match.id,
            !.bookmaker = IF b.bookmaker = NoBook THEN NoBook ELSE b.bookmaker.name,
            !.lineup_confirmed = (b.lineup_confirmed = TRUE)]

BetToRow(b) ==
  [b EXCEPT !.match = b.match.id,
            !.bookmaker = IF b.bookmaker = NoBook THEN NoBook ELSE b.bookmaker.name]

BetFromRow(row) ==
  [row EXCEPT !.match = matches[row.match],
              !.bookmaker = IF row.bookmaker = NoBook THEN NoBook ELSE books[row.bookmaker]]

SettledToRow(b, request) ==
  [bet |-> BetToRow(b), result |-> request.result, closing |-> request.closing]

SettledFromRow(row) == [row EXCEPT !.bet = BetFromRow(row.bet)]

(* [mutant] A match that is known is left as it is. *)
InsertMatchOnly(m) ==
  /\ matches' = IF matches[m.id] = NoRow THEN [matches EXCEPT ![m.id] = m] ELSE matches
  /\ schedule' = Append(schedule, m)

UpsertMatch(m) ==
  /\ matches' = [matches EXCEPT ![m.id] = m]
  /\ schedule' = Append(schedule, m)

UpsertBookmaker(b) == books' = IF b = NoBook THEN books ELSE [books EXCEPT ![b.name] = b]

-----------------------------------------------------------------------------
(* Runs *)

(* upsert_match on behalf of quotes or stats. *)
SaveMatch(m) ==
  /\ Len(schedule) < MaxSchedule
  /\ UpsertMatch(m)
  /\ UNCHANGED <<enforced, books, bets, settled, status, saved, asked>>

Fits(b) == ~enforced \/ b.outcome \notin Wide

SaveBet(b) ==
  /\ Len(bets) < MaxBets /\ Len(schedule) < MaxSchedule
  /\ Fits(b)
  /\ UpsertMatch(b.match)
  /\ UpsertBookmaker(b.bookmaker)
  /\ bets' = Append(bets, BetToRow(b))
  /\ saved' = Append(saved, b)
  /\ UNCHANGED <<enforced, settled, status, asked>>

(* The insert is refused, and what the session wrote goes with it: the run ends with 500. *)
RefuseBet(b) ==
  /\ ~Fits(b)
  /\ status' = 500
  /\ UNCHANGED <<enforced, tables, schedule, saved, asked>>

-----------------------------------------------------------------------------
(* SettledBet *)

ProfitLoss(s) ==
  CASE s.result = "won"  -> Times(s.bet.stake, Minus(s.bet.odds, One))
    [] s.result = "lost" -> Minus(Zero, s.bet.stake)
    [] s.result = "push" -> Zero

ImpliedProbability(odds) == Over(One, odds)

Clv(s) ==
  IF s.closing = NoOdds THEN NoOdds
  ELSE Minus(ImpliedProbability(s.closing), ImpliedProbability(s.bet.odds))

-----------------------------------------------------------------------------
(* Settlement *)

(* [mutant] A bet is looked up by what it is on. *)
FoundBySelection(request, row) ==
  /\ row.match = request.match
  /\ <<row.market, row.outcome, row.line>> = <<request.market, request.outcome, request.line>>

Found(request, row) ==
  /\ row.match = request.match
  /\ <<row.market, row.outcome, row.line>> = <<request.market, request.outcome, request.line>>
  /\ row.odds = request.odds

(* DecimalOdds(request.closing_sharp_odds) comes before the lookup. *)
BadClosing(request) == request.closing # NoOdds /\ Leq(request.closing, One)

Candidates(request) == {i \in DOMAIN bets : Found(request, bets[i])}

(* The status of what raises: the lookup comes before the checks of SettledBet. *)
Rejection(request) ==
  CASE BadClosing(request) -> 400
    [] ~BadClosing(request) /\ Candidates(request) = {} -> 404
    [] OTHER -> 400

RejectSettlement(request) ==
  /\ BadClosing(request) \/ Candidates(request) = {} \/ request.zone # "utc"
  /\ status' = Rejection(request)
  /\ UNCHANGED <<enforced, tables, schedule, saved, asked>>

(* The SELECT has no order: any row of that key may come first. *)
Settle(request) ==
  /\ ~BadClosing(request) /\ request.zone = "utc"
  /\ Len(settled) < MaxSettled /\ Len(schedule) < MaxSchedule
  /\ \E i \in Candidates(request) :
       LET b == BetFromRow(bets[i])
       IN  /\ UpsertMatch(b.match)
           /\ UpsertBookmaker(b.bookmaker)
           /\ settled' = Append(settled, SettledToRow(b, request))
  /\ asked' = Append(asked, request)
  /\ status' = 200
  /\ UNCHANGED <<enforced, bets, saved>>

-----------------------------------------------------------------------------
(* The list: filters are [league, min_ev_threshold, day, market, source]. *)

Passes(b, f) ==
  /\ f.league \in {NoFilter, b.match.league}
  /\ f.min_ev_threshold # NoFilter => Leq(Times(f.min_ev_threshold, Frac(100, 1)), b.edge)
  /\ f.day \in {NoFilter, b.match.day}
  /\ f.market \in {NoFilter, b.market}
  /\ f.source \in {NoFilter, b.source}

Listed(f) == {i \in DOMAIN bets : Passes(BetFromRow(bets[i]), f)}

(* ValueBetSchema: what the panel gets to see of a bet. *)
Shown(b) ==
  [match |-> b.match.id, league |-> b.match.league, market |-> b.market, outcome |-> b.outcome,
   line |-> b.line, odds |-> b.odds, edge |-> b.edge, stake |-> b.stake, source |-> b.source,
   lineup_confirmed |-> b.lineup_confirmed,
   bookmaker |-> IF b.bookmaker = NoBook THEN NoBook ELSE b.bookmaker.name]

-----------------------------------------------------------------------------
Init ==
  /\ enforced \in BOOLEAN
  /\ matches = [m \in MatchIds |-> NoRow] /\ books = [n \in Names |-> NoRow]
  /\ bets = <<>> /\ settled = <<>> /\ status = 200
  /\ schedule = <<>> /\ saved = <<>> /\ asked = <<>>

Next ==
  \/ \E m \in Announcements : SaveMatch(m)
  \/ \E b \in Bets : SaveBet(b) \/ RefuseBet(b)
  \/ \E r \in Requests : Settle(r) \/ RejectSettlement(r)

Spec == Init /\ [][Next]_vars

-----------------------------------------------------------------------------
(* Properties *)

LastAnnounced(id) ==
  schedule[CHOOSE i \in DOMAIN schedule :
             schedule[i].id = id /\ \A j \in DOMAIN schedule : schedule[j].id = id => j <= i]

(* Mappings lose nothing: a row reads back as the bet that was saved, but    *)
(* for its match and bookmaker, which are shared and as they were last       *)
(* saved; and a settled row holds, down to what is NULL, a bet that some run *)
(* found.                                                                    *)
RowsReadBackAsSaved ==
  /\ \A i \in DOMAIN bets :
       BetFromRow(bets[i]) =
         [saved[i] EXCEPT !.match = LastAnnounced(saved[i].match.id),
                          !.bookmaker = IF @ = NoBook THEN NoBook ELSE books[@.name]]
  /\ \A i \in DOMAIN settled : \E j \in DOMAIN saved :
       [SettledFromRow(settled[i]).bet EXCEPT !.match = saved[j].match, !.bookmaker = saved[j].bookmaker]
         = saved[j]

(* Every tick inserts its bets again, at whatever odds and stake it found,   *)
(* and a request names no bookmaker: whichever row the lookup takes, profit  *)
(* per unit staked and closing line value are those of the odds asked for.   *)
SettledAtTheOddsAsked ==
  \A i \in DOMAIN settled :
    LET s == SettledFromRow(settled[i]) bet == asked[i] IN
    /\ Same(ProfitLoss(s), Times(s.bet.stake, CASE bet.result = "won"  -> Minus(bet.odds, One)
                                                [] bet.result = "lost" -> Frac(-1, 1)
                                                [] bet.result = "push" -> Zero))
    /\ IF bet.closing = NoOdds THEN Clv(s) = NoOdds
       ELSE Less(Zero, Clv(s)) <=> Less(bet.closing, bet.odds)

(* A bet is listed on the day, and in the league, that its match was last    *)
(* announced for, and nowhere else, however its match moves after it was     *)
(* found; the threshold it was found at never hides it, and what the list    *)
(* shows of it is enough to ask for its settlement.                          *)
ListingFollowsTheSchedule ==
  \A i \in DOMAIN bets, d \in Days, l \in Leagues :
    LET now == LastAnnounced(bets[i].match)
        query == [league |-> l, min_ev_threshold |-> saved[i].threshold, day |-> d,
                  market |-> saved[i].market, source |-> saved[i].source]
    IN  /\ i \in Listed(query) <=> now.league = l /\ now.day = d
        /\ Found(Shown(BetFromRow(bets[i])), bets[i])
=============================================================================
