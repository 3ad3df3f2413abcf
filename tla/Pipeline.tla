------------------------------ MODULE Pipeline ------------------------------
(***************************************************************************)
(* RunPipelineUseCase.execute (run_pipeline.py) as each caller starts it:  *)
(* the scheduler's tick, POST /pipeline/run and POST /value-bets/query.    *)
(* A run owns one session (UnitOfWork) and walks its slate match by match: *)
(* ingest sharp odds, ingest local odds, ingest player stats, detect match *)
(* bets, detect prop bets.  One action is one await of a provider (with    *)
(* the repository calls made on its answer), or one turn of a detection    *)
(* loop; the statements those calls issue are flushed by UnitOfWork!Flush, *)
(* so another session can act between any two of them.                     *)
(*                                                                         *)
(* Data are abstracted to what the flow looks at.  A match is its kickoff, *)
(* a market group (1X2, a totals line, BTTS) is one quote, a player's      *)
(* recent matches are one stats row, and whether a priced group or prop is *)
(* value is the model's choice: the arithmetic is not in this module.      *)
(***************************************************************************)
EXTENDS UnitOfWork, Integers

CONSTANTS
  Matches, Players,      \* the rows of matches and of players
  Past,                  \* the row of a past fixture, which stats refer to
  Sharp, Local,          \* the rows of the sharp and of the local bookmaker
  Kickoffs, Now,         \* kickoff times, and the time list_upcoming runs at
  Played, Registered,    \* what the row of Past, of a bookmaker holds
  Clubs, Club,           \* clubs; the club a player is reported at today
  Markets, SharpMarket,  \* market groups; the one the sharp book is asked for
  Unpriced,              \* totals lines the statistical model does not price
  Modes,                 \* values of MATCH_CONFIRMATION_MODE to start under
  (* What the providers may answer. *)
  SharpAnswers, LocalAnswers, PropAnswers, Lineups, Injuries, RecentAnswers

Props == [player : Players, lined : BOOLEAN]
Covers == {"none", "partial", "full"}

(* Append-only rows. *)
Quote(m, market, book) == [type |-> "quote", match |-> m, market |-> market, book |-> book]
Stats(p) == [type |-> "stats", player |-> p]
MatchBet(m, market) == [type |-> "bet", match |-> m, market |-> market]
PropBet(m, p) == [type |-> "prop", match |-> m, player |-> p]
Settled(bet) == [type |-> "settled", bet |-> bet]

MatchBets == {MatchBet(m, k) : m \in Matches, k \in Markets}
PropBets == {PropBet(m, p) : m \in Matches, p \in Players}
Bets == MatchBets \union PropBets

(* Matches, players and bookmakers are rows of tables of their own, and the  *)
(* odds API is not one of the local bookmakers.                              *)
ASSUME DistinctAssumption ==
  /\ Matches \intersect (Players \union {Past, Sharp, Local}) = {}
  /\ Sharp # Local
ASSUME TablesAssumption ==
  /\ Matches \subseteq Rows /\ Players \subseteq Rows /\ {Past, Sharp, Local} \subseteq Rows
  /\ Kickoffs \subseteq Nat /\ Now \in Nat
  /\ Kickoffs \subseteq Values /\ Clubs \subseteq Values /\ {Played, Registered} \subseteq Values
  /\ \A store \in Stores, m \in Matches : store[m] \in Kickoffs \union {NoRow}
  /\ NoRow \notin Clubs
  /\ {Quote(m, k, b) : m \in Matches, k \in Markets, b \in {Sharp, Local}} \subseteq Entries
  /\ {Stats(p) : p \in Players} \subseteq Entries
  /\ Bets \subseteq Entries /\ {Settled(bet) : bet \in Bets} \subseteq Entries
ASSUME AnswersAssumption ==
  /\ IsFiniteSet(Matches) /\ SharpMarket \in Markets /\ Unpriced \subseteq Markets
  /\ Modes \subseteq {"CONFIRMATION", "INDEPENDENT"}
  /\ Club \in [Players -> Clubs]
  /\ SharpAnswers \subseteq [cover : Covers, kickoff : Kickoffs]
  /\ LocalAnswers \subseteq Seq(Markets) /\ PropAnswers \subseteq Seq(Props)
  /\ Lineups \subseteq SUBSET Players /\ Injuries \subseteq SUBSET Players
  /\ RecentAnswers \subseteq Clubs \union {NoRow}

VARIABLES
  mode,       \* Settings.match_confirmation_mode, fixed for the process
  kind,       \* session -> who started the run
  pc,         \* session -> where its coroutine is
  work,       \* session -> its local variables
  matchBets,  \* session -> match_value_bets, what the run will return
  propBets,   \* session -> player_prop_value_bets
  reply       \* session -> the answer it gave

runVars == <<mode, kind, pc, work, matchBets, propBets, reply>>
vars == <<uowVars, runVars>>

-----------------------------------------------------------------------------
Steps == {"idle", "browser", "register", "sharp", "forms", "local", "props", "lineup",
          "injuries", "players", "recent", "detect", "price", "settle", "settled", "answered"}

Errors == {"notfound", "value", "provider", "unexpected"}

(* exception_handlers.py: the status an exception leaves a request with. *)
StatusOf(error) ==
  CASE error = "notfound" -> "404"
    [] error = "value" -> "400"
    [] error = "provider" -> "502"
    [] OTHER -> "500"

(* A tick answers nobody: its exception is logged and raised to APScheduler. *)
Failure(k, error) == IF k = "tick" THEN "raised" ELSE StatusOf(error)
Success(k) == IF k = "tick" THEN "completed" ELSE "200"

Replies == {"none", "completed", "raised", "200", "400", "404", "500", "502"}

(* The exceptions an await of the browser, of a bookmaker's page or of an  *)
(* odds or stats API ends with.  A Playwright error outside the package's  *)
(* translation is unexpected; an entity that rejects what was answered or   *)
(* scraped is a ValueError, as are a Retry-After header that is not a       *)
(* number and a bookmaker name without a scraper.                           *)
Raises(step) ==
  CASE step = "browser" -> {"provider", "unexpected"}
    [] step \in {"local", "props"} -> {"provider", "value", "unexpected"}
    [] step \in {"sharp", "forms", "lineup", "injuries", "recent"} -> {"provider", "value"}
    [] OTHER -> {}

NoWork == [slate |-> <<>>, snapshot |-> [m \in Matches |-> NoRow], cover |-> "none",
           played |-> FALSE, local |-> <<>>, groups |-> <<>>, props |-> <<>>,
           lineup |-> {}, injured |-> {}, todo |-> {}, player |-> NoRow, history |-> {},
           detected |-> <<>>]

Current(s) == Head(work[s].slate)
Snapshot(s) == work[s].snapshot[Current(s)]
Known(s) == work[s].lineup \union work[s].injured

At(s, step) == pc[s] = step /\ phase[s] = "open" /\ writes[s] = <<>>
Goto(s, step) == pc' = [pc EXCEPT ![s] = step]

(* [mutant] Only the rows are inserted: the match is not saved again. *)
SavingRowsOnly(s, entries) == [i \in 1..Len(entries) |-> Insert(entries[i])]

(* The statements of saving quotes or bets of the current match, whose      *)
(* match field is the snapshot the run was started with (upsert_match,      *)
(* upsert_bookmaker, insert; only the first of each upsert emits anything). *)
Saving(s, entries) ==
  IF entries = <<>> THEN <<>>
  ELSE <<Upsert(Current(s), Snapshot(s)), Upsert(Local, Registered)>>
         \o [i \in 1..Len(entries) |-> Insert(entries[i])]

-----------------------------------------------------------------------------
(* Starting *)

(* Dependencies of a request, or of a tick: a session, then a browser.  *)
Begin(s, k) ==
  /\ pc[s] = "idle"
  /\ Open(s)
  /\ Goto(s, "browser")
  /\ kind' = [kind EXCEPT ![s] = k]
  /\ UNCHANGED <<mode, work, matchBets, propBets, reply>>

Upcoming(s) == {m \in Matches : View(s, m) # NoRow /\ View(s, m) >= Now}

(* [mutant] list_upcoming without its ORDER BY. *)
SlatesInAnyOrder(s) ==
  {slate \in [1..Cardinality(Upcoming(s)) -> Upcoming(s)] :
     \A i, j \in DOMAIN slate : i < j => slate[i] # slate[j]}

SlatesFor(s) ==
  {slate \in [1..Cardinality(Upcoming(s)) -> Upcoming(s)] :
     \A i, j \in DOMAIN slate :
       i < j => slate[i] # slate[j] /\ View(s, slate[i]) <= View(s, slate[j])}

StartWork(s, slate) ==
  /\ work' = [work EXCEPT ![s] = [NoWork EXCEPT !.slate = slate,
                                    !.snapshot = [m \in Matches |-> View(s, m)]]]
  /\ Goto(s, "register")
  /\ UNCHANGED <<uowVars, mode, kind, matchBets, propBets, reply>>

ListUpcoming(s) ==
  /\ At(s, "browser")
  /\ kind[s] \in {"tick", "run"}
  /\ \E slate \in SlatesFor(s) : StartWork(s, slate)

(* /value-bets/query runs over one match, upcoming or not. *)
GetMatch(s, m) ==
  /\ At(s, "browser")
  /\ kind[s] = "query"
  /\ View(s, m) # NoRow
  /\ StartWork(s, <<m>>)

Answer(s, r) ==
  /\ Goto(s, "answered")
  /\ reply' = [reply EXCEPT ![s] = r]

MatchNotFound(s, m) ==
  /\ At(s, "browser")
  /\ kind[s] = "query"
  /\ View(s, m) = NoRow
  /\ Answer(s, Failure(kind[s], "notfound"))
  /\ UNCHANGED <<uowVars, mode, kind, work, matchBets, propBets>>

-----------------------------------------------------------------------------
(* Ingestion of the current match *)

(* IngestSharpOddsUseCase: the match is saved as the caller knows it... *)
Register(s) ==
  /\ At(s, "register")
  /\ work[s].slate # <<>>
  /\ Issue(s, <<Upsert(Current(s), Snapshot(s))>>)
  /\ Goto(s, "sharp")
  /\ UNCHANGED <<mode, kind, work, matchBets, propBets, reply>>

(* ...and again as the odds API reports it, with each of its quotes.  *)
GetSharpOdds(s, answer) ==
  /\ At(s, "sharp")
  /\ Issue(s, IF answer.cover = "none" THEN <<>>
              ELSE <<Upsert(Current(s), answer.kickoff), Upsert(Sharp, Registered),
                     Insert(Quote(Current(s), SharpMarket, Sharp))>>)
  /\ work' = [work EXCEPT ![s].cover = answer.cover]
  /\ Goto(s, "forms")
  /\ UNCHANGED <<mode, kind, matchBets, propBets, reply>>

(* Both teams' forms; played: each has at least one scored match. *)
GetForms(s, played) ==
  /\ At(s, "forms")
  /\ work' = [work EXCEPT ![s].played = played]
  /\ Goto(s, "local")
  /\ UNCHANGED <<uowVars, mode, kind, matchBets, propBets, reply>>

(* [mutant] The match quotes are handed on like the props, not archived. *)
GetLocalOddsUnsaved(s, quoted) ==
  /\ At(s, "local")
  /\ work' = [work EXCEPT ![s].local = quoted]
  /\ Goto(s, "props")
  /\ UNCHANGED <<uowVars, mode, kind, matchBets, propBets, reply>>

(* IngestLocalOddsUseCase: the scraped quotes carry the caller's match. *)
GetLocalOdds(s, quoted) ==
  /\ At(s, "local")
  /\ Issue(s, Saving(s, [i \in 1..Len(quoted) |-> Quote(Current(s), quoted[i], Local)]))
  /\ work' = [work EXCEPT ![s].local = quoted]
  /\ Goto(s, "props")
  /\ UNCHANGED <<mode, kind, matchBets, propBets, reply>>

GetPlayerProps(s, offers) ==
  /\ At(s, "props")
  /\ work' = [work EXCEPT ![s].props = offers]
  /\ Goto(s, "lineup")
  /\ UNCHANGED <<uowVars, mode, kind, matchBets, propBets, reply>>

(* IngestPlayerStatsUseCase *)
GetLineup(s, lineup) ==
  /\ At(s, "lineup")
  /\ work' = [work EXCEPT ![s].lineup = lineup]
  /\ Goto(s, "injuries")
  /\ UNCHANGED <<uowVars, mode, kind, matchBets, propBets, reply>>

GetInjuries(s, injured) ==
  /\ At(s, "injuries")
  /\ work' = [work EXCEPT ![s].injured = injured,
                          ![s].todo = work[s].lineup \union injured,
                          ![s].history = {}]
  /\ Goto(s, "players")
  /\ UNCHANGED <<uowVars, mode, kind, matchBets, propBets, reply>>

(* players_by_id: the lineup's players first, then those only reported injured. *)
SavePlayer(s, p) ==
  /\ At(s, "players")
  /\ p \in work[s].todo
  /\ p \in work[s].lineup \/ work[s].todo \intersect work[s].lineup = {}
  /\ Issue(s, <<Upsert(p, Club[p])>>)
  /\ work' = [work EXCEPT ![s].todo = @ \ {p}, ![s].player = p]
  /\ Goto(s, "recent")
  /\ UNCHANGED <<mode, kind, matchBets, propBets, reply>>

(* [mutant] A player without recent matches is saved like any other. *)
GetRecentUnchecked(s, club) ==
  /\ At(s, "recent")
  /\ LET p == work[s].player IN
       /\ Issue(s, <<Upsert(Past, Played), Upsert(p, club), Insert(Stats(p))>>)
       /\ work' = [work EXCEPT ![s].history = @ \union {p}]
  /\ Goto(s, "players")
  /\ UNCHANGED <<mode, kind, matchBets, propBets, reply>>

(* Recent matches, newest first; each saves the fixture, then the player as *)
(* of that fixture.  The row left behind is the oldest one's: club.         *)
GetRecent(s, club) ==
  /\ At(s, "recent")
  /\ LET p == work[s].player IN
       /\ Issue(s, IF club = NoRow THEN <<>>
                   ELSE <<Upsert(Past, Played), Upsert(p, club), Insert(Stats(p))>>)
       /\ work' = [work EXCEPT ![s].history = IF club = NoRow THEN @ ELSE @ \union {p}]
  /\ Goto(s, "players")
  /\ UNCHANGED <<mode, kind, matchBets, propBets, reply>>

PlayersDone(s) ==
  /\ At(s, "players")
  /\ work[s].todo = {}
  /\ work' = [work EXCEPT ![s].groups = work[s].local, ![s].detected = <<>>]
  /\ Goto(s, "detect")
  /\ UNCHANGED <<uowVars, mode, kind, matchBets, propBets, reply>>

-----------------------------------------------------------------------------
(* DetectMatchValueBetsUseCase: detect per market group, then save. *)

Group(s) == Head(work[s].groups)

(* A group with nothing to confirm it against is passed over. *)
Skipped(s, market) ==
  mode = "CONFIRMATION" /\ ~(market = SharpMarket /\ work[s].cover # "none")

(* The detector raises: no form to rate a team by, a totals line that the   *)
(* model does not price, or an outcome that the sharp book does not quote.  *)
GroupRaises(s, market) ==
  \/ market \in Unpriced
  \/ mode = "CONFIRMATION" /\ work[s].cover = "partial"

NextGroup(s, bets) ==
  /\ work' = [work EXCEPT ![s].groups = Tail(@), ![s].detected = @ \o bets]
  /\ UNCHANGED <<uowVars, mode, kind, pc, matchBets, propBets, reply>>

SkipGroup(s) ==
  /\ At(s, "detect") /\ work[s].played /\ work[s].groups # <<>>
  /\ Skipped(s, Group(s))
  /\ NextGroup(s, <<>>)

DetectGroup(s, isValue) ==
  /\ At(s, "detect") /\ work[s].played /\ work[s].groups # <<>>
  /\ ~Skipped(s, Group(s)) /\ ~GroupRaises(s, Group(s))
  /\ NextGroup(s, IF isValue THEN <<MatchBet(Current(s), Group(s))>> ELSE <<>>)

(* [mutant] Bets already in the run's result are not saved again. *)
SaveFirstMatchBet(s) ==
  /\ At(s, "detect") /\ work[s].played /\ work[s].groups = <<>>
  /\ Issue(s, Saving(s, IF work[s].detected = <<>> THEN <<>> ELSE <<Head(work[s].detected)>>))
  /\ matchBets' = [matchBets EXCEPT ![s] = @ \o work[s].detected]
  /\ Goto(s, "price")
  /\ UNCHANGED <<mode, kind, work, propBets, reply>>

SaveMatchBets(s) ==
  /\ At(s, "detect") /\ work[s].played /\ work[s].groups = <<>>
  /\ Issue(s, Saving(s, work[s].detected))
  /\ matchBets' = [matchBets EXCEPT ![s] = @ \o work[s].detected]
  /\ Goto(s, "price")
  /\ UNCHANGED <<mode, kind, work, propBets, reply>>

DetectionError(s) ==
  /\ At(s, "detect")
  /\ ~work[s].played \/ (/\ work[s].groups # <<>>
                         /\ ~Skipped(s, Group(s)) /\ GroupRaises(s, Group(s)))
  /\ Answer(s, Failure(kind[s], "value"))
  /\ UNCHANGED <<uowVars, mode, kind, work, matchBets, propBets>>

-----------------------------------------------------------------------------
(* DetectPlayerPropValueBetsUseCase: each bet is saved as it is detected. *)

Prop(s) == Head(work[s].props)

PropLeft(s) == At(s, "price") /\ work[s].props # <<>>

NextProp(s) == work' = [work EXCEPT ![s].props = Tail(@)]

(* The name is that of no player in the lineup or the injury report. *)
SkipProp(s) ==
  /\ PropLeft(s)
  /\ Prop(s).player \notin Known(s)
  /\ NextProp(s)
  /\ UNCHANGED <<uowVars, mode, kind, pc, matchBets, propBets, reply>>

(* [mutant] A player without history is priced at a default rate. *)
LinelessRaises(s) == ~Prop(s).lined

PropRaises(s) == ~Prop(s).lined \/ Prop(s).player \notin work[s].history

PropError(s) ==
  /\ PropLeft(s)
  /\ Prop(s).player \in Known(s) /\ PropRaises(s)
  /\ Answer(s, Failure(kind[s], "value"))
  /\ UNCHANGED <<uowVars, mode, kind, work, matchBets, propBets>>

PriceProp(s, isValue) ==
  /\ PropLeft(s)
  /\ Prop(s).player \in Known(s) /\ ~PropRaises(s)
  /\ LET bets == IF isValue THEN <<PropBet(Current(s), Prop(s).player)>> ELSE <<>> IN
       /\ Issue(s, Saving(s, bets))
       /\ propBets' = [propBets EXCEPT ![s] = @ \o bets]
  /\ NextProp(s)
  /\ UNCHANGED <<mode, kind, pc, matchBets, reply>>

MatchDone(s) ==
  /\ At(s, "price") /\ work[s].props = <<>>
  /\ work' = [work EXCEPT ![s] = [NoWork EXCEPT !.slate = Tail(work[s].slate),
                                                !.snapshot = work[s].snapshot]]
  /\ Goto(s, "register")
  /\ UNCHANGED <<uowVars, mode, kind, matchBets, propBets, reply>>

-----------------------------------------------------------------------------
(* Ending *)

(* [mutant] The result is returned from inside the loop. *)
RunDoneEarly(s) ==
  /\ At(s, "register")
  /\ Answer(s, Success(kind[s]))
  /\ UNCHANGED <<uowVars, mode, kind, work, matchBets, propBets>>

RunDone(s) ==
  /\ At(s, "register")
  /\ work[s].slate = <<>>
  /\ Answer(s, Success(kind[s]))
  /\ UNCHANGED <<uowVars, mode, kind, work, matchBets, propBets>>

(* An awaited call raises; nothing between it and the handlers catches. *)
ProviderError(s, error) ==
  /\ phase[s] = "open" /\ writes[s] = <<>>
  /\ error \in Raises(pc[s])
  /\ Answer(s, Failure(kind[s], error))
  /\ UNCHANGED <<uowVars, mode, kind, work, matchBets, propBets>>

(* [mutant] A refused run is rolled back and tried again from the start. *)
DatabaseErrorRetried(s) ==
  /\ Refused(s)
  /\ own' = [own EXCEPT ![s] = Nothing]
  /\ ledger' = [ledger EXCEPT ![s] = <<>>]
  /\ writes' = [writes EXCEPT ![s] = <<>>]
  /\ work' = [work EXCEPT ![s] = NoWork]
  /\ matchBets' = [matchBets EXCEPT ![s] = <<>>]
  /\ propBets' = [propBets EXCEPT ![s] = <<>>]
  /\ Goto(s, IF kind[s] = "settle" THEN "settle" ELSE "browser")
  /\ UNCHANGED <<stored, disk, phase, mode, kind, reply>>

DatabaseError(s) ==
  /\ Refuse(s)
  /\ Answer(s, Failure(kind[s], "unexpected"))
  /\ UNCHANGED <<mode, kind, work, matchBets, propBets>>

GetNext(s) ==
  /\ Get(s)
  /\ UNCHANGED runVars

(* A unique key violation is one of SQLAlchemy's errors, like a refusal. *)
FlushNext(s) ==
  /\ Flush(s)
  /\ IF phase'[s] = "collided"
     THEN Answer(s, Failure(kind[s], "unexpected")) /\ UNCHANGED <<mode, kind, work, matchBets, propBets>>
     ELSE UNCHANGED runVars

(* The session's context manager exits; the coroutine is gone. *)
End(s) ==
  /\ pc[s] = "answered" /\ writes[s] = <<>>
  /\ Close(s)
  /\ Goto(s, "idle")
  /\ kind' = [kind EXCEPT ![s] = "none"]
  /\ work' = [work EXCEPT ![s] = NoWork]
  /\ matchBets' = [matchBets EXCEPT ![s] = <<>>]
  /\ propBets' = [propBets EXCEPT ![s] = <<>>]
  /\ reply' = [reply EXCEPT ![s] = "none"]
  /\ UNCHANGED mode

Init ==
  /\ UowInit
  /\ mode \in Modes
  /\ kind = [s \in Sessions |-> "none"]
  /\ pc = [s \in Sessions |-> "idle"]
  /\ work = [s \in Sessions |-> NoWork]
  /\ matchBets = [s \in Sessions |-> <<>>]
  /\ propBets = [s \in Sessions |-> <<>>]
  /\ reply = [s \in Sessions |-> "none"]

-----------------------------------------------------------------------------
Ingest(s) ==
  \/ ListUpcoming(s)
  \/ \E m \in Matches : GetMatch(s, m) \/ MatchNotFound(s, m)
  \/ Register(s)
  \/ \E answer \in SharpAnswers : GetSharpOdds(s, answer)
  \/ \E played \in BOOLEAN : GetForms(s, played)
  \/ \E quoted \in LocalAnswers : GetLocalOdds(s, quoted)
  \/ \E offers \in PropAnswers : GetPlayerProps(s, offers)
  \/ \E lineup \in Lineups : GetLineup(s, lineup)
  \/ \E injured \in Injuries : GetInjuries(s, injured)
  \/ \E p \in Players : SavePlayer(s, p)
  \/ \E club \in RecentAnswers : GetRecent(s, club)
  \/ PlayersDone(s)

Detect(s) ==
  \/ SkipGroup(s)
  \/ \E isValue \in BOOLEAN : DetectGroup(s, isValue) \/ PriceProp(s, isValue)
  \/ SaveMatchBets(s)
  \/ DetectionError(s)
  \/ SkipProp(s)
  \/ PropError(s)
  \/ MatchDone(s)

Finish(s) ==
  \/ RunDone(s)
  \/ \E error \in Errors : ProviderError(s, error)
  \/ DatabaseError(s)
  \/ End(s)

RunStep(s) == Ingest(s) \/ Detect(s) \/ Finish(s) \/ GetNext(s) \/ FlushNext(s)

-----------------------------------------------------------------------------
(* Properties of a run *)

Work == [slate : Seq(Matches), snapshot : [Matches -> Kickoffs \union {NoRow}],
         cover : Covers, played : BOOLEAN, local : Seq(Markets), groups : Seq(Markets),
         props : Seq(Props), lineup : SUBSET Players, injured : SUBSET Players,
         todo : SUBSET Players, player : Players \union {NoRow},
         history : SUBSET Players, detected : Seq(Bets)]

(* Every variable keeps its type; in particular every way a run ends leads  *)
(* to one of the statuses that exception_handlers.py knows.                 *)
TypeOK ==
  /\ UowTypeOK
  /\ mode \in Modes
  /\ kind \in [Sessions -> {"none", "tick", "run", "query", "settle"}]
  /\ pc \in [Sessions -> Steps]
  /\ work \in [Sessions -> Work]
  /\ matchBets \in [Sessions -> Seq(Bets)]
  /\ propBets \in [Sessions -> Seq(Bets)]
  /\ reply \in [Sessions -> Replies]

Rowset(s) == {ledger[s][i] : i \in DOMAIN ledger[s]}
Before(s, i) == {ledger[s][j] : j \in 1..(i - 1)}

(* No match bet is saved before the local quote it prices, nor, when the    *)
(* mode is CONFIRMATION, before the sharp quote of that same match that     *)
(* confirms it (detect_match_value_bets.py skips markets without one).      *)
BetsFollowQuotes ==
  \A s \in Sessions : \A i \in DOMAIN ledger[s] : \A m \in Matches, k \in Markets :
    ledger[s][i] = MatchBet(m, k) =>
      /\ Quote(m, k, Local) \in Before(s, i)
      /\ mode = "CONFIRMATION" => Quote(m, k, Sharp) \in Before(s, i)

(* A prop with a line on a player the stats provider does not cover costs   *)
(* the run that one prop and no more (detect_player_prop_value_bets.py,     *)
(* module docstring; a prop without a line is the detector's to refuse).    *)
UncoveredPlayersAreSkipped ==
  [][\A s \in Sessions :
       (PropLeft(s) /\ Prop(s).lined /\ Prop(s).player \notin work[s].history) =>
         reply'[s] = "none"]_vars

(* No prop bet is saved for a player whose recent matches this run has not  *)
(* ingested before (player_model.py cannot estimate a rate from nothing).   *)
PropsFollowStats ==
  \A s \in Sessions : \A i \in DOMAIN ledger[s] : \A m \in Matches, p \in Players :
    ledger[s][i] = PropBet(m, p) => Stats(p) \in Before(s, i)

(* bets are the members of kept among rows: each in its turn, and no other.  *)
Places(rows, kept) == {i \in DOMAIN rows : rows[i] \in kept}
Turn(places, i) == Cardinality({j \in places : j <= i})
Lists(bets, rows, kept) ==
  /\ Len(bets) = Cardinality(Places(rows, kept))
  /\ \A i \in Places(rows, kept) : bets[Turn(Places(rows, kept), i)] = rows[i]

Succeeded(s) == pc[s] = "answered" /\ reply[s] = Success(kind[s])

(* What a successful run returns is what its session inserted: the same     *)
(* bets, each as often, in the same order (run_pipeline.py hands over the   *)
(* lists of the use cases, which save on their own).                        *)
ReturnedBetsAreSaved ==
  \A s \in Sessions :
    Succeeded(s) => /\ Lists(matchBets[s], ledger[s], MatchBets)
                    /\ Lists(propBets[s], ledger[s], PropBets)

Matchful(entry) == entry.type \in {"quote", "bet", "prop"}

(* A run works through its slate in kickoff order and never returns to a    *)
(* match: what it has inserted when something fails is about the matches    *)
(* before that point, and about no other (list_upcoming orders the slate).  *)
LedgerInKickoffOrder ==
  \A s \in Sessions :
    kind[s] \in {"tick", "run"} =>
      LET rows == ledger[s]
          about == {i \in DOMAIN rows : Matchful(rows[i])}
      IN  \A i, j \in about :
            i < j => /\ stored[rows[i].match] <= stored[rows[j].match]
                     /\ rows[i].match = rows[j].match =>
                          \A l \in about \intersect i..j : rows[l].match = rows[i].match

(* The kickoff that the odds API has just reported does not outlive the     *)
(* saving of a local quote: those carry the match as it was when the run    *)
(* started, so the session's row is the committed one again, and the bets   *)
(* refer to it (ingest_local_odds.py, upserts.py: last writer wins).        *)
LocalQuotesRestoreKickoff ==
  \A s \in Sessions : \A m \in Matches, k \in Markets :
    Quote(m, k, Local) \in Rowset(s) => View(s, m) = stored[m]

=============================================================================
