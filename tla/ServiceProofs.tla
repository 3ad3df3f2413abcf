---------------------------- MODULE ServiceProofs ----------------------------
(***************************************************************************)
(* Proofs about the service, for any sessions, matches, players, markets   *)
(* and answers, on either database.                                        *)
(***************************************************************************)
EXTENDS Service, UnitOfWorkProofs, FiniteSetTheorems, SequenceTheorems

-----------------------------------------------------------------------------
(* The inductive invariant behind type correctness *)

(* Before its first statement a session has written nothing.  *)
Unstarted == {"idle", "browser", "settle"}

Fresh == \A s \in Sessions : pc[s] \in Unstarted => own[s] = Nothing /\ writes[s] = <<>>

(* A run only walks over matches that it found in the database. *)
SlateKnown ==
  \A s \in Sessions : \A i \in DOMAIN work[s].slate : work[s].snapshot[work[s].slate[i]] # NoRow

(* Between "register" and the end of its match, a run has a current match. *)
MatchSteps == {"sharp", "forms", "local", "props", "lineup", "injuries", "players",
               "recent", "detect", "price"}

AtAMatch ==
  \A s \in Sessions : /\ pc[s] \in MatchSteps => work[s].slate # <<>>
                      /\ pc[s] = "recent" => work[s].player \in Players

RunTypeOK ==
  /\ mode \in Modes
  /\ kind \in [Sessions -> {"none", "tick", "run", "query", "settle"}]
  /\ pc \in [Sessions -> Steps]
  /\ work \in [Sessions -> Work]
  /\ matchBets \in [Sessions -> Seq(Bets)]
  /\ propBets \in [Sessions -> Seq(Bets)]
  /\ reply \in [Sessions -> Replies]

RunInv == RunTypeOK /\ stored \in Stores /\ Fresh /\ SlateKnown /\ AtAMatch

Inv == UowInv /\ RunInv

-----------------------------------------------------------------------------
(* What the steps issue *)

(* The match a run is at is one it found, with a kickoff.                    *)
LEMMA CurrentKnown ==
  ASSUME Inv, NEW s \in Sessions, work[s].slate # <<>>
  PROVE  Current(s) \in Matches /\ Snapshot(s) \in Kickoffs
<1>1. work[s].slate \in Seq(Matches) /\ work[s].snapshot \in [Matches -> Kickoffs \union {NoRow}]
  BY DEF Inv, RunInv, RunTypeOK, Work
<1>2. 1 \in DOMAIN work[s].slate /\ Head(work[s].slate) = work[s].slate[1]
  BY <1>1
<1>3. Head(work[s].slate) \in Matches
  BY <1>1
<1>4. work[s].snapshot[work[s].slate[1]] # NoRow
  BY <1>2 DEF Inv, RunInv, SlateKnown
<1>5. QED
  BY <1>1, <1>2, <1>3, <1>4 DEF Current, Snapshot

(* What the assumptions on the constants say of single rows.                 *)
LEMMA Keys ==
  /\ Matches \subseteq Rows /\ Players \subseteq Rows
  /\ Past \in Rows /\ Sharp \in Rows /\ Local \in Rows
  /\ Kickoffs \subseteq Values /\ Clubs \subseteq Values
  /\ Played \in Values /\ Registered \in Values
  /\ NoRow \notin Kickoffs /\ NoRow \notin Clubs
  /\ IsFiniteSet(Matches)
<1>1. Matches \subseteq Rows /\ Players \subseteq Rows /\ {Past, Sharp, Local} \subseteq Rows
  BY TablesAssumption
<1>2. Kickoffs \subseteq Values /\ Clubs \subseteq Values /\ {Played, Registered} \subseteq Values
  BY TablesAssumption
<1>3. NoRow \notin Clubs /\ IsFiniteSet(Matches)
  BY TablesAssumption, AnswersAssumption
<1>4. QED
  BY <1>1, <1>2, <1>3, NoRowAssumption

(* Rows of the tables, written to the tables' keys, are proper requests.     *)
LEMMA Wellformed ==
  /\ \A row \in Rows, value \in Values : Upsert(row, value) \in Requests
  /\ \A entry \in Entries : Insert(entry) \in Requests
BY DEF Upsert, Insert, Requests

(* Saving quotes or bets issues statements and nothing else.                 *)
LEMMA SavingIssues ==
  ASSUME Inv, NEW s \in Sessions, work[s].slate # <<>>, NEW entries \in Seq(Entries)
  PROVE  Saving(s, entries) \in Seq(Requests)
<1> DEFINE inserts == [i \in 1..Len(entries) |-> Insert(entries[i])]
           upserts == <<Upsert(Current(s), Snapshot(s)), Upsert(Local, Registered)>>
<1>1. \A i \in 1..Len(entries) : entries[i] \in Entries
  OBVIOUS
<1>2. inserts \in Seq(Requests)
  BY <1>1, Wellformed, Len(entries) \in Nat
<1>3. Current(s) \in Rows /\ Snapshot(s) \in Values /\ Local \in Rows /\ Registered \in Values
  BY CurrentKnown, Keys
<1>4. upserts \in Seq(Requests)
  BY <1>3, Wellformed
<1>5. upserts \o inserts \in Seq(Requests)
  BY <1>2, <1>4
<1>6. QED
  BY <1>5 DEF Saving

(* What the run inserts are rows of the append-only tables.                  *)
LEMMA EntriesOfRun ==
  /\ \A m \in Matches, k \in Markets, b \in {Sharp, Local} : Quote(m, k, b) \in Entries
  /\ \A p \in Players : Stats(p) \in Entries
  /\ Bets \subseteq Entries
  /\ \A bet \in Bets : Settled(bet) \in Entries
  /\ \A m \in Matches, k \in Markets : MatchBet(m, k) \in Bets
  /\ \A m \in Matches, p \in Players : PropBet(m, p) \in Bets
<1>1. {Quote(m, k, b) : m \in Matches, k \in Markets, b \in {Sharp, Local}} \subseteq Entries
  BY TablesAssumption
<1>2. {Stats(p) : p \in Players} \subseteq Entries /\ Bets \subseteq Entries
      /\ {Settled(bet) : bet \in Bets} \subseteq Entries
  BY TablesAssumption
<1>3. /\ \A m \in Matches, k \in Markets : MatchBet(m, k) \in Bets
      /\ \A m \in Matches, p \in Players : PropBet(m, p) \in Bets
  BY DEF Bets, MatchBets, PropBets
<1>4. QED
  BY <1>1, <1>2, <1>3

-----------------------------------------------------------------------------
(* Steps preserve the invariant *)

(* A step of one coroutine: what has to be shown of that one.                *)
LEMMA OneSession ==
  ASSUME Inv, NEW s \in Sessions, NEW p \in Steps, NEW w \in Work,
         mode' = mode, stored' = stored,
         kind' \in [Sessions -> {"none", "tick", "run", "query", "settle"}],
         pc' = [pc EXCEPT ![s] = p], work' = [work EXCEPT ![s] = w],
         matchBets' \in [Sessions -> Seq(Bets)], propBets' \in [Sessions -> Seq(Bets)],
         reply' \in [Sessions -> Replies],
         \A t \in Sessions \ {s} : own'[t] = own[t] /\ writes'[t] = writes[t],
         p \in Unstarted => own'[s] = Nothing /\ writes'[s] = <<>>,
         \A i \in DOMAIN w.slate : w.snapshot[w.slate[i]] # NoRow,
         p \in MatchSteps => w.slate # <<>>,
         p = "recent" => w.player \in Players
  PROVE  RunInv'
<1>1. RunTypeOK'
  BY DEF Inv, RunInv, RunTypeOK
<1>2. \A t \in Sessions : IF t = s THEN pc'[t] = p /\ work'[t] = w
                                  ELSE pc'[t] = pc[t] /\ work'[t] = work[t]
  BY DEF Inv, RunInv, RunTypeOK
<1>3. Fresh'
  BY <1>2 DEF Inv, RunInv, Fresh
<1>4. SlateKnown'
  BY <1>2 DEF Inv, RunInv, SlateKnown
<1>5. AtAMatch'
  BY <1>2 DEF Inv, RunInv, AtAMatch
<1>6. QED
  BY <1>1, <1>3, <1>4, <1>5 DEF Inv, RunInv

(* Every step of the layer is about one session, and commits nothing.        *)
LEMMA LayerStep ==
  ASSUME Inv, NEW s \in Sessions,
         \/ Open(s) \/ Get(s) \/ Flush(s) \/ Refuse(s) \/ Close(s)
         \/ \E batch \in Seq(Requests) : Issue(s, batch)
         \/ UNCHANGED uowVars
  PROVE  /\ stored' = stored /\ disk' = disk
         /\ \A t \in Sessions \ {s} :
              /\ own'[t] = own[t] /\ writes'[t] = writes[t]
              /\ ledger'[t] = ledger[t] /\ phase'[t] = phase[t]
BY FlushRuns
   DEF Inv, UowInv, UowTypeOK, Open, Get, Run, Refuse, Fail, Close, Issue, uowVars

(* A step that stays with the match: its statements, if any, its next place  *)
(* and the one variable of the coroutine that it sets.                       *)
LEMMA SameMatch ==
  ASSUME Inv, NEW s \in Sessions, NEW p \in Steps \ Unstarted, NEW w \in Work,
         \/ Get(s) \/ Flush(s) \/ Refuse(s) \/ IssueSome(s) \/ UNCHANGED uowVars,
         UNCHANGED <<mode, kind>>,
         pc' = [pc EXCEPT ![s] = p], work' = [work EXCEPT ![s] = w],
         matchBets' \in [Sessions -> Seq(Bets)], propBets' \in [Sessions -> Seq(Bets)],
         reply' \in [Sessions -> Replies],
         w.slate = work[s].slate, w.snapshot = work[s].snapshot,
         p \in MatchSteps => work[s].slate # <<>>,
         p = "recent" => w.player \in Players
  PROVE  RunInv'
<1>1. stored' = stored /\ \A t \in Sessions \ {s} : own'[t] = own[t] /\ writes'[t] = writes[t]
  BY LayerStep DEF IssueSome
<1>2. \A i \in DOMAIN w.slate : w.snapshot[w.slate[i]] # NoRow
  BY DEF Inv, RunInv, SlateKnown
<1>3. kind' \in [Sessions -> {"none", "tick", "run", "query", "settle"}]
  BY DEF Inv, RunInv, RunTypeOK
<1>4. QED
  BY <1>1, <1>2, <1>3, OneSession

(* The coroutine of a session is where its action says, with its types.      *)
LEMMA AtAction ==
  ASSUME Inv, NEW s \in Sessions, pc[s] \in MatchSteps
  PROVE  /\ work[s] \in Work /\ work[s].slate # <<>>
         /\ Current(s) \in Matches /\ Snapshot(s) \in Values
         /\ pc[s] \in Steps \ Unstarted
         /\ matchBets[s] \in Seq(Bets) /\ propBets[s] \in Seq(Bets)
<1>1. work[s] \in Work /\ work[s].slate # <<>>
  BY DEF Inv, RunInv, RunTypeOK, AtAMatch
<1>2. QED
  BY <1>1, CurrentKnown, Keys DEF Inv, RunInv, RunTypeOK, MatchSteps, Steps, Unstarted

LEMMA Unmoved ==
  ASSUME Inv, NEW s \in Sessions
  PROVE  /\ pc = [pc EXCEPT ![s] = pc[s]] /\ work = [work EXCEPT ![s] = work[s]]
         /\ matchBets \in [Sessions -> Seq(Bets)] /\ propBets \in [Sessions -> Seq(Bets)]
         /\ reply \in [Sessions -> Replies]
BY DEF Inv, RunInv, RunTypeOK

(* Every answer is one of the statuses that a caller can be given.           *)
LEMMA AnswersAreReplies ==
  ASSUME NEW k
  PROVE  Success(k) \in Replies /\ \A error : Failure(k, error) \in Replies
BY DEF Success, Failure, StatusOf, Replies

-----------------------------------------------------------------------------
(* Ingestion *)

(* The match is registered as the run found it. *)
LEMMA RegisterStep ==
  ASSUME Inv, NEW s \in Sessions, Register(s)
  PROVE  RunInv' /\ IssueSome(s)
<1>1. work[s] \in Work /\ work[s].slate # <<>> /\ "sharp" \in Steps \ Unstarted
  BY DEF Register, Inv, RunInv, RunTypeOK, Steps, Unstarted
<1>2. <<Upsert(Current(s), Snapshot(s))>> \in Seq(Requests)
  BY <1>1, CurrentKnown, Keys, Wellformed
<1>3. IssueSome(s)
  BY <1>2 DEF Register, IssueSome
<1>4. /\ pc' = [pc EXCEPT ![s] = "sharp"] /\ work' = [work EXCEPT ![s] = work[s]]
      /\ UNCHANGED <<mode, kind, matchBets, propBets, reply>>
  BY Unmoved DEF Register, Goto
<1>5. QED
  BY <1>1, <1>3, <1>4, SameMatch, Unmoved

(* The odds API's quotes of the current match. *)
LEMMA GetSharpOddsStep ==
  ASSUME Inv, NEW s \in Sessions, NEW answer \in SharpAnswers, GetSharpOdds(s, answer)
  PROVE  RunInv' /\ IssueSome(s)
<1> DEFINE w == [work[s] EXCEPT !.cover = answer.cover]
<1> DEFINE batch == IF answer.cover = "none" THEN <<>>
                     ELSE <<Upsert(Current(s), answer.kickoff), Upsert(Sharp, Registered),
                            Insert(Quote(Current(s), SharpMarket, Sharp))>>
<1>1. pc[s] = "sharp" /\ pc[s] \in MatchSteps
  BY DEF GetSharpOdds, At, MatchSteps
<1>2. /\ work[s] \in Work /\ work[s].slate # <<>> /\ Current(s) \in Matches
      /\ Snapshot(s) \in Values /\ "forms" \in Steps \ Unstarted
  BY <1>1, AtAction DEF Steps, Unstarted
<1>3. batch \in Seq(Requests)
  BY <1>2, Keys, EntriesOfRun, Wellformed, AnswersAssumption
<1>4. IssueSome(s)
  BY <1>3 DEF GetSharpOdds, IssueSome
<1>5. w \in Work /\ w.slate = work[s].slate /\ w.snapshot = work[s].snapshot
  BY <1>2, AnswersAssumption DEF Work
<1>6. /\ pc' = [pc EXCEPT ![s] = "forms"] /\ work' = [work EXCEPT ![s] = w]
      /\ UNCHANGED <<mode, kind, matchBets, propBets, reply>>
  BY DEF GetSharpOdds, Goto
<1>7. QED
  BY <1>1, <1>2, <1>4, <1>5, <1>6, SameMatch, Unmoved

(* The teams' forms. *)
LEMMA GetFormsStep ==
  ASSUME Inv, NEW s \in Sessions, NEW played \in BOOLEAN, GetForms(s, played)
  PROVE  RunInv' /\ UNCHANGED uowVars
<1> DEFINE w == [work[s] EXCEPT !.played = played]
<1>1. pc[s] = "forms" /\ pc[s] \in MatchSteps
  BY DEF GetForms, At, MatchSteps
<1>2. /\ work[s] \in Work /\ work[s].slate # <<>> /\ Current(s) \in Matches
      /\ Snapshot(s) \in Values /\ "local" \in Steps \ Unstarted
  BY <1>1, AtAction DEF Steps, Unstarted
<1>4. UNCHANGED uowVars
  BY DEF GetForms
<1>5. w \in Work /\ w.slate = work[s].slate /\ w.snapshot = work[s].snapshot
  BY <1>2 DEF Work
<1>6. /\ pc' = [pc EXCEPT ![s] = "local"] /\ work' = [work EXCEPT ![s] = w]
      /\ UNCHANGED <<mode, kind, matchBets, propBets, reply>>
  BY DEF GetForms, Goto
<1>7. QED
  BY <1>1, <1>2, <1>4, <1>5, <1>6, SameMatch, Unmoved

(* The bookmaker's quotes: saved with the match as the run found it. *)
LEMMA GetLocalOddsStep ==
  ASSUME Inv, NEW s \in Sessions, NEW quoted \in LocalAnswers, GetLocalOdds(s, quoted)
  PROVE  RunInv' /\ IssueSome(s)
<1> DEFINE w == [work[s] EXCEPT !.local = quoted]
<1> DEFINE batch == Saving(s, [i \in 1..Len(quoted) |-> Quote(Current(s), quoted[i], Local)])
<1>1. pc[s] = "local" /\ pc[s] \in MatchSteps
  BY DEF GetLocalOdds, At, MatchSteps
<1>2. /\ work[s] \in Work /\ work[s].slate # <<>> /\ Current(s) \in Matches
      /\ Snapshot(s) \in Values /\ "props" \in Steps \ Unstarted
  BY <1>1, AtAction DEF Steps, Unstarted
<1>3. batch \in Seq(Requests)
  <2>1. quoted \in Seq(Markets) /\ Len(quoted) \in Nat
    BY AnswersAssumption
  <2>2. [i \in 1..Len(quoted) |-> Quote(Current(s), quoted[i], Local)] \in Seq(Entries)
    BY <1>2, <2>1, EntriesOfRun
  <2>3. QED
    BY <1>2, <2>2, SavingIssues
<1>4. IssueSome(s)
  BY <1>3 DEF GetLocalOdds, IssueSome
<1>5. w \in Work /\ w.slate = work[s].slate /\ w.snapshot = work[s].snapshot
  BY <1>2, AnswersAssumption DEF Work
<1>6. /\ pc' = [pc EXCEPT ![s] = "props"] /\ work' = [work EXCEPT ![s] = w]
      /\ UNCHANGED <<mode, kind, matchBets, propBets, reply>>
  BY DEF GetLocalOdds, Goto
<1>7. QED
  BY <1>1, <1>2, <1>4, <1>5, <1>6, SameMatch, Unmoved

(* The bookmaker's props. *)
LEMMA GetPlayerPropsStep ==
  ASSUME Inv, NEW s \in Sessions, NEW offers \in PropAnswers, GetPlayerProps(s, offers)
  PROVE  RunInv' /\ UNCHANGED uowVars
<1> DEFINE w == [work[s] EXCEPT !.props = offers]
<1>1. pc[s] = "props" /\ pc[s] \in MatchSteps
  BY DEF GetPlayerProps, At, MatchSteps
<1>2. /\ work[s] \in Work /\ work[s].slate # <<>> /\ Current(s) \in Matches
      /\ Snapshot(s) \in Values /\ "lineup" \in Steps \ Unstarted
  BY <1>1, AtAction DEF Steps, Unstarted
<1>4. UNCHANGED uowVars
  BY DEF GetPlayerProps
<1>5. w \in Work /\ w.slate = work[s].slate /\ w.snapshot = work[s].snapshot
  BY <1>2, AnswersAssumption DEF Work
<1>6. /\ pc' = [pc EXCEPT ![s] = "lineup"] /\ work' = [work EXCEPT ![s] = w]
      /\ UNCHANGED <<mode, kind, matchBets, propBets, reply>>
  BY DEF GetPlayerProps, Goto
<1>7. QED
  BY <1>1, <1>2, <1>4, <1>5, <1>6, SameMatch, Unmoved

(* The lineup and the injury report. *)
LEMMA GetLineupStep ==
  ASSUME Inv, NEW s \in Sessions, NEW lineup \in Lineups, GetLineup(s, lineup)
  PROVE  RunInv' /\ UNCHANGED uowVars
<1> DEFINE w == [work[s] EXCEPT !.lineup = lineup]
<1>1. pc[s] = "lineup" /\ pc[s] \in MatchSteps
  BY DEF GetLineup, At, MatchSteps
<1>2. /\ work[s] \in Work /\ work[s].slate # <<>> /\ Current(s) \in Matches
      /\ Snapshot(s) \in Values /\ "injuries" \in Steps \ Unstarted
  BY <1>1, AtAction DEF Steps, Unstarted
<1>4. UNCHANGED uowVars
  BY DEF GetLineup
<1>5. w \in Work /\ w.slate = work[s].slate /\ w.snapshot = work[s].snapshot
  BY <1>2, AnswersAssumption DEF Work
<1>6. /\ pc' = [pc EXCEPT ![s] = "injuries"] /\ work' = [work EXCEPT ![s] = w]
      /\ UNCHANGED <<mode, kind, matchBets, propBets, reply>>
  BY DEF GetLineup, Goto
<1>7. QED
  BY <1>1, <1>2, <1>4, <1>5, <1>6, SameMatch, Unmoved

LEMMA GetInjuriesStep ==
  ASSUME Inv, NEW s \in Sessions, NEW injured \in Injuries, GetInjuries(s, injured)
  PROVE  RunInv' /\ UNCHANGED uowVars
<1> DEFINE w == [work[s] EXCEPT !.injured = injured,
                                !.todo = work[s].lineup \union injured, !.history = {}]
<1>1. pc[s] = "injuries" /\ pc[s] \in MatchSteps
  BY DEF GetInjuries, At, MatchSteps
<1>2. /\ work[s] \in Work /\ work[s].slate # <<>> /\ Current(s) \in Matches
      /\ Snapshot(s) \in Values /\ "players" \in Steps \ Unstarted
  BY <1>1, AtAction DEF Steps, Unstarted
<1>4. UNCHANGED uowVars
  BY DEF GetInjuries
<1>5. w \in Work /\ w.slate = work[s].slate /\ w.snapshot = work[s].snapshot
  BY <1>2, AnswersAssumption DEF Work
<1>6. /\ pc' = [pc EXCEPT ![s] = "players"] /\ work' = [work EXCEPT ![s] = w]
      /\ UNCHANGED <<mode, kind, matchBets, propBets, reply>>
  BY DEF GetInjuries, Goto
<1>7. QED
  BY <1>1, <1>2, <1>4, <1>5, <1>6, SameMatch, Unmoved

(* A player and the recent matches of that player. *)
LEMMA SavePlayerStep ==
  ASSUME Inv, NEW s \in Sessions, NEW p \in Players, SavePlayer(s, p)
  PROVE  RunInv' /\ IssueSome(s)
<1> DEFINE w == [work[s] EXCEPT !.todo = @ \ {p}, !.player = p]
<1> DEFINE batch == <<Upsert(p, Club[p])>>
<1>1. pc[s] = "players" /\ pc[s] \in MatchSteps
  BY DEF SavePlayer, At, MatchSteps
<1>2. /\ work[s] \in Work /\ work[s].slate # <<>> /\ Current(s) \in Matches
      /\ Snapshot(s) \in Values /\ "recent" \in Steps \ Unstarted
  BY <1>1, AtAction DEF Steps, Unstarted
<1>3. batch \in Seq(Requests)
  BY <1>2, Keys, Wellformed, AnswersAssumption
<1>4. IssueSome(s)
  BY <1>3 DEF SavePlayer, IssueSome
<1>5. w \in Work /\ w.slate = work[s].slate /\ w.snapshot = work[s].snapshot
      /\ w.player = p
  BY <1>2 DEF Work
<1>6. /\ pc' = [pc EXCEPT ![s] = "recent"] /\ work' = [work EXCEPT ![s] = w]
      /\ UNCHANGED <<mode, kind, matchBets, propBets, reply>>
  BY DEF SavePlayer, Goto
<1>7. QED
  BY <1>1, <1>2, <1>4, <1>5, <1>6, SameMatch, Unmoved

LEMMA GetRecentStep ==
  ASSUME Inv, NEW s \in Sessions, NEW club \in RecentAnswers, GetRecent(s, club)
  PROVE  RunInv' /\ IssueSome(s)
<1> DEFINE w == [work[s] EXCEPT !.history = IF club = NoRow THEN @
                                            ELSE @ \union {work[s].player}]
<1> DEFINE batch == IF club = NoRow THEN <<>>
                     ELSE <<Upsert(Past, Played), Upsert(work[s].player, club),
                            Insert(Stats(work[s].player))>>
<1>1. pc[s] = "recent" /\ pc[s] \in MatchSteps
  BY DEF GetRecent, At, MatchSteps
<1>2. /\ work[s] \in Work /\ work[s].slate # <<>> /\ Current(s) \in Matches
      /\ Snapshot(s) \in Values /\ "players" \in Steps \ Unstarted
  BY <1>1, AtAction DEF Steps, Unstarted
<1>8. work[s].player \in Players
  BY <1>1 DEF Inv, RunInv, AtAMatch
<1>3. batch \in Seq(Requests)
  BY <1>2, <1>8, Keys, EntriesOfRun, Wellformed, AnswersAssumption
<1>4. IssueSome(s)
  BY <1>3 DEF GetRecent, IssueSome
<1>5. w \in Work /\ w.slate = work[s].slate /\ w.snapshot = work[s].snapshot
  BY <1>2, <1>8 DEF Work
<1>6. /\ pc' = [pc EXCEPT ![s] = "players"] /\ work' = [work EXCEPT ![s] = w]
      /\ UNCHANGED <<mode, kind, matchBets, propBets, reply>>
  BY DEF GetRecent, Goto
<1>7. QED
  BY <1>1, <1>2, <1>4, <1>5, <1>6, SameMatch, Unmoved

LEMMA PlayersDoneStep ==
  ASSUME Inv, NEW s \in Sessions, PlayersDone(s)
  PROVE  RunInv' /\ UNCHANGED uowVars
<1> DEFINE w == [work[s] EXCEPT !.groups = work[s].local, !.detected = <<>>]
<1>1. pc[s] = "players" /\ pc[s] \in MatchSteps
  BY DEF PlayersDone, At, MatchSteps
<1>2. /\ work[s] \in Work /\ work[s].slate # <<>> /\ Current(s) \in Matches
      /\ Snapshot(s) \in Values /\ "detect" \in Steps \ Unstarted
  BY <1>1, AtAction DEF Steps, Unstarted
<1>4. UNCHANGED uowVars
  BY DEF PlayersDone
<1>3. work[s].local \in Seq(Markets) /\ <<>> \in Seq(Bets)
  BY <1>2 DEF Work
<1>5. w \in Work /\ w.slate = work[s].slate /\ w.snapshot = work[s].snapshot
  BY <1>2, <1>3 DEF Work
<1>6. /\ pc' = [pc EXCEPT ![s] = "detect"] /\ work' = [work EXCEPT ![s] = w]
      /\ UNCHANGED <<mode, kind, matchBets, propBets, reply>>
  BY DEF PlayersDone, Goto
<1>7. QED
  BY <1>1, <1>2, <1>4, <1>5, <1>6, SameMatch, Unmoved

-----------------------------------------------------------------------------
(* Detection *)

(* The next market group, with or without a bet on it. *)
LEMMA NextGroupStep ==
  ASSUME Inv, NEW s \in Sessions, At(s, "detect"), work[s].groups # <<>>,
         NEW bets \in Seq(Bets), NextGroup(s, bets)
  PROVE  RunInv' /\ UNCHANGED uowVars
<1> DEFINE w == [work[s] EXCEPT !.groups = Tail(@), !.detected = @ \o bets]
<1>1. pc[s] = "detect" /\ pc[s] \in MatchSteps
  BY DEF At, MatchSteps
<1>2. work[s] \in Work /\ work[s].slate # <<>> /\ pc[s] \in Steps \ Unstarted
  BY <1>1, AtAction
<1>3. Tail(work[s].groups) \in Seq(Markets) /\ work[s].detected \o bets \in Seq(Bets)
  BY <1>2 DEF Work
<1>4. w \in Work /\ w.slate = work[s].slate /\ w.snapshot = work[s].snapshot
  BY <1>2, <1>3 DEF Work
<1>5. /\ UNCHANGED uowVars /\ pc' = pc /\ work' = [work EXCEPT ![s] = w]
      /\ UNCHANGED <<mode, kind, matchBets, propBets, reply>>
  BY DEF NextGroup
<1>6. QED
  BY <1>1, <1>2, <1>4, <1>5, SameMatch, Unmoved

LEMMA SkipGroupStep ==
  ASSUME Inv, NEW s \in Sessions, SkipGroup(s)
  PROVE  RunInv' /\ UNCHANGED uowVars
<1>1. <<>> \in Seq(Bets)
  OBVIOUS
<1>2. QED
  BY <1>1, NextGroupStep DEF SkipGroup

LEMMA DetectGroupStep ==
  ASSUME Inv, NEW s \in Sessions, NEW isValue \in BOOLEAN, DetectGroup(s, isValue)
  PROVE  RunInv' /\ UNCHANGED uowVars
<1> DEFINE bets == IF isValue THEN <<MatchBet(Current(s), Group(s))>> ELSE <<>>
<1>1. pc[s] \in MatchSteps /\ work[s].groups # <<>> /\ At(s, "detect")
  BY DEF DetectGroup, At, MatchSteps
<1>2. work[s].groups \in Seq(Markets) /\ Current(s) \in Matches
  BY <1>1, AtAction DEF Work
<1>3. MatchBet(Current(s), Group(s)) \in Bets
  BY <1>1, <1>2, EntriesOfRun DEF Group
<1>4. bets \in Seq(Bets)
  BY <1>3
<1>5. NextGroup(s, bets)
  BY DEF DetectGroup
<1>6. QED
  BY <1>1, <1>4, <1>5, NextGroupStep

LEMMA SaveMatchBetsStep ==
  ASSUME Inv, NEW s \in Sessions, SaveMatchBets(s)
  PROVE  RunInv' /\ IssueSome(s)
<1>1. pc[s] = "detect" /\ pc[s] \in MatchSteps
  BY DEF SaveMatchBets, At, MatchSteps
<1>2. /\ work[s] \in Work /\ work[s].slate # <<>> /\ "price" \in Steps \ Unstarted
      /\ matchBets[s] \in Seq(Bets)
  BY <1>1, AtAction DEF Steps, Unstarted
<1>3. work[s].detected \in Seq(Bets)
  BY <1>2 DEF Work
<1>4. work[s].detected \in Seq(Entries)
  BY <1>3, EntriesOfRun
<1>5. IssueSome(s)
  BY <1>2, <1>4, SavingIssues DEF SaveMatchBets, IssueSome
<1>6. matchBets[s] \o work[s].detected \in Seq(Bets)
  BY <1>2, <1>3
<1>7. matchBets' \in [Sessions -> Seq(Bets)]
  BY <1>6 DEF SaveMatchBets, Inv, RunInv, RunTypeOK
<1>8. /\ pc' = [pc EXCEPT ![s] = "price"] /\ work' = [work EXCEPT ![s] = work[s]]
      /\ UNCHANGED <<mode, kind, propBets, reply>>
  BY Unmoved DEF SaveMatchBets, Goto
<1>9. QED
  BY <1>1, <1>2, <1>5, <1>7, <1>8, SameMatch, Unmoved

(* The next prop. *)
LEMMA PropTail ==
  ASSUME Inv, NEW s \in Sessions, PropLeft(s), NextProp(s)
  PROVE  LET w == [work[s] EXCEPT !.props = Tail(@)] IN
         /\ work' = [work EXCEPT ![s] = w] /\ w \in Work
         /\ w.slate = work[s].slate /\ w.snapshot = work[s].snapshot
         /\ pc[s] = "price" /\ work[s].slate # <<>> /\ pc[s] \in Steps \ Unstarted
         /\ Prop(s) \in Props /\ Current(s) \in Matches
<1> DEFINE w == [work[s] EXCEPT !.props = Tail(@)]
<1>1. pc[s] = "price" /\ pc[s] \in MatchSteps /\ work[s].props # <<>>
  BY DEF PropLeft, At, MatchSteps
<1>2. /\ work[s] \in Work /\ work[s].slate # <<>> /\ Current(s) \in Matches
      /\ pc[s] \in Steps \ Unstarted
  BY <1>1, AtAction
<1>3. work[s].props \in Seq(Props)
  BY <1>2 DEF Work
<1>4. Tail(work[s].props) \in Seq(Props) /\ Head(work[s].props) \in Props
  BY <1>1, <1>3
<1>5. w \in Work /\ w.slate = work[s].slate /\ w.snapshot = work[s].snapshot
  BY <1>2, <1>4 DEF Work
<1>6. work' = [work EXCEPT ![s] = w]
  BY DEF NextProp
<1>7. QED
  BY <1>1, <1>2, <1>4, <1>5, <1>6 DEF Prop

LEMMA SkipPropStep ==
  ASSUME Inv, NEW s \in Sessions, SkipProp(s)
  PROVE  RunInv' /\ UNCHANGED uowVars
<1> DEFINE w == [work[s] EXCEPT !.props = Tail(@)]
<1>1. /\ PropLeft(s) /\ NextProp(s) /\ UNCHANGED uowVars /\ pc' = pc
      /\ UNCHANGED <<mode, kind, matchBets, propBets, reply>>
  BY DEF SkipProp
<1>2. /\ work' = [work EXCEPT ![s] = w] /\ w \in Work
      /\ w.slate = work[s].slate /\ w.snapshot = work[s].snapshot
      /\ pc[s] = "price" /\ work[s].slate # <<>> /\ pc[s] \in Steps \ Unstarted
  BY <1>1, PropTail
<1>3. QED
  BY <1>1, <1>2, SameMatch, Unmoved

LEMMA PricePropStep ==
  ASSUME Inv, NEW s \in Sessions, NEW isValue \in BOOLEAN, PriceProp(s, isValue)
  PROVE  RunInv' /\ IssueSome(s)
<1> DEFINE w == [work[s] EXCEPT !.props = Tail(@)]
           bets == IF isValue THEN <<PropBet(Current(s), Prop(s).player)>> ELSE <<>>
<1>1. /\ PropLeft(s) /\ NextProp(s) /\ pc' = pc /\ Issue(s, Saving(s, bets))
      /\ propBets' = [propBets EXCEPT ![s] = @ \o bets]
      /\ UNCHANGED <<mode, kind, matchBets, reply>>
  BY DEF PriceProp
<1>2. /\ work' = [work EXCEPT ![s] = w] /\ w \in Work
      /\ w.slate = work[s].slate /\ w.snapshot = work[s].snapshot
      /\ pc[s] = "price" /\ work[s].slate # <<>> /\ pc[s] \in Steps \ Unstarted
      /\ Prop(s) \in Props /\ Current(s) \in Matches
  BY <1>1, PropTail
<1>3. PropBet(Current(s), Prop(s).player) \in Bets
  BY <1>2, EntriesOfRun DEF Props
<1>4. bets \in Seq(Bets) /\ bets \in Seq(Entries)
  BY <1>3, EntriesOfRun
<1>5. IssueSome(s)
  BY <1>1, <1>2, <1>4, SavingIssues DEF IssueSome
<1>6. propBets[s] \o bets \in Seq(Bets)
  BY <1>4 DEF Inv, RunInv, RunTypeOK
<1>7. propBets' \in [Sessions -> Seq(Bets)]
  BY <1>1, <1>6 DEF Inv, RunInv, RunTypeOK
<1>8. QED
  BY <1>1, <1>2, <1>5, <1>7, SameMatch, Unmoved

-----------------------------------------------------------------------------
(* Beginnings and ends *)

(* An exception or a result: the coroutine stops where it is.                *)
LEMMA AnswerStep ==
  ASSUME Inv, NEW s \in Sessions, NEW r \in Replies, Answer(s, r),
         UNCHANGED uowVars \/ Refuse(s),
         UNCHANGED <<mode, kind, work, matchBets, propBets>>
  PROVE  RunInv'
<1>1. "answered" \in Steps \ Unstarted /\ "answered" \notin MatchSteps
  BY DEF Steps, Unstarted, MatchSteps
<1>2. pc' = [pc EXCEPT ![s] = "answered"] /\ reply' \in [Sessions -> Replies]
  BY DEF Answer, Goto, Inv, RunInv, RunTypeOK
<1>3. work[s] \in Work /\ work' = [work EXCEPT ![s] = work[s]]
  BY Unmoved DEF Inv, RunInv, RunTypeOK
<1>4. QED
  BY <1>1, <1>2, <1>3, SameMatch, Unmoved

LEMMA AnswerSteps ==
  ASSUME Inv, NEW s \in Sessions,
         \/ \E m \in Matches : MatchNotFound(s, m)
         \/ \E bet \in Bets : BetNotFound(s, bet)
         \/ \E error \in Errors : ProviderError(s, error)
         \/ DetectionError(s) \/ PropError(s) \/ RunDone(s) \/ SettleDone(s)
  PROVE  RunInv' /\ UNCHANGED uowVars
<1>1. PICK r \in Replies : Answer(s, r)
  BY AnswersAreReplies
     DEF MatchNotFound, BetNotFound, ProviderError, DetectionError, PropError, RunDone, SettleDone
<1>2. UNCHANGED uowVars /\ UNCHANGED <<mode, kind, work, matchBets, propBets>>
  BY DEF MatchNotFound, BetNotFound, ProviderError, DetectionError, PropError, RunDone, SettleDone
<1>3. QED
  BY <1>1, <1>2, AnswerStep

LEMMA DatabaseErrorStep ==
  ASSUME Inv, NEW s \in Sessions, DatabaseError(s)
  PROVE  RunInv' /\ Refuse(s)
BY AnswersAreReplies, AnswerStep DEF DatabaseError

(* A run never meets a row that it has just found absent: it goes on.        *)
LEMMA FlushGoesOn ==
  ASSUME Inv, NEW s \in Sessions, FlushNext(s)
  PROVE  Flush(s) /\ UNCHANGED runVars
<1>1. Flush(s) /\ phase' = phase
  BY FlushRuns DEF FlushNext, Run, Inv
<1>2. phase'[s] # "collided"
  BY <1>1 DEF Inv, UowInv, NothingIsCreatedTwice
<1>3. QED
  BY <1>1, <1>2 DEF FlushNext

LEMMA StatementStep ==
  ASSUME Inv, NEW s \in Sessions, GetNext(s) \/ FlushNext(s)
  PROVE  RunInv' /\ (Get(s) \/ Flush(s))
<1>1. (Get(s) \/ Flush(s)) /\ UNCHANGED runVars /\ writes[s] # <<>>
  BY FlushGoesOn DEF GetNext, Get, Flush
<1>2. pc[s] \in Steps \ Unstarted /\ work[s] \in Work
  BY <1>1 DEF Inv, RunInv, RunTypeOK, Fresh
<1>3. (pc[s] \in MatchSteps => work[s].slate # <<>>) /\ (pc[s] = "recent" => work[s].player \in Players)
  BY DEF Inv, RunInv, AtAMatch
<1>4. QED
  BY <1>1, <1>2, <1>3, SameMatch, Unmoved DEF runVars

LEMMA NoWorkIsWork ==
  ASSUME NEW slate \in Seq(Matches), NEW snapshot \in [Matches -> Kickoffs \union {NoRow}]
  PROVE  LET w == [NoWork EXCEPT !.slate = slate, !.snapshot = snapshot] IN
         NoWork \in Work /\ w \in Work /\ w.slate = slate /\ w.snapshot = snapshot
<1>1. /\ <<>> \in Seq(Matches) /\ <<>> \in Seq(Markets) /\ <<>> \in Seq(Props)
      /\ <<>> \in Seq(Bets)
  OBVIOUS
<1>2. [m \in Matches |-> NoRow] \in [Matches -> Kickoffs \union {NoRow}]
  OBVIOUS
<1>3. NoWork \in Work
  BY <1>1, <1>2 DEF NoWork, Work, Covers
<1>4. [NoWork EXCEPT !.slate = slate, !.snapshot = snapshot] \in Work
  BY <1>3 DEF Work
<1>5. QED
  BY <1>3, <1>4 DEF NoWork

LEMMA BeginStep ==
  ASSUME Inv, NEW s \in Sessions,
         (\E k \in Kinds : Begin(s, k)) \/ BeginSettle(s)
  PROVE  RunInv' /\ Open(s)
<1>1. PICK k \in Kinds \union {"settle"} :
        /\ pc[s] = "idle" /\ Open(s) /\ kind' = [kind EXCEPT ![s] = k]
        /\ pc' = [pc EXCEPT ![s] = "browser"] \/ pc' = [pc EXCEPT ![s] = "settle"]
        /\ UNCHANGED <<mode, work, matchBets, propBets, reply>>
  BY DEF Begin, BeginSettle, Goto
<1>2. PICK p \in {"browser", "settle"} : pc' = [pc EXCEPT ![s] = p]
  BY <1>1
<1>3. p \in Steps /\ p \notin MatchSteps /\ p # "recent"
  BY DEF Steps, MatchSteps
<1>4. own'[s] = Nothing /\ writes'[s] = <<>>
  BY <1>1 DEF Open, Inv, RunInv, Fresh, Unstarted
<1>5. kind' \in [Sessions -> {"none", "tick", "run", "query", "settle"}]
  BY <1>1, KindsAssumption DEF Inv, RunInv, RunTypeOK
<1>6. /\ work[s] \in Work /\ work' = [work EXCEPT ![s] = work[s]]
      /\ \A i \in DOMAIN work[s].slate : work[s].snapshot[work[s].slate[i]] # NoRow
  BY <1>1, Unmoved DEF Inv, RunInv, RunTypeOK, SlateKnown
<1>7. stored' = stored /\ \A t \in Sessions \ {s} : own'[t] = own[t] /\ writes'[t] = writes[t]
  BY <1>1, LayerStep
<1>8. QED
  BY <1>1, <1>2, <1>3, <1>4, <1>5, <1>6, <1>7, Unmoved, OneSession

(* A run starts from matches that are in the database.                       *)
LEMMA StartWorkStep ==
  ASSUME Inv, NEW s \in Sessions, pc[s] = "browser", NEW slate \in Seq(Matches),
         \A i \in DOMAIN slate : View(s, slate[i]) # NoRow, StartWork(s, slate)
  PROVE  RunInv' /\ UNCHANGED uowVars
<1> DEFINE snapshot == [m \in Matches |-> View(s, m)]
           w == [NoWork EXCEPT !.slate = slate, !.snapshot = snapshot]
<1>1. own[s] = Nothing
  BY DEF Inv, RunInv, Fresh, Unstarted
<1>2. \A m \in Matches : View(s, m) = stored[m]
  BY <1>1, Keys DEF View, Nothing
<1>3. \A m \in Matches : stored[m] \in Kickoffs \union {NoRow}
  <2>1. \A store \in Stores, m \in Matches : store[m] \in Kickoffs \union {NoRow}
    BY TablesAssumption
  <2>2. QED
    BY <2>1 DEF Inv, RunInv
<1>4. snapshot \in [Matches -> Kickoffs \union {NoRow}]
  BY <1>2, <1>3
<1>5. w \in Work /\ w.slate = slate /\ w.snapshot = snapshot
  BY <1>4, NoWorkIsWork
<1>6. \A i \in DOMAIN slate : slate[i] \in Matches
  OBVIOUS
<1>7. \A i \in DOMAIN w.slate : w.snapshot[w.slate[i]] # NoRow
  BY <1>5, <1>6
<1>8. /\ pc' = [pc EXCEPT ![s] = "register"] /\ work' = [work EXCEPT ![s] = w]
      /\ UNCHANGED uowVars /\ UNCHANGED <<mode, kind, matchBets, propBets, reply>>
  BY DEF StartWork, Goto
<1>9. "register" \in Steps /\ "register" \notin Unstarted /\ "register" \notin MatchSteps
  BY DEF Steps, Unstarted, MatchSteps
<1>10. stored' = stored /\ \A t \in Sessions \ {s} : own'[t] = own[t] /\ writes'[t] = writes[t]
  BY <1>8, LayerStep
<1>11. kind' \in [Sessions -> {"none", "tick", "run", "query", "settle"}]
  BY <1>8 DEF Inv, RunInv, RunTypeOK
<1>12. QED
  BY <1>5, <1>7, <1>8, <1>9, <1>10, <1>11, Unmoved, OneSession

LEMMA ListUpcomingStep ==
  ASSUME Inv, NEW s \in Sessions, ListUpcoming(s)
  PROVE  RunInv' /\ UNCHANGED uowVars
<1>1. PICK slate \in SlatesFor(s) : StartWork(s, slate)
  BY DEF ListUpcoming
<1>2. Upcoming(s) \subseteq Matches /\ IsFiniteSet(Upcoming(s))
  BY Keys, FS_Subset DEF Upcoming
<1>3. Cardinality(Upcoming(s)) \in Nat
  BY <1>2, FS_CardinalityType
<1>4. slate \in [1..Cardinality(Upcoming(s)) -> Upcoming(s)]
  BY <1>1 DEF SlatesFor
<1>5. slate \in Seq(Matches)
  BY <1>2, <1>3, <1>4
<1>6. \A i \in DOMAIN slate : View(s, slate[i]) # NoRow
  BY <1>4 DEF Upcoming
<1>7. pc[s] = "browser"
  BY DEF ListUpcoming, At
<1>8. QED
  BY <1>1, <1>5, <1>6, <1>7, StartWorkStep

LEMMA GetMatchStep ==
  ASSUME Inv, NEW s \in Sessions, NEW m \in Matches, GetMatch(s, m)
  PROVE  RunInv' /\ UNCHANGED uowVars
<1>1. pc[s] = "browser" /\ View(s, m) # NoRow /\ StartWork(s, <<m>>)
  BY DEF GetMatch, At
<1>2. <<m>> \in Seq(Matches) /\ \A i \in DOMAIN <<m>> : <<m>>[i] = m
  OBVIOUS
<1>3. \A i \in DOMAIN <<m>> : View(s, <<m>>[i]) # NoRow
  BY <1>1, <1>2
<1>4. QED
  BY <1>1, <1>2, <1>3, StartWorkStep, Zenon

LEMMA MatchDoneStep ==
  ASSUME Inv, NEW s \in Sessions, MatchDone(s)
  PROVE  RunInv' /\ UNCHANGED uowVars
<1> DEFINE slate == Tail(work[s].slate)
           w == [NoWork EXCEPT !.slate = slate, !.snapshot = work[s].snapshot]
<1>1. pc[s] = "price" /\ pc[s] \in MatchSteps
  BY DEF MatchDone, At, MatchSteps
<1>2. work[s] \in Work /\ work[s].slate # <<>>
  BY <1>1, AtAction
<1>3. work[s].slate \in Seq(Matches) /\ work[s].snapshot \in [Matches -> Kickoffs \union {NoRow}]
  BY <1>2 DEF Work
<1>4. slate \in Seq(Matches) /\ \A i \in DOMAIN slate :
         i + 1 \in DOMAIN work[s].slate /\ slate[i] = work[s].slate[i + 1]
  BY <1>2, <1>3
<1>5. w \in Work /\ w.slate = slate /\ w.snapshot = work[s].snapshot
  BY <1>3, <1>4, NoWorkIsWork
<1>6. \A i \in DOMAIN w.slate : w.snapshot[w.slate[i]] # NoRow
  BY <1>4, <1>5 DEF Inv, RunInv, SlateKnown
<1>7. /\ pc' = [pc EXCEPT ![s] = "register"] /\ work' = [work EXCEPT ![s] = w]
      /\ UNCHANGED uowVars /\ UNCHANGED <<mode, kind, matchBets, propBets, reply>>
  BY DEF MatchDone, Goto
<1>8. "register" \in Steps /\ "register" \notin Unstarted /\ "register" \notin MatchSteps
  BY DEF Steps, Unstarted, MatchSteps
<1>9. stored' = stored /\ \A t \in Sessions \ {s} : own'[t] = own[t] /\ writes'[t] = writes[t]
  BY <1>7, LayerStep
<1>10. kind' \in [Sessions -> {"none", "tick", "run", "query", "settle"}]
  BY <1>7 DEF Inv, RunInv, RunTypeOK
<1>11. QED
  BY <1>5, <1>6, <1>7, <1>8, <1>9, <1>10, Unmoved, OneSession

LEMMA SettleStepHolds ==
  ASSUME Inv, NEW s \in Sessions, NEW bet \in Bets, Settle(s, bet)
  PROVE  RunInv' /\ IssueSome(s)
<1>1. <<Insert(Settled(bet))>> \in Seq(Requests)
  BY EntriesOfRun, Wellformed
<1>2. IssueSome(s)
  BY <1>1 DEF Settle, IssueSome
<1>3. "settled" \in Steps \ Unstarted /\ "settled" \notin MatchSteps
  BY DEF Steps, Unstarted, MatchSteps
<1>4. work[s] \in Work
  BY DEF Inv, RunInv, RunTypeOK
<1>5. /\ pc' = [pc EXCEPT ![s] = "settled"] /\ work' = [work EXCEPT ![s] = work[s]]
      /\ UNCHANGED <<mode, kind, matchBets, propBets, reply>>
  BY Unmoved DEF Settle, Goto
<1>6. QED
  BY <1>2, <1>3, <1>4, <1>5, SameMatch, Unmoved

LEMMA EndStep ==
  ASSUME Inv, NEW s \in Sessions, End(s)
  PROVE  RunInv' /\ Close(s)
<1>1. /\ Close(s) /\ pc' = [pc EXCEPT ![s] = "idle"] /\ kind' = [kind EXCEPT ![s] = "none"]
      /\ work' = [work EXCEPT ![s] = NoWork] /\ mode' = mode
      /\ matchBets' = [matchBets EXCEPT ![s] = <<>>]
      /\ propBets' = [propBets EXCEPT ![s] = <<>>] /\ reply' = [reply EXCEPT ![s] = "none"]
  BY DEF End, Goto
<1>2. own'[s] = Nothing /\ writes'[s] = <<>>
  BY <1>1 DEF Close, Inv, UowInv, UowTypeOK
<1>3. NoWork \in Work /\ NoWork.slate = <<>>
  <2>1. <<>> \in Seq(Matches) /\ [m \in Matches |-> NoRow] \in [Matches -> Kickoffs \union {NoRow}]
    OBVIOUS
  <2>2. QED
    BY <2>1, NoWorkIsWork DEF NoWork
<1>4. <<>> \in Seq(Bets) /\ "none" \in Replies /\ "idle" \in Steps /\ "idle" \notin MatchSteps
  BY DEF Replies, Steps, MatchSteps
<1>5. /\ matchBets' \in [Sessions -> Seq(Bets)] /\ propBets' \in [Sessions -> Seq(Bets)]
      /\ reply' \in [Sessions -> Replies]
      /\ kind' \in [Sessions -> {"none", "tick", "run", "query", "settle"}]
  BY <1>1, <1>4 DEF Inv, RunInv, RunTypeOK
<1>6. stored' = stored /\ \A t \in Sessions \ {s} : own'[t] = own[t] /\ writes'[t] = writes[t]
  BY <1>1, LayerStep
<1>7. \A i \in DOMAIN NoWork.slate : NoWork.snapshot[NoWork.slate[i]] # NoRow
  BY <1>3
<1>8. QED
  BY <1>1, <1>2, <1>3, <1>4, <1>5, <1>6, <1>7, OneSession

-----------------------------------------------------------------------------
(* Theorems *)

(* Every step of the service is a step of the persistence layer, or leaves   *)
(* it alone, and keeps the coroutines' types.                                *)
LEMMA StepHolds ==
  ASSUME Inv, [Next]_vars
  PROVE  RunInv' /\ [UowNext]_uowVars
<1>1. CASE UNCHANGED vars
  BY <1>1 DEF vars, runVars, uowVars, Inv, RunInv, RunTypeOK, Fresh, SlateKnown, AtAMatch
<1>2. CASE Next
  <2>1. PICK s \in Sessions : Start(s) \/ BeginSettle(s) \/ SettleStep(s) \/ RunStep(s)
    BY <1>2 DEF Next
  <2>2. CASE Start(s) \/ BeginSettle(s)
    BY <2>2, BeginStep DEF Start, UowNext
  <2>3. CASE SettleStep(s)
    BY <2>3, SettleStepHolds, AnswerSteps DEF SettleStep, UowNext
  <2>4. CASE Ingest(s)
    BY <2>4, ListUpcomingStep, GetMatchStep, AnswerSteps, RegisterStep, GetSharpOddsStep,
       GetFormsStep, GetLocalOddsStep, GetPlayerPropsStep, GetLineupStep, GetInjuriesStep,
       SavePlayerStep, GetRecentStep, PlayersDoneStep DEF Ingest, UowNext
  <2>5. CASE Detect(s)
    BY <2>5, SkipGroupStep, DetectGroupStep, PricePropStep, SaveMatchBetsStep, AnswerSteps,
       SkipPropStep, MatchDoneStep DEF Detect, UowNext
  <2>6. CASE Finish(s)
    BY <2>6, AnswerSteps, DatabaseErrorStep, EndStep DEF Finish, UowNext
  <2>7. CASE GetNext(s) \/ FlushNext(s)
    BY <2>7, StatementStep DEF UowNext
  <2>8. QED
    BY <2>1, <2>2, <2>3, <2>4, <2>5, <2>6, <2>7 DEF RunStep
<1>3. QED
  BY <1>1, <1>2

LEMMA InitHolds == Init => Inv
<1> SUFFICES ASSUME Init PROVE Inv
  OBVIOUS
<1>1. UowInv
  BY UowInitHolds DEF Init
<1>2. NoWork \in Work /\ NoWork.slate = <<>>
  <2>1. <<>> \in Seq(Matches) /\ [m \in Matches |-> NoRow] \in [Matches -> Kickoffs \union {NoRow}]
    OBVIOUS
  <2>2. QED
    BY <2>1, NoWorkIsWork DEF NoWork
<1>3. <<>> \in Seq(Bets) /\ "none" \in Replies /\ "idle" \in Steps /\ "idle" \notin MatchSteps
  BY DEF Replies, Steps, MatchSteps
<1>4. RunTypeOK
  BY <1>2, <1>3 DEF Init, RunTypeOK
<1>5. stored \in Stores /\ Fresh
  BY DEF Init, UowInit, Fresh
<1>6. SlateKnown /\ AtAMatch
  BY <1>2, <1>3 DEF Init, SlateKnown, AtAMatch
<1>7. QED
  BY <1>1, <1>4, <1>5, <1>6 DEF Inv, RunInv

(* The inductive invariant, for every instance. *)
LEMMA Invariance == Spec => []Inv
<1>1. Inv /\ [Next]_vars => Inv'
  BY StepHolds, UowStepHolds DEF Inv
<1>2. QED
  BY <1>1, InitHolds, PTL DEF Spec

(* Every variable keeps its type, and every ending is one of the statuses    *)
(* that exception_handlers.py knows, whatever the providers answer.          *)
THEOREM TypeCorrect == Spec => []TypeOK
<1>1. Inv => TypeOK
  BY DEF Inv, UowInv, RunInv, RunTypeOK, TypeOK
<1>2. QED
  BY <1>1, Invariance, PTL

(* The service uses the persistence layer only through its six operations,    *)
(* with well-formed statements: what holds of the layer holds of it.         *)
THEOREM ServiceUsesUnitOfWork == Spec => UowSpec
<1>1. Inv /\ [Next]_vars => [UowNext]_uowVars
  BY StepHolds
<1>2. Init => UowInit
  BY DEF Init
<1>3. QED
  BY <1>1, <1>2, Invariance, PTL DEF Spec, UowSpec

(* No run or settlement creates a row twice, whatever the other sessions do   *)
(* between the get that found it absent and the INSERT, and however often a   *)
(* run saves the same match, player or bookmaker itself.                      *)
THEOREM CreatesOnce == Spec => []NothingIsCreatedTwice
<1>1. Inv => NothingIsCreatedTwice
  BY DEF Inv, UowInv
<1>2. QED
  BY <1>1, Invariance, PTL

-----------------------------------------------------------------------------
(* The inductive invariant behind provenance: a run saves no bet before the rows
   it rests on, whatever the providers answer and however sessions interleave *)

(* entry may only follow row. *)
Required(entry, row) ==
  \/ \E m \in Matches, k \in Markets :
       /\ entry = MatchBet(m, k)
       /\ row = Quote(m, k, Local) \/ (mode = "CONFIRMATION" /\ row = Quote(m, k, Sharp))
  \/ \E m \in Matches, p \in Players : entry = PropBet(m, p) /\ row = Stats(p)

Pending(s) == {writes[s][i] : i \in DOMAIN writes[s]}

(* A row is in the session, or is about to be. *)
Have(s, row) == row \in Rowset(s) \/ Insert(row) \in Pending(s)

LedgerFollows(s) ==
  \A i \in DOMAIN ledger[s] : \A row : Required(ledger[s][i], row) => row \in Before(s, i)

PendingFollows(s) ==
  \A entry, row : Insert(entry) \in Pending(s) /\ Required(entry, row) => row \in Rowset(s)

AfterSharp == {"forms", "local", "props", "lineup", "injuries", "players", "recent",
               "detect", "price"}
AfterLocal == AfterSharp \ {"forms", "local"}
AfterInjuries == {"players", "recent", "detect", "price"}

(* What the coroutine remembers having ingested, it has. *)
Remembers(s) ==
  /\ pc[s] \in AfterSharp /\ work[s].cover # "none" =>
       Have(s, Quote(Current(s), SharpMarket, Sharp))
  /\ pc[s] \in AfterLocal =>
       \A i \in DOMAIN work[s].local : Have(s, Quote(Current(s), work[s].local[i], Local))
  /\ pc[s] \in AfterInjuries => \A p \in work[s].history : Have(s, Stats(p))

(* What it still has to price, and what it has priced, was quoted. *)
Priced(s, bet) ==
  \E i \in DOMAIN work[s].local :
    /\ bet = MatchBet(Current(s), work[s].local[i])
    /\ mode = "CONFIRMATION" => work[s].local[i] = SharpMarket /\ work[s].cover # "none"

Prices(s) ==
  pc[s] = "detect" =>
    /\ \A i \in DOMAIN work[s].groups : \E j \in DOMAIN work[s].local :
         work[s].groups[i] = work[s].local[j]
    /\ \A i \in DOMAIN work[s].detected : Priced(s, work[s].detected[i])

Traces(s) == LedgerFollows(s) /\ PendingFollows(s) /\ Remembers(s) /\ Prices(s)

TraceInv == \A s \in Sessions : Traces(s)

-----------------------------------------------------------------------------
(* Steps of the layer *)

(* Only bets rest on other rows.                                             *)
LEMMA OnlyBets ==
  /\ \A m, k, b, row : ~Required(Quote(m, k, b), row)
  /\ \A p, row : ~Required(Stats(p), row)
  /\ \A bet, row : ~Required(Settled(bet), row)
BY DEF Required, Quote, Stats, Settled, MatchBet, PropBet

LEMMA InsertIsOne == \A e, f : Insert(e) = Insert(f) => e = f
BY DEF Insert

LEMMA UpsertIsNoInsert == \A e, row, value : Insert(e) # Upsert(row, value)
BY DEF Insert, Upsert

(* A flush moves its statement's row, if it is an insert, to the ledger.     *)
LEMMA FlushMoves ==
  ASSUME Inv, NEW s \in Sessions, Flush(s)
  PROVE  /\ \A e : Insert(e) \in Pending(s)' => Insert(e) \in Pending(s)
         /\ \A row : Have(s, row) => Have(s, row)'
         /\ \/ ledger'[s] = ledger[s]
            \/ \E e \in Entries : Insert(e) \in Pending(s) /\ ledger'[s] = Append(ledger[s], e)
<1> DEFINE w == Head(writes[s])
<1>1. writes[s] \in Seq(Statements) /\ writes[s] # <<>> /\ ledger[s] \in Seq(Entries)
  BY DEF Flush, Inv, UowInv, UowTypeOK
<1>2. w \in Statements /\ w = writes[s][1] /\ w \in Pending(s)
  BY <1>1 DEF Pending
<1>3. writes'[s] = Tail(writes[s])
  BY FlushRuns DEF Run, Inv, UowInv, UowTypeOK
<1>4. \A i \in DOMAIN writes'[s] : i + 1 \in DOMAIN writes[s] /\ writes'[s][i] = writes[s][i + 1]
  BY <1>1, <1>3
<1>5. \A i \in DOMAIN writes[s] : i = 1 \/ (i - 1 \in DOMAIN writes'[s]
                                            /\ writes'[s][i - 1] = writes[s][i])
  BY <1>1, <1>3
<1>6. Pending(s)' \subseteq Pending(s)
  BY <1>4 DEF Pending
<1>7. \A x \in Pending(s) : x = w \/ x \in Pending(s)'
  BY <1>2, <1>5 DEF Pending
<1>8. CASE w.op # "insert"
  <2>1. ledger'[s] = ledger[s]
    BY <1>8, FlushRuns DEF Run, Inv
  <2>2. \A e : Insert(e) # w
    BY <1>8 DEF Insert
  <2>3. QED
    BY <1>6, <1>7, <2>1, <2>2 DEF Have, Rowset
<1>9. CASE w.op = "insert"
  <2>1. ledger'[s] = Append(ledger[s], w.entry)
    BY <1>9, FlushRuns DEF Run, Inv, UowInv, UowTypeOK
  <2>2. w.entry \in Entries /\ w = Insert(w.entry)
    BY <1>2, <1>9 DEF Statements, Requests, Insert
  <2>3. Rowset(s)' = Rowset(s) \union {w.entry}
    <3> DEFINE n == Len(ledger[s])
    <3>1. /\ n \in Nat /\ DOMAIN ledger[s] = 1..n /\ DOMAIN ledger'[s] = 1..(n + 1)
          /\ ledger'[s][n + 1] = w.entry /\ \A i \in 1..n : ledger'[s][i] = ledger[s][i]
      BY <1>1, <2>1, <2>2
    <3> HIDE DEF n
    <3>2. 1..(n + 1) = 1..n \union {n + 1}
      BY <3>1
    <3>3. QED
      BY <3>1, <3>2 DEF Rowset
  <2>4. \A row : Insert(row) = w => row \in Rowset(s)'
    BY <2>2, <2>3, InsertIsOne
  <2>5. QED
    BY <1>2, <1>6, <1>7, <2>1, <2>2, <2>3, <2>4 DEF Have
<1>10. QED
  BY <1>8, <1>9

(* A get rewrites an upsert, and no insert is one.                           *)
LEMMA GetMoves ==
  ASSUME Inv, NEW s \in Sessions, Get(s)
  PROVE  /\ \A e : Insert(e) \in Pending(s)' => Insert(e) \in Pending(s)
         /\ \A row : Have(s, row) => Have(s, row)'
         /\ ledger'[s] = ledger[s]
<1> DEFINE w == Head(writes[s])
           tail == Tail(writes[s])
<1>1. /\ ledger' = ledger /\ writes[s] # <<>> /\ writes[s] \in Seq(Statements)
      /\ tail \in Seq(Requests) /\ w.op = "upsert"
  BY GetDecides DEF Get, Inv
<1>2. Pending(s) = {w} \union {tail[i] : i \in DOMAIN tail}
  <2>1. /\ w = writes[s][1] /\ 1 \in DOMAIN writes[s]
        /\ \A i \in DOMAIN tail : i + 1 \in DOMAIN writes[s] /\ tail[i] = writes[s][i + 1]
        /\ \A i \in DOMAIN writes[s] :
             i = 1 \/ (i - 1 \in DOMAIN tail /\ tail[i - 1] = writes[s][i])
    BY <1>1
  <2>2. QED
    BY <2>1 DEF Pending
<1>3. \A e : Insert(e) # w
  BY <1>1 DEF Insert
<1>4. \A e : Insert(e) \in Pending(s)' <=> Insert(e) \in {tail[i] : i \in DOMAIN tail}
  <2>1. CASE writes'[s] = tail
    BY <2>1 DEF Pending
  <2>2. ASSUME NEW x \in Statements, writes'[s] = <<x>> \o tail, x.op \in {"create", "update"}
        PROVE  \A e : Insert(e) \in Pending(s)' <=> Insert(e) \in {tail[i] : i \in DOMAIN tail}
    <3> DEFINE new == <<x>> \o tail
    <3>1. /\ x = new[1] /\ 1 \in DOMAIN new
          /\ \A i \in DOMAIN tail : i + 1 \in DOMAIN new /\ tail[i] = new[i + 1]
          /\ \A i \in DOMAIN new : i = 1 \/ (i - 1 \in DOMAIN tail /\ tail[i - 1] = new[i])
      BY <1>1
    <3>2. Pending(s)' = {new[i] : i \in DOMAIN new}
      BY <2>2 DEF Pending
    <3>3. \A e : Insert(e) # x
      BY <2>2 DEF Insert
    <3> HIDE DEF new, tail
    <3>4. QED
      BY <3>1, <3>2, <3>3
  <2>3. QED
    BY <2>1, <2>2, GetDecides DEF Inv
<1>5. Rowset(s)' = Rowset(s)
  BY <1>1 DEF Rowset
<1>6. QED
  BY <1>1, <1>2, <1>3, <1>4, <1>5 DEF Have

(* Running what may follow keeps the order.                                  *)
LEMMA StatementFollows ==
  ASSUME Inv, NEW s \in Sessions, Get(s) \/ Flush(s), mode' = mode, LedgerFollows(s), PendingFollows(s)
  PROVE  LedgerFollows(s)' /\ PendingFollows(s)'
<1>1. ledger[s] \in Seq(Entries)
  BY DEF Inv, UowInv, UowTypeOK
<1>2. \A entry, row : Required(entry, row)' <=> Required(entry, row)
  BY DEF Required
<1>3. Rowset(s) \subseteq Rowset(s)'
  <2>1. CASE ledger'[s] = ledger[s]
    BY <2>1 DEF Rowset
  <2>2. CASE \E e \in Entries : Insert(e) \in Pending(s) /\ ledger'[s] = Append(ledger[s], e)
    BY <1>1, <2>2 DEF Rowset
  <2>3. QED
    BY <2>1, <2>2, FlushMoves, GetMoves
<1>4. PendingFollows(s)'
  BY <1>2, <1>3, FlushMoves, GetMoves DEF PendingFollows
<1>5. CASE ledger'[s] = ledger[s]
  BY <1>2, <1>4, <1>5 DEF LedgerFollows, Before
<1>6. ASSUME NEW e \in Entries, Insert(e) \in Pending(s), ledger'[s] = Append(ledger[s], e)
      PROVE  LedgerFollows(s)'
  <2> SUFFICES ASSUME NEW i \in DOMAIN ledger'[s], NEW row, Required(ledger'[s][i], row)
               PROVE  row \in Before(s, i)'
    BY <1>2 DEF LedgerFollows
  <2>1. /\ Len(ledger[s]) \in Nat /\ DOMAIN ledger'[s] = 1..(Len(ledger[s]) + 1)
        /\ DOMAIN ledger[s] = 1..Len(ledger[s])
        /\ ledger'[s][Len(ledger[s]) + 1] = e
        /\ \A j \in 1..Len(ledger[s]) : ledger'[s][j] = ledger[s][j]
    BY <1>1, <1>6
  <2>2. CASE i = Len(ledger[s]) + 1
    <3>1. row \in Rowset(s)
      BY <1>6, <2>1, <2>2 DEF PendingFollows
    <3>2. PICK j \in 1..Len(ledger[s]) : row = ledger[s][j]
      BY <2>1, <3>1 DEF Rowset
    <3>3. j \in 1..(i - 1) /\ row = ledger'[s][j]
      BY <2>1, <2>2, <3>2
    <3>4. QED
      BY <3>3 DEF Before
  <2>3. CASE i \in 1..Len(ledger[s])
    <3>1. row \in Before(s, i)
      BY <2>1, <2>3 DEF LedgerFollows
    <3>2. PICK j \in 1..(i - 1) : row = ledger[s][j]
      BY <3>1 DEF Before
    <3>3. row = ledger'[s][j]
      BY <2>1, <2>3, <3>2
    <3>4. QED
      BY <3>2, <3>3 DEF Before
  <2>4. QED
    BY <2>1, <2>2, <2>3
<1>7. QED
  BY <1>4, <1>5, <1>6, FlushMoves, GetMoves

(* A batch whose bets rest on rows that are there already keeps it, too.     *)
LEMMA IssueFollows ==
  ASSUME Inv, NEW s \in Sessions, NEW batch \in Seq(Requests), Issue(s, batch), mode' = mode,
         LedgerFollows(s),
         \A i \in DOMAIN batch : \A e, row :
           batch[i] = Insert(e) /\ Required(e, row) => row \in Rowset(s)
  PROVE  /\ LedgerFollows(s)' /\ PendingFollows(s)'
         /\ \A row : Have(s, row) => Have(s, row)'
         /\ \A i \in DOMAIN batch : \A e : batch[i] = Insert(e) => Have(s, e)'
<1>1. ledger' = ledger /\ writes[s] = <<>> /\ writes'[s] = batch
  BY DEF Issue, Inv, UowInv, UowTypeOK
<1>2. \A entry, row : Required(entry, row)' <=> Required(entry, row)
  BY DEF Required
<1>3. Pending(s) = {} /\ Rowset(s)' = Rowset(s)
  BY <1>1 DEF Pending, Rowset
<1>4. \A e : Insert(e) \in Pending(s)' => \E i \in DOMAIN batch : batch[i] = Insert(e)
  <2>1. Pending(s)' = {batch[i] : i \in DOMAIN batch}
    BY <1>1 DEF Pending
  <2>2. QED
    BY <2>1
<1>5. PendingFollows(s)'
  BY <1>2, <1>3, <1>4 DEF PendingFollows
<1>6. LedgerFollows(s)'
  <2>1. \A i : Before(s, i)' = Before(s, i)
    BY <1>1 DEF Before
  <2>2. QED
    BY <1>1, <1>2, <2>1 DEF LedgerFollows
<1>7. \A row : Have(s, row) => Have(s, row)'
  BY <1>3 DEF Have
<1>8. \A i \in DOMAIN batch : \A e : batch[i] = Insert(e) => Have(s, e)'
  BY <1>1 DEF Have, Pending
<1>9. QED
  BY <1>5, <1>6, <1>7, <1>8

(* The other steps of the layer insert nothing.                              *)
LEMMA QuietFollows ==
  ASSUME Inv, NEW s \in Sessions, mode' = mode, LedgerFollows(s), PendingFollows(s),
         UNCHANGED uowVars \/ Open(s) \/ Refuse(s) \/ Close(s)
  PROVE  LedgerFollows(s)' /\ PendingFollows(s)'
<1>1. \A entry, row : Required(entry, row)' <=> Required(entry, row)
  BY DEF Required
<1>2. ledger \in [Sessions -> Seq(Entries)] /\ writes \in [Sessions -> Seq(Statements)]
  BY DEF Inv, UowInv, UowTypeOK
<1>3. /\ ledger'[s] = ledger[s] \/ ledger'[s] = <<>>
      /\ (ledger'[s] = ledger[s] /\ writes'[s] = writes[s]) \/ writes'[s] = <<>>
  <2>1. CASE UNCHANGED uowVars \/ Open(s)
    BY <2>1 DEF uowVars, Open
  <2>2. CASE Refuse(s)
    BY <1>2, <2>2 DEF Refuse, Fail
  <2>3. CASE Close(s)
    BY <1>2, <2>3 DEF Close
  <2>4. QED
    BY <2>1, <2>2, <2>3
<1>4. LedgerFollows(s)'
  <2>1. CASE ledger'[s] = ledger[s]
    <3>1. \A i : Before(s, i)' = Before(s, i)
      BY <2>1 DEF Before
    <3>2. QED
      BY <1>1, <2>1, <3>1 DEF LedgerFollows
  <2>2. CASE ledger'[s] = <<>>
    BY <2>2 DEF LedgerFollows
  <2>3. QED
    BY <1>3, <2>1, <2>2
<1>5. PendingFollows(s)'
  <2>1. CASE ledger'[s] = ledger[s] /\ writes'[s] = writes[s]
    <3>1. Rowset(s)' = Rowset(s) /\ Pending(s)' = Pending(s)
      BY <2>1 DEF Rowset, Pending
    <3>2. QED
      BY <1>1, <3>1 DEF PendingFollows
  <2>2. CASE writes'[s] = <<>>
    <3>1. Pending(s)' = {}
      BY <2>2 DEF Pending
    <3>2. QED
      BY <3>1 DEF PendingFollows
  <2>3. QED
    BY <1>3, <2>1, <2>2
<1>6. QED
  BY <1>4, <1>5

(* What is inserted when quotes or bets are saved.                           *)
InsertsOnly(batch, entries) ==
  \A i \in DOMAIN batch : \A e : batch[i] = Insert(e) => \E j \in DOMAIN entries : e = entries[j]
InsertsAll(batch, entries) ==
  \A j \in DOMAIN entries : \E i \in DOMAIN batch : batch[i] = Insert(entries[j])

LEMMA SavingInserts ==
  ASSUME NEW s, NEW entries \in Seq(Entries)
  PROVE  InsertsOnly(Saving(s, entries), entries) /\ InsertsAll(Saving(s, entries), entries)
<1> DEFINE n == Len(entries)
           inserts == [i \in 1..n |-> Insert(entries[i])]
           first == Upsert(Current(s), Snapshot(s))
           second == Upsert(Local, Registered)
<1>1. CASE entries = <<>>
  BY <1>1 DEF Saving, InsertsOnly, InsertsAll
<1>2. CASE entries # <<>>
  <2>1. n \in Nat /\ DOMAIN entries = 1..n
    OBVIOUS
  <2>2. inserts \in Seq({Insert(e) : e \in Entries}) /\ Len(inserts) = n
    BY <2>1
  <2>3. Saving(s, entries) = <<first, second>> \o inserts
    BY <1>2 DEF Saving
  <2>4. /\ DOMAIN (<<first, second>> \o inserts) = 1..(n + 2)
        /\ (<<first, second>> \o inserts)[1] = first /\ (<<first, second>> \o inserts)[2] = second
        /\ \A j \in 1..n : (<<first, second>> \o inserts)[j + 2] = Insert(entries[j])
    <3> HIDE DEF first, second
    <3> QED BY <2>1, <2>2
  <2>5. \A i \in 1..(n + 2) : i = 1 \/ i = 2 \/ (i - 2 \in 1..n /\ i = (i - 2) + 2)
    BY <2>1
  <2>6. InsertsOnly(Saving(s, entries), entries)
    BY <2>1, <2>3, <2>4, <2>5, UpsertIsNoInsert, InsertIsOne DEF InsertsOnly
  <2>7. \A j \in 1..n : j + 2 \in 1..(n + 2)
    BY <2>1
  <2>8. QED
    BY <2>1, <2>3, <2>4, <2>6, <2>7 DEF InsertsAll
<1>3. QED
  BY <1>1, <1>2

-----------------------------------------------------------------------------
(* Steps of the coroutine *)

(* A step that goes on with what it remembers.                               *)
LEMMA KeepsMemory ==
  ASSUME Inv, NEW s \in Sessions, Remembers(s),
         \A row : Have(s, row) => Have(s, row)',
         work'[s].slate = work[s].slate, work'[s].cover = work[s].cover,
         work'[s].local = work[s].local, work'[s].history = work[s].history,
         pc'[s] \in AfterSharp => pc[s] \in AfterSharp,
         pc'[s] \in AfterLocal => pc[s] \in AfterLocal,
         pc'[s] \in AfterInjuries => pc[s] \in AfterInjuries
  PROVE  Remembers(s)'
<1>1. Current(s)' = Current(s)
  BY DEF Current
<1>2. (pc'[s] \in AfterSharp /\ work'[s].cover # "none")
        => Have(s, Quote(Current(s), SharpMarket, Sharp))'
  BY <1>1 DEF Remembers, Have
<1>3. pc'[s] \in AfterLocal => \A i \in DOMAIN work'[s].local :
         Have(s, Quote(Current(s), work[s].local[i], Local))'
  BY <1>1 DEF Remembers, Have
<1>4. pc'[s] \in AfterInjuries => \A p \in work'[s].history : Have(s, Stats(p))'
  BY DEF Remembers, Have
<1>5. QED
  BY <1>1, <1>2, <1>3, <1>4 DEF Remembers, Have

(* Where nothing is remembered and nothing is priced. *)
LEMMA Elsewhere ==
  ASSUME NEW s, pc'[s] \notin AfterSharp
  PROVE  Remembers(s)' /\ Prices(s)'
BY DEF Remembers, Prices, AfterSharp, AfterLocal, AfterInjuries

(* A session that takes no step. *)
LEMMA BystanderTraces ==
  ASSUME NEW t, Traces(t), mode' = mode, pc'[t] = pc[t], work'[t] = work[t],
         ledger'[t] = ledger[t], writes'[t] = writes[t]
  PROVE  Traces(t)'
<1>1. \A entry, row : Required(entry, row)' <=> Required(entry, row)
  BY DEF Required
<1>2. Rowset(t)' = Rowset(t) /\ Pending(t)' = Pending(t) /\ Current(t)' = Current(t)
  BY DEF Rowset, Pending, Current
<1>3. \A i : Before(t, i)' = Before(t, i)
  BY DEF Before
<1>4. LedgerFollows(t)' /\ PendingFollows(t)'
  BY <1>1, <1>2, <1>3 DEF Traces, LedgerFollows, PendingFollows
<1>5. Remembers(t)'
  BY <1>2 DEF Traces, Remembers, Have
<1>6. Prices(t)'
  BY <1>2 DEF Traces, Prices, Priced
<1>7. QED
  BY <1>4, <1>5, <1>6 DEF Traces

(* What is had stays had while nothing is written.                           *)
LEMMA QuietKeeps ==
  ASSUME NEW s, UNCHANGED uowVars
  PROVE  \A row : Have(s, row) => Have(s, row)'
BY DEF uowVars, Have, Rowset, Pending

(* Steps that issue nothing, before any detection. *)
LEMMA QuietIngestTraces ==
  ASSUME Inv, NEW s \in Sessions, Traces(s),
         \/ \E played \in BOOLEAN : GetForms(s, played)
         \/ \E offers \in PropAnswers : GetPlayerProps(s, offers)
         \/ \E lineup \in Lineups : GetLineup(s, lineup)
  PROVE  Traces(s)'
<1>1. UNCHANGED uowVars /\ mode' = mode
  BY DEF GetForms, GetPlayerProps, GetLineup
<1> DEFINE w == work'[s]
<1>2. PICK p \in {"local", "lineup", "injuries"} :
        /\ pc' = [pc EXCEPT ![s] = p] /\ work' = [work EXCEPT ![s] = w]
        /\ w.slate = work[s].slate /\ w.cover = work[s].cover /\ w.local = work[s].local
        /\ w.history = work[s].history
        /\ \/ pc[s] = "forms" /\ p = "local"
           \/ pc[s] = "props" /\ p = "lineup"
           \/ pc[s] = "lineup" /\ p = "injuries"
  <2>1. work \in [Sessions -> Work] /\ work[s] \in Work
    BY DEF Inv, RunInv, RunTypeOK
  <2>2. CASE \E played \in BOOLEAN : GetForms(s, played)
    <3>1. PICK played \in BOOLEAN : GetForms(s, played)
      BY <2>2
    <3>2. w = [work[s] EXCEPT !.played = played] /\ work' = [work EXCEPT ![s] = w]
      BY <2>1, <3>1 DEF GetForms
    <3>3. QED
      BY <2>1, <3>1, <3>2 DEF GetForms, At, Goto, Work
  <2>3. CASE \E offers \in PropAnswers : GetPlayerProps(s, offers)
    <3>1. PICK offers \in PropAnswers : GetPlayerProps(s, offers)
      BY <2>3
    <3>2. w = [work[s] EXCEPT !.props = offers] /\ work' = [work EXCEPT ![s] = w]
      BY <2>1, <3>1 DEF GetPlayerProps
    <3>3. QED
      BY <2>1, <3>1, <3>2 DEF GetPlayerProps, At, Goto, Work
  <2>4. CASE \E lineup \in Lineups : GetLineup(s, lineup)
    <3>1. PICK lineup \in Lineups : GetLineup(s, lineup)
      BY <2>4
    <3>2. w = [work[s] EXCEPT !.lineup = lineup] /\ work' = [work EXCEPT ![s] = w]
      BY <2>1, <3>1 DEF GetLineup
    <3>3. QED
      BY <2>1, <3>1, <3>2 DEF GetLineup, At, Goto, Work
  <2>5. QED
    BY <2>2, <2>3, <2>4
<1>3. work'[s] = w /\ pc'[s] = p
  BY <1>2 DEF Inv, RunInv, RunTypeOK
<1>4. Remembers(s)'
  BY <1>1, <1>2, <1>3, QuietKeeps, KeepsMemory
     DEF Traces, AfterSharp, AfterLocal, AfterInjuries
<1>5. Prices(s)'
  BY <1>2, <1>3 DEF Prices
<1>6. QED
  BY <1>1, <1>4, <1>5, QuietFollows DEF Traces

(* The sharp quotes: from here on, the market they cover is confirmed.       *)
LEMMA GetSharpOddsTraces ==
  ASSUME Inv, NEW s \in Sessions, Traces(s), NEW answer \in SharpAnswers, GetSharpOdds(s, answer)
  PROVE  Traces(s)'
<1> DEFINE quote == Quote(Current(s), SharpMarket, Sharp)
           batch == IF answer.cover = "none" THEN <<>>
                    ELSE <<Upsert(Current(s), answer.kickoff), Upsert(Sharp, Registered),
                           Insert(quote)>>
<1>1. pc[s] = "sharp" /\ pc[s] \in MatchSteps /\ mode' = mode /\ Issue(s, batch)
  BY DEF GetSharpOdds, At, MatchSteps
<1>2. work[s] \in Work /\ Current(s) \in Matches
  BY <1>1, AtAction
<1>3. batch \in Seq(Requests)
  BY <1>2, Keys, EntriesOfRun, Wellformed, AnswersAssumption
<1>4. \A i \in DOMAIN batch : \A e : batch[i] = Insert(e) => e = quote
  BY UpsertIsNoInsert, InsertIsOne
<1>5. \A row : ~Required(quote, row)
  BY OnlyBets
<1>6. /\ LedgerFollows(s)' /\ PendingFollows(s)' /\ (\A row : Have(s, row) => Have(s, row)')
      /\ \A i \in DOMAIN batch : \A e : batch[i] = Insert(e) => Have(s, e)'
  <2> HIDE DEF batch, quote
  <2> QED BY <1>1, <1>3, <1>4, <1>5, IssueFollows DEF Traces
<1>7. /\ pc'[s] = "forms" /\ work'[s].slate = work[s].slate
      /\ work'[s].cover = answer.cover
  BY <1>2 DEF GetSharpOdds, Goto, Inv, RunInv, RunTypeOK, Work
<1>8. answer.cover # "none" => Have(s, quote)'
  <2>1. SUFFICES ASSUME answer.cover # "none" PROVE Have(s, quote)'
    OBVIOUS
  <2>2. 3 \in DOMAIN batch /\ batch[3] = Insert(quote)
    BY <2>1
  <2>3. \A e : e = quote => Have(s, e)'
    BY <1>6, <2>2
  <2>4. Current(s)' = Current(s)
    BY <1>7 DEF Current
  <2>5. QED
    BY <2>3, <2>4 DEF Have
<1>9. Remembers(s)' /\ Prices(s)'
  BY <1>7, <1>8 DEF Remembers, Prices, AfterLocal, AfterInjuries, Have
<1>10. QED
  BY <1>6, <1>9 DEF Traces

(* The local quotes: all of them are on their way to the ledger.             *)
LEMMA GetLocalOddsTraces ==
  ASSUME Inv, NEW s \in Sessions, Traces(s), NEW quoted \in LocalAnswers, GetLocalOdds(s, quoted)
  PROVE  Traces(s)'
<1> DEFINE entries == [i \in 1..Len(quoted) |-> Quote(Current(s), quoted[i], Local)]
           batch == Saving(s, entries)
<1>1. pc[s] = "local" /\ pc[s] \in MatchSteps /\ mode' = mode /\ Issue(s, batch)
  BY DEF GetLocalOdds, At, MatchSteps
<1>2. work[s] \in Work /\ work[s].slate # <<>> /\ Current(s) \in Matches
  BY <1>1, AtAction
<1>3. quoted \in Seq(Markets) /\ Len(quoted) \in Nat /\ DOMAIN quoted = 1..Len(quoted)
  BY AnswersAssumption
<1>4. entries \in Seq(Entries) /\ DOMAIN entries = DOMAIN quoted
  BY <1>2, <1>3, EntriesOfRun
<1>5. batch \in Seq(Requests)
  BY <1>2, <1>4, SavingIssues
<1>6. \A j \in DOMAIN entries : \A row : ~Required(entries[j], row)
  BY <1>3, <1>4, OnlyBets
<1>7. /\ \A i \in DOMAIN batch : \A e : batch[i] = Insert(e) => \E j \in DOMAIN entries : e = entries[j]
      /\ \A j \in DOMAIN entries : \E i \in DOMAIN batch : batch[i] = Insert(entries[j])
  <2> HIDE DEF entries
  <2>1. InsertsOnly(batch, entries) /\ InsertsAll(batch, entries)
    BY <1>4, SavingInserts
  <2> HIDE DEF batch
  <2> QED BY <2>1 DEF InsertsOnly, InsertsAll
<1>8. /\ LedgerFollows(s)' /\ PendingFollows(s)' /\ (\A row : Have(s, row) => Have(s, row)')
      /\ \A i \in DOMAIN batch : \A e : batch[i] = Insert(e) => Have(s, e)'
  <2> HIDE DEF batch, entries
  <2> QED BY <1>1, <1>5, <1>6, <1>7, IssueFollows DEF Traces
<1>9. /\ pc'[s] = "props" /\ work'[s].slate = work[s].slate
      /\ work'[s].cover = work[s].cover /\ work'[s].local = quoted
      /\ work'[s].history = work[s].history
  BY <1>2 DEF GetLocalOdds, Goto, Inv, RunInv, RunTypeOK, Work
<1>10. \A j \in DOMAIN quoted : \A e : e = entries[j] => Have(s, e)'
  <2> HIDE DEF batch, entries
  <2> QED BY <1>4, <1>7, <1>8
<1>11. Current(s)' = Current(s)
  BY <1>9 DEF Current
<1>12. \A j \in DOMAIN quoted : Have(s, Quote(Current(s), quoted[j], Local))'
  BY <1>3, <1>10, <1>11 DEF Have
<1>13. (work[s].cover # "none") => Have(s, Quote(Current(s), SharpMarket, Sharp))'
  BY <1>1, <1>8, <1>11 DEF Traces, Remembers, AfterSharp, Have
<1>14. Remembers(s)' /\ Prices(s)'
  BY <1>9, <1>11, <1>12, <1>13 DEF Remembers, Prices, AfterInjuries, Have
<1>15. QED
  BY <1>8, <1>14 DEF Traces

(* The players' phase starts with no history. *)
LEMMA GetInjuriesTraces ==
  ASSUME Inv, NEW s \in Sessions, Traces(s), NEW injured \in Injuries, GetInjuries(s, injured)
  PROVE  Traces(s)'
<1>1. pc[s] = "injuries" /\ UNCHANGED uowVars /\ mode' = mode
  BY DEF GetInjuries, At
<1>2. /\ pc'[s] = "players" /\ work'[s].slate = work[s].slate
      /\ work'[s].cover = work[s].cover /\ work'[s].local = work[s].local
      /\ work'[s].history = {}
  BY DEF GetInjuries, Goto, Inv, RunInv, RunTypeOK, Work
<1>3. Current(s)' = Current(s) /\ \A row : Have(s, row) => Have(s, row)'
  BY <1>1, <1>2, QuietKeeps DEF Current
<1>4. Remembers(s)'
  BY <1>1, <1>2, <1>3 DEF Traces, Remembers, AfterSharp, AfterLocal, AfterInjuries, Have
<1>5. Prices(s)'
  BY <1>2 DEF Prices
<1>6. QED
  BY <1>1, <1>4, <1>5, QuietFollows DEF Traces

(* Saving the player inserts nothing that anything rests on. *)
LEMMA SavePlayerTraces ==
  ASSUME Inv, NEW s \in Sessions, Traces(s), NEW p \in Players, SavePlayer(s, p)
  PROVE  Traces(s)'
<1> DEFINE batch == <<Upsert(p, Club[p])>>
<1>1. pc[s] = "players" /\ pc[s] \in MatchSteps /\ mode' = mode /\ Issue(s, batch)
  BY DEF SavePlayer, At, MatchSteps
<1>2. batch \in Seq(Requests)
  BY Keys, Wellformed, AnswersAssumption
<1>3. \A i \in DOMAIN batch : \A e : batch[i] # Insert(e)
  BY UpsertIsNoInsert
<1>4. LedgerFollows(s)' /\ PendingFollows(s)' /\ \A row : Have(s, row) => Have(s, row)'
  <2> HIDE DEF batch
  <2> QED BY <1>1, <1>2, <1>3, IssueFollows DEF Traces
<1>5. /\ pc'[s] = "recent" /\ work'[s].slate = work[s].slate
      /\ work'[s].cover = work[s].cover /\ work'[s].local = work[s].local
      /\ work'[s].history = work[s].history
  BY DEF SavePlayer, Goto, Inv, RunInv, RunTypeOK, Work
<1>6. Remembers(s)'
  BY <1>1, <1>4, <1>5, KeepsMemory DEF Traces, AfterSharp, AfterLocal, AfterInjuries
<1>7. Prices(s)'
  BY <1>5 DEF Prices
<1>8. QED
  BY <1>4, <1>6, <1>7 DEF Traces

(* A player enters the history with the statement that inserts the stats.    *)
LEMMA GetRecentTraces ==
  ASSUME Inv, NEW s \in Sessions, Traces(s), NEW club \in RecentAnswers, GetRecent(s, club)
  PROVE  Traces(s)'
<1> DEFINE p == work[s].player
           batch == IF club = NoRow THEN <<>>
                    ELSE <<Upsert(Past, Played), Upsert(p, club), Insert(Stats(p))>>
<1>1. pc[s] = "recent" /\ pc[s] \in MatchSteps /\ mode' = mode /\ Issue(s, batch)
  BY DEF GetRecent, At, MatchSteps
<1>2. p \in Players /\ work[s] \in Work
  BY <1>1, AtAction DEF Inv, RunInv, AtAMatch
<1>3. batch \in Seq(Requests)
  BY <1>2, Keys, EntriesOfRun, Wellformed, AnswersAssumption
<1>4. \A i \in DOMAIN batch : \A e : batch[i] = Insert(e) => e = Stats(p)
  BY UpsertIsNoInsert, InsertIsOne
<1>5. \A row : ~Required(Stats(p), row)
  BY OnlyBets
<1>6. /\ LedgerFollows(s)' /\ PendingFollows(s)' /\ (\A row : Have(s, row) => Have(s, row)')
      /\ \A i \in DOMAIN batch : \A e : batch[i] = Insert(e) => Have(s, e)'
  <2> HIDE DEF batch, p
  <2> QED BY <1>1, <1>3, <1>4, <1>5, IssueFollows DEF Traces
<1>7. /\ pc'[s] = "players" /\ work'[s].slate = work[s].slate
      /\ work'[s].cover = work[s].cover /\ work'[s].local = work[s].local
      /\ work'[s].history = IF club = NoRow THEN work[s].history ELSE work[s].history \union {p}
  BY <1>2 DEF GetRecent, Goto, Inv, RunInv, RunTypeOK, Work
<1>8. club # NoRow => \A e : e = Stats(p) => Have(s, e)'
  <2>1. SUFFICES ASSUME club # NoRow PROVE \A e : e = Stats(p) => Have(s, e)'
    OBVIOUS
  <2>2. 3 \in DOMAIN batch /\ batch[3] = Insert(Stats(p))
    BY <2>1
  <2>3. QED
    BY <1>6, <2>2
<1>9. \A q \in work'[s].history : \A e : e = Stats(q) => Have(s, e)'
  BY <1>1, <1>6, <1>7, <1>8 DEF Traces, Remembers, AfterInjuries
<1>10. Current(s)' = Current(s)
  BY <1>7 DEF Current
<1>11. Remembers(s)'
  BY <1>1, <1>6, <1>7, <1>9, <1>10 DEF Traces, Remembers, AfterSharp, AfterLocal, AfterInjuries, Have
<1>12. Prices(s)'
  BY <1>7 DEF Prices
<1>13. QED
  BY <1>6, <1>11, <1>12 DEF Traces

(* Detection starts from the groups of the local quotes, with no bets.       *)
LEMMA PlayersDoneTraces ==
  ASSUME Inv, NEW s \in Sessions, Traces(s), PlayersDone(s)
  PROVE  Traces(s)'
<1>1. pc[s] = "players" /\ UNCHANGED uowVars /\ mode' = mode
  BY DEF PlayersDone, At
<1>2. /\ pc'[s] = "detect" /\ work'[s].slate = work[s].slate
      /\ work'[s].cover = work[s].cover /\ work'[s].local = work[s].local
      /\ work'[s].history = work[s].history
      /\ work'[s].groups = work[s].local /\ work'[s].detected = <<>>
  BY DEF PlayersDone, Goto, Inv, RunInv, RunTypeOK, Work
<1>3. Remembers(s)'
  BY <1>1, <1>2, QuietKeeps, KeepsMemory DEF Traces, AfterSharp, AfterLocal, AfterInjuries
<1>4. Prices(s)'
  BY <1>2 DEF Prices
<1>5. QED
  BY <1>1, <1>3, <1>4, QuietFollows DEF Traces

(* One group priced, or passed over.                                         *)
LEMMA NextGroupTraces ==
  ASSUME Inv, NEW s \in Sessions, Traces(s), At(s, "detect"), work[s].groups # <<>>,
         NEW bets \in Seq(Bets), NextGroup(s, bets),
         \A i \in DOMAIN bets : bets[i] = MatchBet(Current(s), Group(s)),
         bets # <<>> /\ mode = "CONFIRMATION" => Group(s) = SharpMarket /\ work[s].cover # "none"
  PROVE  Traces(s)'
<1>1. pc[s] = "detect" /\ pc[s] \in MatchSteps /\ UNCHANGED uowVars /\ mode' = mode /\ pc' = pc
  BY DEF NextGroup, At, MatchSteps
<1>2. work[s] \in Work
  BY <1>1, AtAction
<1>3. work[s].groups \in Seq(Markets) /\ work[s].detected \in Seq(Bets)
  BY <1>2 DEF Work
<1>4. /\ work'[s].slate = work[s].slate /\ work'[s].cover = work[s].cover
      /\ work'[s].local = work[s].local /\ work'[s].history = work[s].history
      /\ work'[s].groups = Tail(work[s].groups)
      /\ work'[s].detected = work[s].detected \o bets
  BY <1>2 DEF NextGroup, Inv, RunInv, RunTypeOK, Work
<1>5. Remembers(s)'
  BY <1>1, <1>4, QuietKeeps, KeepsMemory DEF Traces
<1>6. Current(s)' = Current(s) /\ 1 \in DOMAIN work[s].groups /\ Group(s) = work[s].groups[1]
  BY <1>3, <1>4 DEF Current, Group
<1>7. \A bet : Priced(s, bet) => Priced(s, bet)'
  BY <1>1, <1>4, <1>6 DEF Priced
<1>8. \A i \in DOMAIN bets : Priced(s, bets[i])
  BY <1>1, <1>6 DEF Traces, Prices, Priced
<1>9. \A i \in DOMAIN work'[s].detected : Priced(s, work'[s].detected[i])
  <2>1. SUFFICES ASSUME NEW i \in DOMAIN (work[s].detected \o bets)
                 PROVE  Priced(s, (work[s].detected \o bets)[i])
    BY <1>4
  <2>2. \/ i \in DOMAIN work[s].detected /\ (work[s].detected \o bets)[i] = work[s].detected[i]
        \/ \E j \in DOMAIN bets : (work[s].detected \o bets)[i] = bets[j]
    <3>1. CASE i <= Len(work[s].detected)
      BY <1>3, <2>1, <3>1
    <3>2. CASE i > Len(work[s].detected)
      <4>1. /\ i - Len(work[s].detected) \in DOMAIN bets
            /\ (work[s].detected \o bets)[i] = bets[i - Len(work[s].detected)]
        BY <1>3, <2>1, <3>2
      <4>2. QED
        BY <4>1
    <3>3. QED
      BY <1>3, <2>1, <3>1, <3>2
  <2>3. QED
    BY <1>1, <1>8, <2>2 DEF Traces, Prices
<1>10. \A i \in DOMAIN work'[s].groups : \E j \in DOMAIN work[s].local :
          work'[s].groups[i] = work[s].local[j]
  <2>1. \A i \in DOMAIN work'[s].groups :
          i + 1 \in DOMAIN work[s].groups /\ work'[s].groups[i] = work[s].groups[i + 1]
    BY <1>3, <1>4
  <2>2. QED
    BY <1>1, <2>1 DEF Traces, Prices
<1>11. Prices(s)'
  <2>1. ASSUME NEW i \in DOMAIN work'[s].detected
        PROVE  \E j \in DOMAIN work[s].local :
                 /\ work'[s].detected[i] = MatchBet(Current(s), work[s].local[j])
                 /\ mode = "CONFIRMATION" => work[s].local[j] = SharpMarket /\ work[s].cover # "none"
    BY <1>9 DEF Priced
  <2>2. \A i \in DOMAIN work'[s].detected : \E j \in DOMAIN work'[s].local :
           /\ work'[s].detected[i] = MatchBet(Current(s)', work'[s].local[j])
           /\ mode' = "CONFIRMATION" => work'[s].local[j] = SharpMarket /\ work'[s].cover # "none"
    BY <1>1, <1>4, <1>6, <2>1
  <2>3. \A i \in DOMAIN work'[s].groups : \E j \in DOMAIN work'[s].local :
           work'[s].groups[i] = work'[s].local[j]
    BY <1>4, <1>10
  <2>4. QED
    BY <2>2, <2>3 DEF Prices, Priced
<1>12. QED
  BY <1>1, <1>5, <1>11, QuietFollows DEF Traces

LEMMA GroupTraces ==
  ASSUME Inv, NEW s \in Sessions, Traces(s),
         SkipGroup(s) \/ \E isValue \in BOOLEAN : DetectGroup(s, isValue)
  PROVE  Traces(s)'
<1>1. CASE SkipGroup(s)
  <2>1. <<>> \in Seq(Bets) /\ DOMAIN <<>> = {}
    OBVIOUS
  <2>2. At(s, "detect") /\ work[s].groups # <<>> /\ NextGroup(s, <<>>)
    BY <1>1 DEF SkipGroup
  <2>3. QED
    BY <2>1, <2>2, NextGroupTraces
<1>2. ASSUME NEW isValue \in BOOLEAN, DetectGroup(s, isValue) PROVE Traces(s)'
  <2> DEFINE bets == IF isValue THEN <<MatchBet(Current(s), Group(s))>> ELSE <<>>
  <2>1. /\ At(s, "detect") /\ work[s].groups # <<>> /\ NextGroup(s, bets)
        /\ ~Skipped(s, Group(s)) /\ pc[s] \in MatchSteps
    BY <1>2 DEF DetectGroup, At, MatchSteps
  <2>2. work[s].groups \in Seq(Markets) /\ Current(s) \in Matches
    BY <2>1, AtAction DEF Work
  <2>3. bets \in Seq(Bets)
    BY <2>1, <2>2, EntriesOfRun DEF Group
  <2>4. \A i \in DOMAIN bets : bets[i] = MatchBet(Current(s), Group(s))
    OBVIOUS
  <2>5. mode = "CONFIRMATION" => Group(s) = SharpMarket /\ work[s].cover # "none"
    BY <2>1 DEF Skipped
  <2>6. QED
    <3> HIDE DEF bets
    <3> QED BY <2>1, <2>3, <2>4, <2>5, NextGroupTraces
<1>3. QED
  BY <1>1, <1>2

(* The match bets: each has been priced from quotes the ledger holds by now. *)
LEMMA SaveMatchBetsTraces ==
  ASSUME Inv, NEW s \in Sessions, Traces(s), SaveMatchBets(s)
  PROVE  Traces(s)'
<1> DEFINE batch == Saving(s, work[s].detected)
<1>1. pc[s] = "detect" /\ pc[s] \in MatchSteps /\ mode' = mode /\ Issue(s, batch)
      /\ pc' = [pc EXCEPT ![s] = "price"] /\ work' = work /\ writes[s] = <<>>
  BY DEF SaveMatchBets, At, Goto, MatchSteps
<1>2. work[s] \in Work /\ work[s].slate # <<>> /\ Current(s) \in Matches
  BY <1>1, AtAction
<1>3. work[s].detected \in Seq(Entries) /\ work[s].local \in Seq(Markets)
  BY <1>2, EntriesOfRun DEF Work
<1>4. batch \in Seq(Requests)
  BY <1>2, <1>3, SavingIssues
<1>5. \A i \in DOMAIN batch : \A e : batch[i] = Insert(e) =>
         \E j \in DOMAIN work[s].detected : e = work[s].detected[j]
  BY <1>3, SavingInserts DEF InsertsOnly
<1>6. \A row : Have(s, row) => row \in Rowset(s)
  BY <1>1 DEF Have, Pending
<1>7. \A e, row : Priced(s, e) /\ Required(e, row) => row \in Rowset(s)
  <2>1. SUFFICES ASSUME NEW e, NEW row, Priced(s, e), Required(e, row) PROVE row \in Rowset(s)
    OBVIOUS
  <2>2. PICK i \in DOMAIN work[s].local :
          /\ e = MatchBet(Current(s), work[s].local[i])
          /\ mode = "CONFIRMATION" => work[s].local[i] = SharpMarket /\ work[s].cover # "none"
    BY <2>1 DEF Priced
  <2>3. PICK m \in Matches, k \in Markets :
          /\ e = MatchBet(m, k)
          /\ row = Quote(m, k, Local) \/ (mode = "CONFIRMATION" /\ row = Quote(m, k, Sharp))
    BY <2>1, <2>2 DEF Required, MatchBet, PropBet
  <2>4. m = Current(s) /\ k = work[s].local[i]
    BY <2>2, <2>3 DEF MatchBet
  <2>5. Have(s, Quote(m, k, Local))
    BY <1>1, <2>4 DEF Traces, Remembers, AfterLocal, AfterSharp
  <2>6. mode = "CONFIRMATION" => Have(s, Quote(m, k, Sharp))
    BY <1>1, <2>2, <2>4 DEF Traces, Remembers, AfterSharp
  <2>7. QED
    BY <1>6, <2>3, <2>5, <2>6
<1>8. \A i \in DOMAIN batch : \A e, row :
         batch[i] = Insert(e) /\ Required(e, row) => row \in Rowset(s)
  BY <1>1, <1>5, <1>7 DEF Traces, Prices
<1>9. LedgerFollows(s)' /\ PendingFollows(s)' /\ \A row : Have(s, row) => Have(s, row)'
  <2> HIDE DEF batch
  <2> QED BY <1>1, <1>4, <1>8, IssueFollows DEF Traces
<1>10. pc'[s] = "price"
  BY <1>1 DEF Inv, RunInv, RunTypeOK
<1>11. Remembers(s)'
  BY <1>1, <1>9, <1>10, KeepsMemory DEF Traces, AfterSharp, AfterLocal, AfterInjuries
<1>12. Prices(s)'
  BY <1>10 DEF Prices
<1>13. QED
  BY <1>9, <1>11, <1>12 DEF Traces

(* Props: passed over, or priced from stats the ledger holds by now.         *)
LEMMA PropTraces ==
  ASSUME Inv, NEW s \in Sessions, Traces(s),
         SkipProp(s) \/ \E isValue \in BOOLEAN : PriceProp(s, isValue)
  PROVE  Traces(s)'
<1>1. /\ PropLeft(s) /\ NextProp(s) /\ pc' = pc /\ mode' = mode
      /\ pc[s] = "price" /\ pc[s] \in MatchSteps /\ writes[s] = <<>>
  BY DEF SkipProp, PriceProp, PropLeft, At, MatchSteps
<1>2. work[s] \in Work /\ work[s].slate # <<>> /\ Current(s) \in Matches /\ Prop(s) \in Props
  BY <1>1, AtAction, PropTail
<1>3. /\ work'[s].slate = work[s].slate /\ work'[s].cover = work[s].cover
      /\ work'[s].local = work[s].local /\ work'[s].history = work[s].history
  BY <1>1, <1>2 DEF NextProp, Inv, RunInv, RunTypeOK, Work
<1>4. Prices(s)'
  BY <1>1 DEF Prices
<1>5. CASE SkipProp(s)
  <2>1. UNCHANGED uowVars
    BY <1>5 DEF SkipProp
  <2>2. Remembers(s)'
    BY <1>1, <1>3, <2>1, QuietKeeps, KeepsMemory DEF Traces
  <2>3. QED
    BY <1>1, <1>4, <2>1, <2>2, QuietFollows DEF Traces
<1>6. ASSUME NEW isValue \in BOOLEAN, PriceProp(s, isValue) PROVE Traces(s)'
  <2> DEFINE bet == PropBet(Current(s), Prop(s).player)
             bets == IF isValue THEN <<bet>> ELSE <<>>
             batch == Saving(s, bets)
  <2>1. Issue(s, batch) /\ Prop(s).player \in work[s].history
    BY <1>6 DEF PriceProp, PropRaises
  <2>2. bet \in Bets /\ bets \in Seq(Entries)
    BY <1>2, EntriesOfRun DEF Props
  <2>3. batch \in Seq(Requests)
    BY <1>2, <2>2, SavingIssues
  <2>4. \A i \in DOMAIN batch : \A e : batch[i] = Insert(e) => \E j \in DOMAIN bets : e = bets[j]
    <3> HIDE DEF bets
    <3> QED BY <2>2, SavingInserts DEF InsertsOnly
  <2>5. \A j \in DOMAIN bets : bets[j] = bet
    OBVIOUS
  <2>6. \A row : Required(bet, row) => row = Stats(Prop(s).player)
    BY DEF Required, MatchBet, PropBet
  <2>7. Have(s, Stats(Prop(s).player))
    BY <1>1, <2>1 DEF Traces, Remembers, AfterInjuries
  <2>8. Stats(Prop(s).player) \in Rowset(s)
    BY <1>1, <2>7 DEF Have, Pending
  <2>9. \A i \in DOMAIN batch : \A e, row :
          batch[i] = Insert(e) /\ Required(e, row) => row \in Rowset(s)
    <3> HIDE DEF batch, bets, bet
    <3> QED BY <2>4, <2>5, <2>6, <2>8
  <2>10. LedgerFollows(s)' /\ PendingFollows(s)' /\ \A row : Have(s, row) => Have(s, row)'
    <3> HIDE DEF batch
    <3> QED BY <1>1, <2>1, <2>3, <2>9, IssueFollows DEF Traces
  <2>11. Remembers(s)'
    BY <1>1, <1>3, <2>10, KeepsMemory DEF Traces
  <2>12. QED
    BY <1>4, <2>10, <2>11 DEF Traces
<1>7. QED
  BY <1>5, <1>6

(* Steps after which the coroutine remembers nothing of the match.           *)
LEMMA ElsewhereTraces ==
  ASSUME Inv, NEW s \in Sessions, Traces(s), mode' = mode, pc'[s] \notin AfterSharp,
         UNCHANGED uowVars \/ Open(s) \/ Refuse(s) \/ Close(s)
  PROVE  Traces(s)'
BY Elsewhere, QuietFollows DEF Traces

LEMMA RegisterTraces ==
  ASSUME Inv, NEW s \in Sessions, Traces(s), Register(s)
  PROVE  Traces(s)'
<1> DEFINE batch == <<Upsert(Current(s), Snapshot(s))>>
<1>1. Issue(s, batch) /\ mode' = mode /\ pc' = [pc EXCEPT ![s] = "sharp"] /\ work[s].slate # <<>>
  BY DEF Register, Goto
<1>2. batch \in Seq(Requests)
  BY <1>1, CurrentKnown, Keys, Wellformed
<1>3. \A i \in DOMAIN batch : \A e : batch[i] # Insert(e)
  BY UpsertIsNoInsert
<1>4. LedgerFollows(s)' /\ PendingFollows(s)'
  <2> HIDE DEF batch
  <2> QED BY <1>1, <1>2, <1>3, IssueFollows DEF Traces
<1>5. pc'[s] = "sharp"
  BY <1>1 DEF Inv, RunInv, RunTypeOK
<1>6. QED
  BY <1>4, <1>5, Elsewhere DEF Traces, AfterSharp

LEMMA SettleTraces ==
  ASSUME Inv, NEW s \in Sessions, Traces(s), NEW bet \in Bets, Settle(s, bet)
  PROVE  Traces(s)'
<1> DEFINE batch == <<Insert(Settled(bet))>>
<1>1. Issue(s, batch) /\ mode' = mode /\ pc' = [pc EXCEPT ![s] = "settled"]
  BY DEF Settle, Goto
<1>2. batch \in Seq(Requests)
  BY EntriesOfRun, Wellformed
<1>3. \A i \in DOMAIN batch : \A e, row : batch[i] = Insert(e) => ~Required(e, row)
  BY InsertIsOne, OnlyBets
<1>4. LedgerFollows(s)' /\ PendingFollows(s)'
  <2> HIDE DEF batch
  <2> QED BY <1>1, <1>2, <1>3, IssueFollows DEF Traces
<1>5. pc'[s] = "settled"
  BY <1>1 DEF Inv, RunInv, RunTypeOK
<1>6. QED
  BY <1>4, <1>5, Elsewhere DEF Traces, AfterSharp

LEMMA StatementTraces ==
  ASSUME Inv, NEW s \in Sessions, Traces(s), GetNext(s) \/ FlushNext(s)
  PROVE  Traces(s)'
<1>1. (Get(s) \/ Flush(s)) /\ mode' = mode /\ work' = work /\ pc' = pc
  BY FlushGoesOn DEF GetNext, runVars
<1>2. LedgerFollows(s)' /\ PendingFollows(s)'
  BY <1>1, StatementFollows DEF Traces
<1>3. Remembers(s)'
  BY <1>1, FlushMoves, GetMoves, KeepsMemory DEF Traces
<1>4. Prices(s)'
  BY <1>1 DEF Traces, Prices, Priced, Current
<1>5. QED
  BY <1>2, <1>3, <1>4 DEF Traces

(* Beginnings and ends.                                                      *)
LEMMA EndsTrace ==
  ASSUME Inv, NEW s \in Sessions, Traces(s),
         \/ Start(s) \/ BeginSettle(s) \/ MatchDone(s) \/ End(s) \/ DatabaseError(s)
         \/ ListUpcoming(s) \/ (\E m \in Matches : GetMatch(s, m) \/ MatchNotFound(s, m))
         \/ (\E bet \in Bets : BetNotFound(s, bet)) \/ SettleDone(s)
         \/ (\E error \in Errors : ProviderError(s, error))
         \/ DetectionError(s) \/ PropError(s) \/ RunDone(s)
  PROVE  Traces(s)'
<1>1. /\ mode' = mode
      /\ UNCHANGED uowVars \/ Open(s) \/ Refuse(s) \/ Close(s)
  BY DEF Start, Begin, BeginSettle, MatchDone, End, DatabaseError, ListUpcoming, GetMatch,
     MatchNotFound, StartWork, BetNotFound, SettleDone, ProviderError, DetectionError,
     PropError, RunDone
<1>2. PICK p \in {"browser", "settle", "register", "idle", "answered"} : pc' = [pc EXCEPT ![s] = p]
  BY DEF Start, Begin, BeginSettle, MatchDone, End, DatabaseError, ListUpcoming, GetMatch,
     MatchNotFound, StartWork, BetNotFound, SettleDone, ProviderError, DetectionError,
     PropError, RunDone, Answer, Goto
<1>3. pc'[s] \notin AfterSharp
  BY <1>2 DEF AfterSharp, Inv, RunInv, RunTypeOK
<1>4. QED
  BY <1>1, <1>3, ElsewhereTraces

(* A step of one session leaves the others' coroutines and sessions alone.   *)
LEMMA StepIsLocal ==
  ASSUME Inv, NEW s \in Sessions, Start(s) \/ BeginSettle(s) \/ SettleStep(s) \/ RunStep(s)
  PROVE  /\ mode' = mode /\ stored' = stored
         /\ \A t \in Sessions \ {s} :
              /\ kind'[t] = kind[t] /\ pc'[t] = pc[t] /\ work'[t] = work[t]
              /\ matchBets'[t] = matchBets[t] /\ propBets'[t] = propBets[t]
              /\ reply'[t] = reply[t] /\ phase'[t] = phase[t] /\ own'[t] = own[t]
              /\ ledger'[t] = ledger[t] /\ writes'[t] = writes[t]
<1>1. /\ mode' = mode
      /\ \A t \in Sessions \ {s} :
           /\ kind'[t] = kind[t] /\ pc'[t] = pc[t] /\ work'[t] = work[t]
           /\ matchBets'[t] = matchBets[t] /\ propBets'[t] = propBets[t] /\ reply'[t] = reply[t]
  <2>1. /\ pc \in [Sessions -> Steps] /\ work \in [Sessions -> Work]
        /\ kind \in [Sessions -> {"none", "tick", "run", "query", "settle"}]
        /\ matchBets \in [Sessions -> Seq(Bets)] /\ propBets \in [Sessions -> Seq(Bets)]
        /\ reply \in [Sessions -> Replies]
    BY DEF Inv, RunInv, RunTypeOK
  <2>2. CASE Start(s) \/ BeginSettle(s) \/ SettleStep(s) \/ GetNext(s) \/ FlushNext(s)
    BY <2>1, <2>2, FlushGoesOn
       DEF Start, Begin, BeginSettle, SettleStep, Settle, BetNotFound, SettleDone,
       GetNext, runVars, Answer, Goto
  <2>3. CASE Ingest(s)
    BY <2>1, <2>3 DEF Ingest, ListUpcoming, GetMatch, MatchNotFound, Register, GetSharpOdds,
       GetForms, GetLocalOdds, GetPlayerProps, GetLineup, GetInjuries, SavePlayer, GetRecent,
       PlayersDone, StartWork, Answer, Goto
  <2>4. CASE Detect(s)
    BY <2>1, <2>4 DEF Detect, SkipGroup, DetectGroup, NextGroup, SaveMatchBets, DetectionError,
       SkipProp, PropError, PriceProp, NextProp, MatchDone, Answer, Goto
  <2>5. CASE Finish(s)
    BY <2>1, <2>5 DEF Finish, RunDone, ProviderError, DatabaseError, End, Answer, Goto
  <2>6. QED
    BY <2>2, <2>3, <2>4, <2>5 DEF RunStep
<1>2. \/ Open(s) \/ Get(s) \/ Flush(s) \/ Refuse(s) \/ Close(s)
      \/ (\E batch \in Seq(Requests) : Issue(s, batch)) \/ UNCHANGED uowVars
  <2>1. CASE Start(s) \/ BeginSettle(s) \/ SettleStep(s) \/ GetNext(s) \/ FlushNext(s)
    BY <2>1, BeginStep, SettleStepHolds, AnswerSteps, StatementStep
       DEF Start, SettleStep, IssueSome
  <2>2. CASE Ingest(s)
    BY <2>2, ListUpcomingStep, GetMatchStep, AnswerSteps, RegisterStep, GetSharpOddsStep,
       GetFormsStep, GetLocalOddsStep, GetPlayerPropsStep, GetLineupStep, GetInjuriesStep,
       SavePlayerStep, GetRecentStep, PlayersDoneStep DEF Ingest, IssueSome
  <2>3. CASE Detect(s)
    BY <2>3, SkipGroupStep, DetectGroupStep, PricePropStep, SaveMatchBetsStep, AnswerSteps,
       SkipPropStep, MatchDoneStep DEF Detect, IssueSome
  <2>4. CASE Finish(s)
    BY <2>4, AnswerSteps, DatabaseErrorStep, EndStep DEF Finish
  <2>5. QED
    BY <2>1, <2>2, <2>3, <2>4 DEF RunStep
<1>3. QED
  BY <1>1, <1>2, LayerStep

LEMMA SessionTraces ==
  ASSUME Inv, NEW s \in Sessions, Traces(s),
         Start(s) \/ BeginSettle(s) \/ SettleStep(s) \/ RunStep(s)
  PROVE  Traces(s)'
<1>1. CASE Start(s) \/ BeginSettle(s) \/ Finish(s)
  BY <1>1, EndsTrace DEF Finish
<1>2. CASE SettleStep(s)
  BY <1>2, SettleTraces, EndsTrace DEF SettleStep
<1>3. CASE Ingest(s)
  BY <1>3, EndsTrace, RegisterTraces, GetSharpOddsTraces, QuietIngestTraces, GetLocalOddsTraces,
     GetInjuriesTraces, SavePlayerTraces, GetRecentTraces, PlayersDoneTraces DEF Ingest
<1>4. CASE Detect(s)
  BY <1>4, EndsTrace, GroupTraces, PropTraces, SaveMatchBetsTraces DEF Detect
<1>5. CASE GetNext(s) \/ FlushNext(s)
  BY <1>5, StatementTraces
<1>6. QED
  BY <1>1, <1>2, <1>3, <1>4, <1>5 DEF RunStep

-----------------------------------------------------------------------------
(* Theorems *)

LEMMA TraceInit == Init => TraceInv
<1> SUFFICES ASSUME Init, NEW s \in Sessions PROVE Traces(s)
  BY DEF TraceInv
<1>1. ledger[s] = <<>> /\ writes[s] = <<>> /\ pc[s] = "idle"
  BY DEF Init, UowInit
<1>2. LedgerFollows(s) /\ PendingFollows(s)
  BY <1>1 DEF LedgerFollows, PendingFollows, Pending
<1>3. Remembers(s) /\ Prices(s)
  BY <1>1 DEF Remembers, Prices, AfterSharp, AfterLocal, AfterInjuries
<1>4. QED
  BY <1>2, <1>3 DEF Traces

LEMMA TraceNext == Inv /\ TraceInv /\ [Next]_vars => TraceInv'
<1> SUFFICES ASSUME Inv, TraceInv, [Next]_vars, NEW t \in Sessions PROVE Traces(t)'
  BY DEF TraceInv
<1>1. Traces(t)
  BY DEF TraceInv
<1>2. CASE UNCHANGED vars
  BY <1>1, <1>2, BystanderTraces DEF vars, runVars, uowVars
<1>3. CASE Next
  <2>1. PICK s \in Sessions : Start(s) \/ BeginSettle(s) \/ SettleStep(s) \/ RunStep(s)
    BY <1>3 DEF Next
  <2>2. CASE t = s
    BY <1>1, <2>1, <2>2, SessionTraces
  <2>3. CASE t # s
    BY <1>1, <2>1, <2>3, StepIsLocal, BystanderTraces
  <2>4. QED
    BY <2>2, <2>3
<1>4. QED
  BY <1>2, <1>3

LEMMA Tracing == Spec => []TraceInv
BY Invariance, TraceInit, TraceNext, PTL DEF Spec

(* No match bet is saved before the local quote it prices, nor, in the mode  *)
(* CONFIRMATION, before the sharp quote of its match that confirms it.       *)
THEOREM BetsRestOnQuotes == Spec => []BetsFollowQuotes
<1>1. TraceInv => BetsFollowQuotes
  BY DEF TraceInv, Traces, LedgerFollows, Required, BetsFollowQuotes
<1>2. QED
  BY <1>1, Tracing, PTL

(* No prop bet is saved before the stats of its player.                      *)
THEOREM PropsRestOnStats == Spec => []PropsFollowStats
<1>1. TraceInv => PropsFollowStats
  BY DEF TraceInv, Traces, LedgerFollows, Required, PropsFollowStats
<1>2. QED
  BY <1>1, Tracing, PTL
=============================================================================
