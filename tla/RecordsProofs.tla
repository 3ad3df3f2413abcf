---------------------------- MODULE RecordsProofs ----------------------------
(***************************************************************************)
(* Proofs about Records, for every set of matches, bookmakers and bets and *)
(* every sequence of runs and settlements.                                 *)
(***************************************************************************)
EXTENDS Records, TLAPS

Rows ==
  [match : MatchIds, market : STRING, outcome : STRING, line : Int,
   odds : Fractions, edge : Fractions, stake : Fractions, source : STRING,
   lineup_confirmed : BOOLEAN \union {NoLineup}, bookmaker : Names \union {NoBook},
   threshold : Fractions]

SettledRows ==
  [bet : Rows, result : {"won", "lost", "push"}, closing : Fractions \union {NoOdds}]

IsLast(i, id) ==
  /\ i \in DOMAIN schedule /\ schedule[i].id = id
  /\ \A j \in DOMAIN schedule : schedule[j].id = id => j <= i

RecordsType ==
  /\ matches \in [MatchIds -> Announcements \union {NoRow}]
  /\ books \in [Names -> Bookmakers \union {NoRow}]
  /\ schedule \in Seq(Announcements)
  /\ saved \in Seq(Bets)
  /\ Len(bets) = Len(saved) /\ bets \in Seq({BetToRow(b) : b \in Bets})
  /\ asked \in Seq(Requests)
  /\ Len(settled) = Len(asked) /\ settled \in Seq(SettledRows)

(* A match in the table is as it was announced last. *)
Current ==
  \A id \in MatchIds : matches[id] # NoRow => \E i \in DOMAIN schedule :
    IsLast(i, id) /\ schedule[i] = matches[id]

(* A bookmaker in the table has its own name. *)
Named == \A n \in Names : books[n] # NoRow => books[n].name = n

(* Every row is that of the bet saved, and what it refers to is there. *)
Filed ==
  \A i \in DOMAIN bets :
    /\ bets[i] = BetToRow(saved[i])
    /\ matches[saved[i].match.id] # NoRow
    /\ saved[i].bookmaker # NoBook => books[saved[i].bookmaker.name] # NoRow

(* A settled row is a row of bets, at the odds asked for, with what was asked. *)
Paired ==
  \A i \in DOMAIN settled : \E j \in DOMAIN bets :
    /\ settled[i] = [bet |-> bets[j], result |-> asked[i].result, closing |-> asked[i].closing]
    /\ bets[j].odds = asked[i].odds

RecordsInv == RecordsType /\ Current /\ Named /\ Filed /\ Paired

-----------------------------------------------------------------------------
(* Rows *)

LEMMA RowIsTyped ==
  ASSUME NEW b \in ValueBets
  PROVE  BetToRow(b) \in Rows
  BY DEF ValueBets, Rows, BetToRow, Announcements, Names

LEMMA RowRefers ==
  ASSUME NEW b \in ValueBets
  PROVE  /\ BetToRow(b).match = b.match.id
         /\ BetToRow(b).bookmaker = IF b.bookmaker = NoBook THEN NoBook ELSE b.bookmaker.name
  BY DEF ValueBets, BetToRow

LEMMA RowKeeps ==
  ASSUME NEW b \in ValueBets
  PROVE  /\ BetToRow(b).market = b.market /\ BetToRow(b).outcome = b.outcome
         /\ BetToRow(b).line = b.line /\ BetToRow(b).odds = b.odds
         /\ BetToRow(b).edge = b.edge /\ BetToRow(b).stake = b.stake
         /\ BetToRow(b).source = b.source /\ BetToRow(b).threshold = b.threshold
         /\ BetToRow(b).lineup_confirmed = b.lineup_confirmed
  BY DEF ValueBets, BetToRow

LEMMA RowIsRecord ==
  ASSUME NEW r \in Rows
  PROVE  r = [match |-> r.match, market |-> r.market, outcome |-> r.outcome, line |-> r.line,
              odds |-> r.odds, edge |-> r.edge, stake |-> r.stake, source |-> r.source,
              lineup_confirmed |-> r.lineup_confirmed, bookmaker |-> r.bookmaker,
              threshold |-> r.threshold]
  BY DEF Rows

LEMMA BetIsRecord ==
  ASSUME NEW b \in ValueBets
  PROVE  b = [match |-> b.match, market |-> b.market, outcome |-> b.outcome, line |-> b.line,
              odds |-> b.odds, edge |-> b.edge, stake |-> b.stake, source |-> b.source,
              lineup_confirmed |-> b.lineup_confirmed, bookmaker |-> b.bookmaker,
              threshold |-> b.threshold]
  BY DEF ValueBets

(* What a row refers to is in the tables. *)
Linked(row) ==
  /\ matches[row.match] \in Announcements /\ matches[row.match].id = row.match
  /\ row.bookmaker # NoBook =>
       books[row.bookmaker] \in Bookmakers /\ books[row.bookmaker].name = row.bookmaker

LEMMA EntityRefers ==
  ASSUME NEW row \in Rows
  PROVE  /\ BetFromRow(row).match = matches[row.match]
         /\ BetFromRow(row).bookmaker = IF row.bookmaker = NoBook THEN NoBook ELSE books[row.bookmaker]
  BY DEF Rows, BetFromRow

LEMMA EntityKeeps ==
  ASSUME NEW row \in Rows
  PROVE  /\ BetFromRow(row).market = row.market /\ BetFromRow(row).outcome = row.outcome
         /\ BetFromRow(row).line = row.line /\ BetFromRow(row).odds = row.odds
         /\ BetFromRow(row).edge = row.edge /\ BetFromRow(row).stake = row.stake
         /\ BetFromRow(row).source = row.source /\ BetFromRow(row).threshold = row.threshold
         /\ BetFromRow(row).lineup_confirmed = row.lineup_confirmed
  BY DEF Rows, BetFromRow

LEMMA EntityIsTyped ==
  ASSUME NEW row \in Rows, Linked(row)
  PROVE  BetFromRow(row) \in ValueBets
  BY DEF Rows, ValueBets, BetFromRow, Linked

(* Writing back what was read changes nothing. *)
LEMMA RowRoundTrip ==
  ASSUME NEW row \in Rows, Linked(row)
  PROVE  BetToRow(BetFromRow(row)) = row
<1> DEFINE b == BetFromRow(row)
<1>1. b \in ValueBets
  BY EntityIsTyped
<1>2. BetToRow(b) \in Rows
  BY <1>1, RowIsTyped
<1>3. BetToRow(b).match = row.match
  BY <1>1, RowRefers, EntityRefers DEF Linked
<1>4. BetToRow(b).bookmaker = row.bookmaker
  BY <1>1, RowRefers, EntityRefers, NullAssumption DEF Linked
<1>5. /\ BetToRow(b).market = row.market /\ BetToRow(b).outcome = row.outcome
      /\ BetToRow(b).line = row.line /\ BetToRow(b).odds = row.odds
      /\ BetToRow(b).edge = row.edge /\ BetToRow(b).stake = row.stake
      /\ BetToRow(b).source = row.source /\ BetToRow(b).threshold = row.threshold
      /\ BetToRow(b).lineup_confirmed = row.lineup_confirmed
  BY <1>1, RowKeeps, EntityKeeps
<1> HIDE DEF b
<1>6. BetToRow(b) = [match |-> row.match, market |-> row.market, outcome |-> row.outcome,
                     line |-> row.line, odds |-> row.odds, edge |-> row.edge,
                     stake |-> row.stake, source |-> row.source,
                     lineup_confirmed |-> row.lineup_confirmed, bookmaker |-> row.bookmaker,
                     threshold |-> row.threshold]
  BY <1>2, <1>3, <1>4, <1>5, RowIsRecord
<1>7. BetToRow(b) = row
  BY <1>6, RowIsRecord
<1> QED
  BY <1>7 DEF b

(* Reading back what was written loses nothing but the versions of what is shared. *)
LEMMA BetRoundTrip ==
  ASSUME NEW b \in ValueBets, Linked(BetToRow(b))
  PROVE  BetFromRow(BetToRow(b)) =
           [b EXCEPT !.match = matches[b.match.id],
                     !.bookmaker = IF @ = NoBook THEN NoBook ELSE books[@.name]]
<1> DEFINE row == BetToRow(b)
           c == [b EXCEPT !.match = matches[b.match.id],
                          !.bookmaker = IF @ = NoBook THEN NoBook ELSE books[@.name]]
<1>1. row \in Rows
  BY RowIsTyped
<1>2. /\ c.match = matches[b.match.id]
      /\ c.bookmaker = IF b.bookmaker = NoBook THEN NoBook ELSE books[b.bookmaker.name]
  BY DEF ValueBets
<1>3. /\ c.market = b.market /\ c.outcome = b.outcome /\ c.line = b.line /\ c.odds = b.odds
      /\ c.edge = b.edge /\ c.stake = b.stake /\ c.source = b.source
      /\ c.threshold = b.threshold /\ c.lineup_confirmed = b.lineup_confirmed
  BY DEF ValueBets
<1>4. row.match = b.match.id /\ (row.bookmaker = IF b.bookmaker = NoBook THEN NoBook ELSE b.bookmaker.name)
  BY RowRefers
<1>5. b.bookmaker # NoBook => row.bookmaker # NoBook
  BY <1>4, NullAssumption DEF ValueBets
<1>6. matches[b.match.id] \in Announcements
  BY <1>4 DEF Linked
<1>7. b.bookmaker # NoBook => books[b.bookmaker.name] \in Bookmakers
  BY <1>4, <1>5 DEF Linked
<1>8. c \in ValueBets
  BY <1>6, <1>7 DEF ValueBets
<1>9. BetFromRow(row) \in ValueBets
  BY <1>1, EntityIsTyped
<1>10. BetFromRow(row).match = c.match
  BY <1>1, <1>2, <1>4, EntityRefers
<1>11. BetFromRow(row).bookmaker = c.bookmaker
  BY <1>1, <1>2, <1>4, <1>5, EntityRefers
<1>12. /\ BetFromRow(row).market = c.market /\ BetFromRow(row).outcome = c.outcome
       /\ BetFromRow(row).line = c.line /\ BetFromRow(row).odds = c.odds
       /\ BetFromRow(row).edge = c.edge /\ BetFromRow(row).stake = c.stake
       /\ BetFromRow(row).source = c.source /\ BetFromRow(row).threshold = c.threshold
       /\ BetFromRow(row).lineup_confirmed = c.lineup_confirmed
  BY <1>1, <1>3, EntityKeeps, RowKeeps
<1> HIDE DEF row, c
<1>13. BetFromRow(row) = [match |-> c.match, market |-> c.market, outcome |-> c.outcome, line |-> c.line,
              odds |-> c.odds, edge |-> c.edge, stake |-> c.stake, source |-> c.source,
              lineup_confirmed |-> c.lineup_confirmed, bookmaker |-> c.bookmaker,
              threshold |-> c.threshold]
  BY <1>9, <1>10, <1>11, <1>12, BetIsRecord
<1>14. BetFromRow(row) = c
  BY <1>8, <1>13, BetIsRecord
<1> QED
  BY <1>14 DEF row, c

-----------------------------------------------------------------------------
(* The invariant is inductive. *)

LEMMA InitIsSound ==
  ASSUME Init
  PROVE  RecordsInv
<1>1. RecordsType
  BY DEF Init, RecordsType
<1>2. Current
  BY DEF Init, Current
<1>3. Named
  BY DEF Init, Named
<1>4. Filed
  BY DEF Init, Filed
<1>5. Paired
  BY DEF Init, Paired
<1> QED
  BY <1>1, <1>2, <1>3, <1>4, <1>5 DEF RecordsInv

(* Rows that are filed refer to what is there. *)
LEMMA FiledIsLinked ==
  ASSUME RecordsInv, NEW i \in DOMAIN bets
  PROVE  saved[i] \in Bets /\ saved[i] \in ValueBets /\ bets[i] \in Rows /\ Linked(bets[i])
<1>1. saved[i] \in Bets
  BY DEF RecordsInv, RecordsType
<1>2. saved[i] \in ValueBets
  BY <1>1, BetAssumption
<1>3. bets[i] = BetToRow(saved[i])
  BY DEF RecordsInv, Filed
<1>4. bets[i] \in Rows
  BY <1>2, <1>3, RowIsTyped
<1>5. bets[i].match \in MatchIds /\ bets[i].bookmaker \in Names \union {NoBook}
  BY <1>4 DEF Rows
<1>6. matches[bets[i].match] # NoRow
  BY <1>2, <1>3, RowRefers DEF RecordsInv, Filed
<1>7. matches[bets[i].match] \in Announcements
  BY <1>5, <1>6 DEF RecordsInv, RecordsType
<1>8. matches[bets[i].match].id = bets[i].match
  BY <1>5, <1>6 DEF RecordsInv, Current, IsLast
<1>9. ASSUME bets[i].bookmaker # NoBook
      PROVE  books[bets[i].bookmaker] # NoRow /\ bets[i].bookmaker \in Names
  BY <1>2, <1>3, <1>5, <1>9, RowRefers DEF RecordsInv, Filed
<1>10. ASSUME bets[i].bookmaker # NoBook
       PROVE  books[bets[i].bookmaker] \in Bookmakers /\ books[bets[i].bookmaker].name = bets[i].bookmaker
  BY <1>9, <1>10 DEF RecordsInv, RecordsType, Named
<1> QED
  BY <1>1, <1>2, <1>4, <1>7, <1>8, <1>10 DEF Linked

(* An announcement is the last of its match, and leaves the others'. *)
LEMMA Announcing ==
  ASSUME RecordsInv, NEW m \in Announcements, UpsertMatch(m)
  PROVE  /\ matches' \in [MatchIds -> Announcements \union {NoRow}]
         /\ schedule' \in Seq(Announcements)
         /\ Current'
         /\ m.id \in MatchIds /\ matches'[m.id] = m
         /\ \A id \in MatchIds : matches[id] # NoRow => matches'[id] # NoRow
<1>0. m.id \in MatchIds
  BY DEF Announcements
<1>t. matches \in [MatchIds -> Announcements \union {NoRow}] /\ schedule \in Seq(Announcements)
  BY DEF RecordsInv, RecordsType
<1>u. matches' = [matches EXCEPT ![m.id] = m] /\ schedule' = Append(schedule, m)
  BY DEF UpsertMatch
<1>1. matches' \in [MatchIds -> Announcements \union {NoRow}]
  BY <1>0, <1>t, <1>u
<1>2. schedule' \in Seq(Announcements)
  BY <1>t, <1>u
<1>3. matches'[m.id] = m
  BY <1>0, <1>t, <1>u
<1>4. \A id \in MatchIds : id # m.id => matches'[id] = matches[id]
  BY <1>0, <1>t, <1>u
<1>5. \A id \in MatchIds : matches[id] # NoRow => matches'[id] # NoRow
  BY <1>3, <1>4, NullAssumption
<1>6. /\ Len(schedule) \in Nat /\ DOMAIN schedule = 1..Len(schedule)
      /\ Len(schedule') = Len(schedule) + 1 /\ DOMAIN schedule' = 1..(Len(schedule) + 1)
      /\ schedule'[Len(schedule) + 1] = m
      /\ \A j \in 1..Len(schedule) : schedule'[j] = schedule[j]
  BY <1>t, <1>u
<1>7. ASSUME NEW id \in MatchIds, matches'[id] # NoRow
      PROVE  \E i \in DOMAIN schedule' : IsLast(i, id)' /\ schedule'[i] = matches'[id]
  <2>1. CASE id = m.id
    <3>1. PICK n \in Nat : n = Len(schedule) + 1
      BY <1>6
    <3>2. IsLast(n, id)'
      BY <1>6, <2>1, <3>1 DEF IsLast
    <3> QED
      BY <1>3, <1>6, <2>1, <3>1, <3>2
  <2>2. CASE id # m.id
    <3>1. matches'[id] = matches[id] /\ matches[id] # NoRow
      BY <1>4, <1>7, <2>2
    <3>2. PICK i \in DOMAIN schedule : IsLast(i, id) /\ schedule[i] = matches[id]
      BY <3>1 DEF RecordsInv, Current
    <3>3. i \in DOMAIN schedule' /\ schedule'[i] = schedule[i] /\ schedule[i].id = id
      BY <1>6, <3>2 DEF IsLast
    <3>4. ASSUME NEW j \in DOMAIN schedule', schedule'[j].id = id
          PROVE  j <= i
      <4>1. j # Len(schedule) + 1
        BY <1>6, <2>2, <3>4
      <4>2. j \in DOMAIN schedule
        BY <1>6, <4>1
      <4> QED
        BY <1>6, <3>2, <3>4, <4>2 DEF IsLast
    <3>5. IsLast(i, id)'
      BY <3>3, <3>4 DEF IsLast
    <3> QED
      BY <3>1, <3>2, <3>3, <3>5
  <2> QED
    BY <2>1, <2>2
<1>8. Current'
  BY <1>7 DEF Current
<1> QED
  BY <1>0, <1>1, <1>2, <1>3, <1>5, <1>8

(* A bookmaker saved is kept under its name, and no name is lost. *)
LEMMA Naming ==
  ASSUME RecordsInv, NEW b \in Bookmakers \union {NoBook}, UpsertBookmaker(b)
  PROVE  /\ books' \in [Names -> Bookmakers \union {NoRow}]
         /\ Named'
         /\ b # NoBook => books'[b.name] = b
         /\ \A n \in Names : books[n] # NoRow => books'[n] # NoRow
<1>t. books \in [Names -> Bookmakers \union {NoRow}] /\ Named
  BY DEF RecordsInv, RecordsType
<1>1. CASE b = NoBook
  BY <1>t, <1>1 DEF UpsertBookmaker, Named
<1>2. CASE b # NoBook
  <2>1. b \in Bookmakers /\ b.name \in Names /\ books' = [books EXCEPT ![b.name] = b]
    BY <1>2 DEF UpsertBookmaker, Names
  <2>2. books' \in [Names -> Bookmakers \union {NoRow}] /\ books'[b.name] = b
    BY <1>t, <2>1
  <2>3. \A n \in Names : n # b.name => books'[n] = books[n]
    BY <1>t, <2>1
  <2>4. Named'
    BY <1>t, <2>2, <2>3 DEF Named
  <2> QED
    BY <2>1, <2>2, <2>3, <2>4, NullAssumption
<1> QED
  BY <1>1, <1>2

(* The rows that are there stay filed as the tables grow. *)
LEMMA StaysFiled ==
  ASSUME RecordsInv, UNCHANGED <<bets, saved>>,
         \A id \in MatchIds : matches[id] # NoRow => matches'[id] # NoRow,
         \A n \in Names : books[n] # NoRow => books'[n] # NoRow
  PROVE  Filed'
<1> SUFFICES ASSUME NEW i \in DOMAIN bets
             PROVE  /\ bets[i] = BetToRow(saved[i])
                    /\ matches'[saved[i].match.id] # NoRow
                    /\ saved[i].bookmaker # NoBook => books'[saved[i].bookmaker.name] # NoRow
  BY DEF Filed, BetToRow
<1>1. saved[i] \in ValueBets
  BY FiledIsLinked
<1>2. saved[i].match.id \in MatchIds /\ (saved[i].bookmaker # NoBook => saved[i].bookmaker.name \in Names)
  BY <1>1 DEF ValueBets, Announcements, Names
<1> QED
  BY <1>2 DEF RecordsInv, Filed

LEMMA SaveMatchIsSound ==
  ASSUME RecordsInv, NEW m \in Announcements, SaveMatch(m)
  PROVE  RecordsInv'
<1>1. UpsertMatch(m) /\ UNCHANGED <<books, bets, settled, saved, asked>>
  BY DEF SaveMatch
<1>2. RecordsType' /\ Current'
  <2>1. /\ matches' \in [MatchIds -> Announcements \union {NoRow}]
        /\ schedule' \in Seq(Announcements)
        /\ Current'
    BY <1>1, Announcing
  <2> QED
    BY <1>1, <2>1 DEF RecordsInv, RecordsType, BetToRow
<1>3. Named'
  BY <1>1 DEF RecordsInv, Named
<1>4. Filed'
  BY <1>1, Announcing, StaysFiled
<1>5. Paired'
  BY <1>1 DEF RecordsInv, Paired
<1> QED
  BY <1>2, <1>3, <1>4, <1>5 DEF RecordsInv

LEMMA SaveBetIsSound ==
  ASSUME RecordsInv, NEW b \in Bets, SaveBet(b)
  PROVE  RecordsInv'
<1>1. /\ UpsertMatch(b.match) /\ UpsertBookmaker(b.bookmaker)
      /\ bets' = Append(bets, BetToRow(b)) /\ saved' = Append(saved, b)
      /\ UNCHANGED <<settled, asked>>
  BY DEF SaveBet
<1>2. b \in ValueBets /\ b.match \in Announcements /\ b.bookmaker \in Bookmakers \union {NoBook}
  BY BetAssumption DEF ValueBets
<1>3. /\ matches' \in [MatchIds -> Announcements \union {NoRow}]
      /\ schedule' \in Seq(Announcements)
      /\ Current'
      /\ b.match.id \in MatchIds /\ matches'[b.match.id] = b.match
      /\ \A id \in MatchIds : matches[id] # NoRow => matches'[id] # NoRow
  BY <1>1, <1>2, Announcing
<1>4. /\ books' \in [Names -> Bookmakers \union {NoRow}]
      /\ Named'
      /\ b.bookmaker # NoBook => books'[b.bookmaker.name] = b.bookmaker
      /\ \A n \in Names : books[n] # NoRow => books'[n] # NoRow
  BY <1>1, <1>2, Naming
<1>5. /\ bets \in Seq({BetToRow(c) : c \in Bets}) /\ saved \in Seq(Bets)
      /\ Len(bets) = Len(saved) /\ Len(bets) \in Nat
      /\ DOMAIN bets = 1..Len(bets)
  BY DEF RecordsInv, RecordsType
<1>6. /\ bets' \in Seq({BetToRow(c) : c \in Bets}) /\ saved' \in Seq(Bets)
      /\ Len(bets') = Len(bets) + 1 /\ Len(saved') = Len(bets) + 1
      /\ DOMAIN bets' = 1..(Len(bets) + 1)
      /\ bets'[Len(bets) + 1] = BetToRow(b) /\ saved'[Len(bets) + 1] = b
      /\ \A i \in DOMAIN bets : bets'[i] = bets[i] /\ saved'[i] = saved[i]
  BY <1>1, <1>5
<1>7. RecordsType'
  BY <1>1, <1>3, <1>4, <1>6 DEF RecordsInv, RecordsType, BetToRow
<1>8. ASSUME NEW i \in DOMAIN bets'
      PROVE  /\ bets'[i] = BetToRow(saved'[i])
             /\ matches'[saved'[i].match.id] # NoRow
             /\ saved'[i].bookmaker # NoBook => books'[saved'[i].bookmaker.name] # NoRow
  <2>1. CASE i \in DOMAIN bets
    <3>1. saved[i] \in ValueBets
      BY <2>1, FiledIsLinked
    <3>2. /\ saved[i].match.id \in MatchIds
          /\ saved[i].bookmaker # NoBook => saved[i].bookmaker.name \in Names
      BY <3>1 DEF ValueBets, Announcements, Names
    <3>3. /\ bets[i] = BetToRow(saved[i]) /\ matches[saved[i].match.id] # NoRow
          /\ saved[i].bookmaker # NoBook => books[saved[i].bookmaker.name] # NoRow
      BY <2>1 DEF RecordsInv, Filed
    <3> QED
      BY <1>3, <1>4, <1>6, <2>1, <3>2, <3>3
  <2>2. CASE i \notin DOMAIN bets
    <3>1. i = Len(bets) + 1
      BY <1>5, <1>6, <2>2
    <3>2. bets'[i] = BetToRow(b) /\ saved'[i] = b
      BY <1>6, <3>1
    <3>3. b.match # NoRow /\ (b.bookmaker # NoBook => b.bookmaker # NoRow)
      BY <1>2, NullAssumption
    <3> QED
      BY <1>3, <1>4, <3>2, <3>3
  <2> QED
    BY <2>1, <2>2
<1>9. Filed'
  BY <1>8 DEF Filed, BetToRow
<1>10. Paired'
  BY <1>1, <1>5, <1>6 DEF RecordsInv, Paired
<1> QED
  BY <1>3, <1>4, <1>7, <1>9, <1>10 DEF RecordsInv

LEMMA SettleIsSound ==
  ASSUME RecordsInv, NEW r \in Requests, Settle(r)
  PROVE  RecordsInv'
<1>1. PICK i \in Candidates(r) :
        /\ UpsertMatch(BetFromRow(bets[i]).match)
        /\ UpsertBookmaker(BetFromRow(bets[i]).bookmaker)
        /\ settled' = Append(settled, SettledToRow(BetFromRow(bets[i]), r))
  BY DEF Settle
<1>2. asked' = Append(asked, r) /\ UNCHANGED <<bets, saved>>
  BY DEF Settle
<1>3. i \in DOMAIN bets /\ bets[i].odds = r.odds
  BY DEF Candidates, Found
<1>4. bets[i] \in Rows /\ Linked(bets[i])
  BY <1>3, FiledIsLinked
<1>5. BetFromRow(bets[i]) \in ValueBets /\ BetToRow(BetFromRow(bets[i])) = bets[i]
  BY <1>4, EntityIsTyped, RowRoundTrip
<1>6. /\ BetFromRow(bets[i]).match \in Announcements
      /\ BetFromRow(bets[i]).bookmaker \in Bookmakers \union {NoBook}
  BY <1>5 DEF ValueBets
<1>7. /\ matches' \in [MatchIds -> Announcements \union {NoRow}]
      /\ schedule' \in Seq(Announcements)
      /\ Current'
      /\ \A id \in MatchIds : matches[id] # NoRow => matches'[id] # NoRow
  BY <1>1, <1>6, Announcing
<1>8. /\ books' \in [Names -> Bookmakers \union {NoRow}]
      /\ Named'
      /\ \A n \in Names : books[n] # NoRow => books'[n] # NoRow
  BY <1>1, <1>6, Naming
<1>9. /\ SettledToRow(BetFromRow(bets[i]), r) = [bet |-> bets[i], result |-> r.result, closing |-> r.closing]
      /\ SettledToRow(BetFromRow(bets[i]), r) \in SettledRows
  BY <1>4, <1>5, RequestAssumption DEF SettledToRow, SettledRows
<1>10. /\ asked \in Seq(Requests) /\ settled \in Seq(SettledRows)
       /\ Len(asked) = Len(settled) /\ Len(settled) \in Nat
       /\ DOMAIN settled = 1..Len(settled) /\ DOMAIN asked = 1..Len(asked)
  BY DEF RecordsInv, RecordsType
<1>11. /\ asked' \in Seq(Requests) /\ Len(asked') = Len(settled) + 1
       /\ asked'[Len(settled) + 1] = r
       /\ \A k \in DOMAIN settled : asked'[k] = asked[k]
  BY <1>2, <1>10
<1>12. /\ settled' \in Seq(SettledRows) /\ Len(settled') = Len(settled) + 1 /\ DOMAIN settled' = 1..(Len(settled) + 1)
       /\ settled'[Len(settled) + 1] = [bet |-> bets[i], result |-> r.result, closing |-> r.closing]
       /\ \A k \in DOMAIN settled : settled'[k] = settled[k]
  BY <1>1, <1>9, <1>10
<1>13. RecordsType'
  BY <1>2, <1>7, <1>8, <1>10, <1>11, <1>12 DEF RecordsInv, RecordsType, BetToRow
<1>14. Filed'
  BY <1>2, <1>7, <1>8, StaysFiled
<1>15. ASSUME NEW k \in DOMAIN settled'
       PROVE  \E j \in DOMAIN bets :
                /\ settled'[k] = [bet |-> bets[j], result |-> asked'[k].result, closing |-> asked'[k].closing]
                /\ bets[j].odds = asked'[k].odds
  <2>1. CASE k \in DOMAIN settled
    BY <1>11, <1>12, <2>1 DEF RecordsInv, Paired
  <2>2. CASE k \notin DOMAIN settled
    <3>1. k = Len(settled) + 1
      BY <1>10, <1>12, <2>2
    <3> QED
      BY <1>3, <1>11, <1>12, <3>1
  <2> QED
    BY <2>1, <2>2
<1>16. Paired'
  BY <1>2, <1>15 DEF Paired
<1> QED
  BY <1>7, <1>8, <1>13, <1>14, <1>16 DEF RecordsInv

LEMMA UnchangedIsSound ==
  ASSUME RecordsInv, UNCHANGED <<tables, schedule, saved, asked>>
  PROVE  RecordsInv'
<1>1. /\ matches' = matches /\ books' = books /\ bets' = bets /\ settled' = settled
      /\ schedule' = schedule /\ saved' = saved /\ asked' = asked
  BY DEF tables
<1>2. RecordsType'
  BY <1>1 DEF RecordsInv, RecordsType, BetToRow
<1>3. Current'
  BY <1>1 DEF RecordsInv, Current, IsLast
<1>4. Named'
  BY <1>1 DEF RecordsInv, Named
<1>5. Filed'
  BY <1>1 DEF RecordsInv, Filed, BetToRow
<1>6. Paired'
  BY <1>1 DEF RecordsInv, Paired
<1> QED
  BY <1>2, <1>3, <1>4, <1>5, <1>6 DEF RecordsInv

LEMMA NextIsSound ==
  ASSUME RecordsInv, [Next]_vars
  PROVE  RecordsInv'
<1>1. ASSUME NEW m \in Announcements, SaveMatch(m) PROVE RecordsInv'
  BY <1>1, SaveMatchIsSound
<1>2. ASSUME NEW b \in Bets, SaveBet(b) PROVE RecordsInv'
  BY <1>2, SaveBetIsSound
<1>3. ASSUME NEW r \in Requests, Settle(r) PROVE RecordsInv'
  BY <1>3, SettleIsSound
<1>4. ASSUME UNCHANGED <<tables, schedule, saved, asked>> PROVE RecordsInv'
  BY <1>4, UnchangedIsSound
<1>5. ASSUME NEW b \in Bets, RefuseBet(b) PROVE RecordsInv'
  BY <1>4, <1>5 DEF RefuseBet
<1>6. ASSUME NEW r \in Requests, RejectSettlement(r) PROVE RecordsInv'
  BY <1>4, <1>6 DEF RejectSettlement
<1>7. CASE UNCHANGED vars
  BY <1>4, <1>7 DEF vars
<1> QED
  BY <1>1, <1>2, <1>3, <1>5, <1>6, <1>7 DEF Next

THEOREM RecordsAreSound == Spec => []RecordsInv
<1>1. Init => RecordsInv
  BY InitIsSound
<1>2. RecordsInv /\ [Next]_vars => RecordsInv'
  BY NextIsSound
<1> QED
  BY <1>1, <1>2, PTL DEF Spec

-----------------------------------------------------------------------------
(* Properties *)

(* The match of a row, as the table has it, is the one announced last. *)
LEMMA TableIsCurrent ==
  ASSUME RecordsInv, NEW id \in MatchIds, matches[id] # NoRow
  PROVE  LastAnnounced(id) = matches[id]
<1>1. PICK i \in DOMAIN schedule : IsLast(i, id) /\ schedule[i] = matches[id]
  BY DEF RecordsInv, Current
<1> DEFINE Latest(k) == schedule[k].id = id /\ \A j \in DOMAIN schedule : schedule[j].id = id => j <= k
           last == CHOOSE k \in DOMAIN schedule : Latest(k)
<1>2. i \in DOMAIN schedule /\ Latest(i)
  BY <1>1 DEF IsLast
<1>3. last \in DOMAIN schedule /\ Latest(last)
  <2> HIDE DEF Latest
  <2> QED
    BY <1>2
<1>4. DOMAIN schedule = 1..Len(schedule) /\ Len(schedule) \in Nat
  BY DEF RecordsInv, RecordsType
<1>5. i <= last /\ last <= i
  BY <1>2, <1>3
<1>6. i = last
  <2> HIDE DEF last
  <2> QED
    BY <1>3, <1>4, <1>5
<1> QED
  BY <1>1, <1>6 DEF LastAnnounced

LEMMA RowIsCurrent ==
  ASSUME RecordsInv, NEW i \in DOMAIN bets
  PROVE  /\ BetFromRow(bets[i]).match = LastAnnounced(bets[i].match)
         /\ bets[i].match = saved[i].match.id
         /\ LastAnnounced(bets[i].match).id = bets[i].match
         /\ LastAnnounced(bets[i].match) = matches[bets[i].match]
<1>1. saved[i] \in ValueBets /\ bets[i] \in Rows /\ Linked(bets[i]) /\ bets[i] = BetToRow(saved[i])
  BY FiledIsLinked DEF RecordsInv, Filed
<1>2. bets[i].match = saved[i].match.id
  BY <1>1, RowRefers
<1>3. bets[i].match \in MatchIds /\ matches[bets[i].match] # NoRow
  BY <1>1, NullAssumption DEF Rows, Linked
<1>4. LastAnnounced(bets[i].match) = matches[bets[i].match]
  BY <1>3, TableIsCurrent
<1> QED
  BY <1>1, <1>2, <1>4, EntityRefers DEF Linked

LEMMA ReadsBack ==
  ASSUME RecordsInv
  PROVE  RowsReadBackAsSaved
<1>1. ASSUME NEW i \in DOMAIN bets
      PROVE  BetFromRow(bets[i]) =
               [saved[i] EXCEPT !.match = LastAnnounced(saved[i].match.id),
                                !.bookmaker = IF @ = NoBook THEN NoBook ELSE books[@.name]]
  <2>1. saved[i] \in ValueBets /\ Linked(bets[i]) /\ bets[i] = BetToRow(saved[i])
    BY FiledIsLinked DEF RecordsInv, Filed
  <2>2. LastAnnounced(saved[i].match.id) = matches[saved[i].match.id]
    BY RowIsCurrent
  <2> QED
    BY <2>1, <2>2, BetRoundTrip
<1>2. ASSUME NEW i \in DOMAIN settled
      PROVE  \E j \in DOMAIN saved :
               [SettledFromRow(settled[i]).bet EXCEPT !.match = saved[j].match, !.bookmaker = saved[j].bookmaker]
                 = saved[j]
  <2>1. PICK j \in DOMAIN bets :
          settled[i] = [bet |-> bets[j], result |-> asked[i].result, closing |-> asked[i].closing]
    BY DEF RecordsInv, Paired
  <2>2. SettledFromRow(settled[i]).bet = BetFromRow(bets[j])
    BY <2>1 DEF SettledFromRow
  <2>3. /\ saved[j] \in ValueBets /\ bets[j] \in Rows /\ Linked(bets[j])
        /\ bets[j] = BetToRow(saved[j]) /\ j \in DOMAIN saved
    BY FiledIsLinked DEF RecordsInv, RecordsType, Filed
  <2> DEFINE b == BetFromRow(bets[j])
             c == [b EXCEPT !.match = saved[j].match, !.bookmaker = saved[j].bookmaker]
  <2>4. b \in ValueBets
    BY <2>3, EntityIsTyped
  <2>5. saved[j].match \in Announcements /\ saved[j].bookmaker \in Bookmakers \union {NoBook}
    BY <2>3 DEF ValueBets
  <2>6. /\ b.market = saved[j].market /\ b.outcome = saved[j].outcome
        /\ b.line = saved[j].line /\ b.odds = saved[j].odds
        /\ b.edge = saved[j].edge /\ b.stake = saved[j].stake
        /\ b.source = saved[j].source /\ b.threshold = saved[j].threshold
        /\ b.lineup_confirmed = saved[j].lineup_confirmed
    BY <2>3, EntityKeeps, RowKeeps
  <2> HIDE DEF b
  <2>7. /\ c \in ValueBets /\ c.match = saved[j].match /\ c.bookmaker = saved[j].bookmaker
        /\ c.market = b.market /\ c.outcome = b.outcome /\ c.line = b.line /\ c.odds = b.odds
        /\ c.edge = b.edge /\ c.stake = b.stake /\ c.source = b.source
        /\ c.threshold = b.threshold /\ c.lineup_confirmed = b.lineup_confirmed
    BY <2>4, <2>5 DEF ValueBets
  <2> HIDE DEF c
  <2>8. c = [match |-> saved[j].match, market |-> saved[j].market, outcome |-> saved[j].outcome,
             line |-> saved[j].line, odds |-> saved[j].odds, edge |-> saved[j].edge,
             stake |-> saved[j].stake, source |-> saved[j].source,
             lineup_confirmed |-> saved[j].lineup_confirmed, bookmaker |-> saved[j].bookmaker,
             threshold |-> saved[j].threshold]
    BY <2>6, <2>7, BetIsRecord
  <2>9. c = saved[j]
    BY <2>3, <2>8, BetIsRecord
  <2> QED
    BY <2>2, <2>3, <2>9 DEF b, c
<1> QED
  BY <1>1, <1>2 DEF RowsReadBackAsSaved

(* Profit in units of the stake, whatever the stake. *)
LEMMA ProfitPerUnit ==
  ASSUME NEW stake \in Fractions, NEW odds \in Fractions
  PROVE  /\ Same(Times(stake, Minus(odds, One)), Times(stake, Minus(odds, One)))
         /\ Same(Minus(Zero, stake), Times(stake, Frac(-1, 1)))
         /\ Same(Zero, Times(stake, Zero))
<1>1. /\ stake.num \in Int /\ stake.den \in Int /\ odds.num \in Int /\ odds.den \in Int
  BY DEF Fractions
<1>2. Same(Minus(Zero, stake), Times(stake, Frac(-1, 1)))
  BY <1>1 DEF Same, Minus, Times, Zero, Frac
<1>3. Same(Zero, Times(stake, Zero))
  BY <1>1 DEF Same, Times, Zero, Frac
<1>4. Same(Times(stake, Minus(odds, One)), Times(stake, Minus(odds, One)))
  BY DEF Same
<1> QED
  BY <1>2, <1>3, <1>4

(* The closing line moves towards the bettor when the odds come down. *)
LEMMA ClosingLine ==
  ASSUME NEW closing \in Fractions, NEW odds \in Fractions
  PROVE  Less(Zero, Minus(ImpliedProbability(closing), ImpliedProbability(odds))) <=> Less(closing, odds)
<1>1. /\ closing.num \in Int /\ closing.den \in Int /\ odds.num \in Int /\ odds.den \in Int
  BY DEF Fractions
<1> DEFINE p == closing.den * odds.num
           q == odds.den * closing.num
           r == closing.num * odds.num
<1>2. p \in Int /\ q \in Int /\ r \in Int
  BY <1>1
<1>3. /\ Minus(ImpliedProbability(closing), ImpliedProbability(odds)).num = p - q
      /\ Minus(ImpliedProbability(closing), ImpliedProbability(odds)).den = r
  BY <1>1 DEF Minus, ImpliedProbability, Over, One, Frac
<1>4. Less(Zero, Minus(ImpliedProbability(closing), ImpliedProbability(odds))) <=> 0 * r < (p - q) * 1
  BY <1>3 DEF Less, Zero, Frac
<1>5. Less(closing, odds) <=> q < p
  BY <1>1 DEF Less
<1> HIDE DEF p, q, r
<1> QED
  BY <1>2, <1>4, <1>5

LEMMA SettlesAtTheOdds ==
  ASSUME RecordsInv
  PROVE  SettledAtTheOddsAsked
<1> SUFFICES ASSUME NEW i \in DOMAIN settled
             PROVE  LET s == SettledFromRow(settled[i]) bet == asked[i] IN
    /\ Same(ProfitLoss(s), Times(s.bet.stake, CASE bet.result = "won"  -> Minus(bet.odds, One)
                                                [] bet.result = "lost" -> Frac(-1, 1)
                                                [] bet.result = "push" -> Zero))
    /\ IF bet.closing = NoOdds THEN Clv(s) = NoOdds
       ELSE Less(Zero, Clv(s)) <=> Less(bet.closing, bet.odds)
  BY DEF SettledAtTheOddsAsked
<1> DEFINE s == SettledFromRow(settled[i])
           bet == asked[i]
<1>1. PICK j \in DOMAIN bets :
        /\ settled[i] = [bet |-> bets[j], result |-> bet.result, closing |-> bet.closing]
        /\ bets[j].odds = bet.odds
  BY DEF RecordsInv, Paired
<1>2. s.bet = BetFromRow(bets[j]) /\ s.result = bet.result /\ s.closing = bet.closing
  BY <1>1 DEF SettledFromRow
<1>3. bets[j] \in Rows
  BY FiledIsLinked
<1>4. s.bet.stake \in Fractions /\ s.bet.odds = bet.odds
  BY <1>1, <1>2, <1>3, EntityKeeps DEF Rows
<1>5. bet \in Requests
  BY DEF RecordsInv, RecordsType
<1>6. bet.odds \in Fractions /\ bet.result \in {"won", "lost", "push"} /\ bet.closing \in Fractions \union {NoOdds}
  BY <1>5, RequestAssumption
<1> HIDE DEF s, bet
<1>7. Same(ProfitLoss(s), Times(s.bet.stake, CASE bet.result = "won"  -> Minus(bet.odds, One)
                                               [] bet.result = "lost" -> Frac(-1, 1)
                                               [] bet.result = "push" -> Zero))
  <2>1. CASE bet.result = "won"
    <3>1. ProfitLoss(s) = Times(s.bet.stake, Minus(bet.odds, One))
      BY <1>2, <1>4, <2>1 DEF ProfitLoss
    <3> QED
      BY <1>4, <1>6, <2>1, <3>1, ProfitPerUnit
  <2>2. CASE bet.result = "lost"
    <3>1. ProfitLoss(s) = Minus(Zero, s.bet.stake)
      BY <1>2, <2>2 DEF ProfitLoss
    <3> QED
      BY <1>4, <1>6, <2>2, <3>1, ProfitPerUnit
  <2>3. CASE bet.result = "push"
    <3>1. ProfitLoss(s) = Zero
      BY <1>2, <2>3 DEF ProfitLoss
    <3> QED
      BY <1>4, <1>6, <2>3, <3>1, ProfitPerUnit
  <2> QED
    BY <1>6, <2>1, <2>2, <2>3
<1>8. IF bet.closing = NoOdds THEN Clv(s) = NoOdds ELSE Less(Zero, Clv(s)) <=> Less(bet.closing, bet.odds)
  <2>1. CASE bet.closing = NoOdds
    BY <1>2, <2>1 DEF Clv
  <2>2. CASE bet.closing # NoOdds
    <3>1. Clv(s) = Minus(ImpliedProbability(bet.closing), ImpliedProbability(bet.odds))
      BY <1>2, <1>4, <2>2 DEF Clv
    <3>2. bet.closing \in Fractions
      BY <1>6, <2>2
    <3> QED
      BY <1>6, <2>2, <3>1, <3>2, ClosingLine
  <2> QED
    BY <2>1, <2>2
<1> QED
  BY <1>7, <1>8 DEF s, bet

LEMMA ListsWhereItIs ==
  ASSUME RecordsInv
  PROVE  ListingFollowsTheSchedule
<1> SUFFICES ASSUME NEW i \in DOMAIN bets, NEW d \in Days, NEW l \in Leagues
             PROVE  LET now == LastAnnounced(bets[i].match)
                        query == [league |-> l, min_ev_threshold |-> saved[i].threshold, day |-> d,
                                  market |-> saved[i].market, source |-> saved[i].source]
                    IN  /\ i \in Listed(query) <=> now.league = l /\ now.day = d
                        /\ Found(Shown(BetFromRow(bets[i])), bets[i])
  BY DEF ListingFollowsTheSchedule
<1> DEFINE now == LastAnnounced(bets[i].match)
           query == [league |-> l, min_ev_threshold |-> saved[i].threshold, day |-> d,
                     market |-> saved[i].market, source |-> saved[i].source]
           b == BetFromRow(bets[i])
<1>1. saved[i] \in Bets /\ saved[i] \in ValueBets /\ bets[i] \in Rows /\ bets[i] = BetToRow(saved[i])
  BY FiledIsLinked DEF RecordsInv, Filed
<1>2. b.match = now /\ now.id = bets[i].match
  BY RowIsCurrent
<1>3. /\ b.market = saved[i].market /\ b.source = saved[i].source /\ b.edge = saved[i].edge
      /\ b.market = bets[i].market /\ b.outcome = bets[i].outcome
      /\ b.line = bets[i].line /\ b.odds = bets[i].odds
  BY <1>1, EntityKeeps, RowKeeps
<1>4. Leq(Times(saved[i].threshold, Frac(100, 1)), saved[i].edge)
  <2> DEFINE bar == Times(saved[i].threshold, Frac(100, 1))
  <2>1. Less(bar, saved[i].edge)
    BY <1>1, BetAssumption
  <2>2. saved[i].threshold \in Fractions /\ saved[i].edge \in Fractions
    BY <1>1 DEF ValueBets
  <2>3. bar.num \in Int /\ bar.den \in Int /\ saved[i].edge.num \in Int /\ saved[i].edge.den \in Int
    BY <2>2 DEF Fractions, Times, Frac
  <2> HIDE DEF bar
  <2>4. bar.num * saved[i].edge.den \in Int /\ saved[i].edge.num * bar.den \in Int
    BY <2>3
  <2>5. Leq(bar, saved[i].edge)
    BY <2>1, <2>4 DEF Less, Leq
  <2> QED
    BY <2>5 DEF bar
<1>5. l # NoFilter /\ d # NoFilter
  BY NullAssumption
<1> HIDE DEF now, b
<1>6. Passes(b, query) <=> now.league = l /\ now.day = d
  BY <1>2, <1>3, <1>4, <1>5 DEF Passes
<1>7. i \in Listed(query) <=> now.league = l /\ now.day = d
  BY <1>6 DEF Listed, b
<1>8. Found(Shown(b), bets[i])
  BY <1>2, <1>3 DEF Found, Shown
<1> QED
  BY <1>7, <1>8 DEF now, b

(* No row loses what was saved, down to what is NULL, and a settled row is  *)
(* the whole of a bet that some run found: the mappings of mappers.py.      *)
THEOREM MappingsLoseNothing == Spec => []RowsReadBackAsSaved
  BY RecordsAreSound, ReadsBack, PTL

(* Profit and closing line value are those of the odds asked for, whichever *)
(* of the rows of that key SettleBetUseCase pairs with the result.          *)
THEOREM SettlesAsAsked == Spec => []SettledAtTheOddsAsked
  BY RecordsAreSound, SettlesAtTheOdds, PTL

(* ListValueBetsUseCase lists a bet where its match was last announced, and *)
(* what it shows is enough to settle the bet.                               *)
THEOREM ListsBySchedule == Spec => []ListingFollowsTheSchedule
  BY RecordsAreSound, ListsWhereItIs, PTL
=============================================================================
