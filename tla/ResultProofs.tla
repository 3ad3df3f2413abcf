----------------------------- MODULE ResultProofs -----------------------------
(***************************************************************************)
(* Proofs about what a run leaves in its session and what it returns: that *)
(* the two agree, that rows come match by match in kickoff order, and that *)
(* local quotes put the committed kickoff back; and that the service keeps *)
(* RunContract.                                                            *)
(***************************************************************************)
EXTENDS ServiceProofs

-----------------------------------------------------------------------------
(* Lists of the kept rows *)

(* What is kept of nothing is nothing.                                       *)
LEMMA ListsNothing == \A kept : Lists(<<>>, <<>>, kept)
<1> SUFFICES ASSUME NEW kept PROVE Lists(<<>>, <<>>, kept)
  OBVIOUS
<1>1. Places(<<>>, kept) = {} /\ Len(<<>>) = 0
  BY DEF Places
<1>2. QED
  BY <1>1, FS_EmptySet DEF Lists

(* A list of the kept rows stays one when rows that are not kept come after. *)
LEMMA ListsPast ==
  ASSUME NEW S, NEW kept, NEW bets, NEW rows \in Seq(S), NEW more \in Seq(S),
         Lists(bets, rows, kept), \A i \in DOMAIN more : more[i] \notin kept
  PROVE  Lists(bets, rows \o more, kept)
<1> DEFINE all == rows \o more
           places == Places(rows, kept)
<1>1. /\ Len(rows) \in Nat /\ Len(more) \in Nat /\ DOMAIN rows = 1..Len(rows)
      /\ DOMAIN more = 1..Len(more) /\ DOMAIN all = 1..(Len(rows) + Len(more))
      /\ \A i \in 1..Len(rows) : all[i] = rows[i]
      /\ \A i \in (Len(rows) + 1)..(Len(rows) + Len(more)) : all[i] = more[i - Len(rows)]
  OBVIOUS
<1>2. Places(all, kept) = places
  <2>1. \A i \in (Len(rows) + 1)..(Len(rows) + Len(more)) : i - Len(rows) \in 1..Len(more)
    BY <1>1
  <2>2. \A i \in DOMAIN all : i \in DOMAIN rows \/ i \in (Len(rows) + 1)..(Len(rows) + Len(more))
    BY <1>1
  <2>3. DOMAIN rows \subseteq DOMAIN all
    BY <1>1
  <2> HIDE DEF all
  <2>4. QED
    BY <1>1, <2>1, <2>2, <2>3 DEF Places
<1>3. \A i \in places : all[i] = rows[i]
  BY <1>1 DEF Places
<1> HIDE DEF all
<1>4. Lists(bets, all, kept)
  BY <1>2, <1>3 DEF Lists
<1>5. QED
  BY <1>4 DEF all

(* And it is extended by rows that are kept.                                 *)
LEMMA ListsMore ==
  ASSUME NEW S, NEW kept, NEW bets \in Seq(S), NEW rows \in Seq(S), NEW more \in Seq(S),
         Lists(bets, rows, kept), \A i \in DOMAIN more : more[i] \in kept
  PROVE  Lists(bets \o more, rows \o more, kept)
<1> DEFINE all == rows \o more
           places == Places(rows, kept)
           n == Len(rows)
           k == Len(more)
<1>1. /\ n \in Nat /\ k \in Nat /\ DOMAIN rows = 1..n
      /\ DOMAIN more = 1..k /\ DOMAIN all = 1..(n + k)
      /\ \A i \in 1..n : all[i] = rows[i]
      /\ \A i \in 1..k : all[n + i] = more[i]
  <2>1. n \in Nat /\ k \in Nat /\ DOMAIN rows = 1..n /\ DOMAIN more = 1..k
    OBVIOUS
  <2>2. DOMAIN all = 1..(n + k) /\ \A i \in 1..n : all[i] = rows[i]
    OBVIOUS
  <2>3. \A i \in (n + 1)..(n + k) : all[i] = more[i - n]
    OBVIOUS
  <2>4. \A i \in 1..k : n + i \in (n + 1)..(n + k) /\ (n + i) - n = i
    BY <2>1
  <2> HIDE DEF all, n, k
  <2>5. QED
    BY <2>1, <2>2, <2>3, <2>4
<1> HIDE DEF all, n, k
<1>2. Places(all, kept) = places \union (n + 1)..(n + k)
  <2>1. \A i \in (n + 1)..(n + k) : i - n \in 1..k /\ i = n + (i - n)
    BY <1>1
  <2>2. \A i \in DOMAIN all : i \in 1..n \/ i \in (n + 1)..(n + k)
    BY <1>1
  <2>3. DOMAIN rows \subseteq DOMAIN all /\ (n + 1)..(n + k) \subseteq DOMAIN all
    BY <1>1
  <2>4. \A i \in (n + 1)..(n + k) : all[i] \in kept
    BY <1>1, <2>1
  <2>5. \A i \in 1..n : all[i] \in kept <=> rows[i] \in kept
    BY <1>1
  <2>6. QED
    BY <1>1, <2>2, <2>3, <2>4, <2>5 DEF Places
<1>3. IsFiniteSet(places) /\ Cardinality(places) = Len(bets) /\ Len(bets) \in Nat
  <2>1. places \subseteq 1..n /\ IsFiniteSet(1..n)
    BY <1>1, FS_Interval DEF Places
  <2>2. IsFiniteSet(places)
    BY <2>1, FS_Subset
  <2>3. QED
    BY <2>2 DEF Lists
<1> DEFINE every == places \union (n + 1)..(n + k)
<1>4. \A i \in 0..k : Cardinality(places \union (n + 1)..(n + i)) = Len(bets) + i
  <2> SUFFICES ASSUME NEW i \in 0..k
               PROVE  Cardinality(places \union (n + 1)..(n + i)) = Len(bets) + i
    OBVIOUS
  <2>1. n + 1 \in Int /\ n + i \in Int /\ (n + i) - (n + 1) + 1 = i /\ (n + 1 > n + i => i = 0)
    BY <1>1
  <2>2. IsFiniteSet((n + 1)..(n + i)) /\ Cardinality((n + 1)..(n + i)) = i
    BY <2>1, FS_Interval
  <2>3. places \intersect (n + 1)..(n + i) = {}
    BY <1>1 DEF Places
  <2>4. Cardinality(places \intersect (n + 1)..(n + i)) = 0
    BY <2>3, FS_EmptySet
  <2>5. Cardinality(places \union (n + 1)..(n + i))
          = Cardinality(places) + Cardinality((n + 1)..(n + i))
              - Cardinality(places \intersect (n + 1)..(n + i))
    BY <1>3, <2>2, FS_Union
  <2>6. QED
    BY <1>3, <2>2, <2>4, <2>5
<1>5. Len(bets \o more) = Len(bets) + k
  BY DEF k
<1>6. ASSUME NEW i \in places
      PROVE  /\ Turn(every, i) = Turn(places, i) /\ Turn(places, i) \in 1..Len(bets)
             /\ bets[Turn(places, i)] = all[i]
  <2> DEFINE upto == {j \in places : j <= i}
  <2>1. i \in 1..n /\ places \subseteq 1..n
    BY <1>1 DEF Places
  <2>2. {j \in every : j <= i} = upto
    BY <1>1, <2>1
  <2>3. upto \subseteq places /\ i \in upto
    BY <2>1
  <2>4. IsFiniteSet(upto) /\ Cardinality(upto) <= Cardinality(places)
    BY <1>3, <2>3, FS_Subset
  <2>5. Cardinality(upto) \in Nat
    BY <2>4, FS_CardinalityType
  <2>6. Cardinality(upto) # 0
    BY <2>3, <2>4, FS_EmptySet
  <2>7. bets[Turn(places, i)] = rows[i]
    BY DEF Lists
  <2>8. Turn(every, i) = Cardinality(upto) /\ Turn(places, i) = Cardinality(upto)
    BY <2>2 DEF Turn
  <2>9. Cardinality(upto) \in 1..Len(bets)
    BY <1>3, <2>4, <2>5, <2>6
  <2>10. QED
    BY <1>1, <2>1, <2>7, <2>8, <2>9
<1>7. ASSUME NEW i \in 1..k
      PROVE  Turn(every, n + i) = Len(bets) + i
  <2>1. places \subseteq 1..n
    BY <1>1 DEF Places
  <2>2. {j \in every : j <= n + i} = places \union (n + 1)..(n + i)
    BY <1>1, <2>1
  <2>3. Turn(every, n + i) = Cardinality({j \in every : j <= n + i})
    BY DEF Turn
  <2>4. Turn(every, n + i) = Cardinality(places \union (n + 1)..(n + i))
    <3> HIDE DEF every, places
    <3> QED BY <2>2, <2>3
  <2>5. Cardinality(places \union (n + 1)..(n + i)) = Len(bets) + i
    <3>1. i \in 0..k
      BY <1>1
    <3> HIDE DEF every, places
    <3> QED BY <1>4, <3>1
  <2>6. QED
    <3> HIDE DEF every, places
    <3> QED BY <2>4, <2>5
<1>8. /\ \A i \in 1..Len(bets) : (bets \o more)[i] = bets[i]
      /\ \A i \in 1..k : (bets \o more)[Len(bets) + i] = more[i]
  <2>1. \A i \in (Len(bets) + 1)..(Len(bets) + k) : (bets \o more)[i] = more[i - Len(bets)]
    BY DEF k
  <2>2. \A i \in 1..k : Len(bets) + i \in (Len(bets) + 1)..(Len(bets) + k)
                        /\ (Len(bets) + i) - Len(bets) = i
    BY <1>1, <1>3
  <2>3. \A i \in 1..Len(bets) : (bets \o more)[i] = bets[i]
    OBVIOUS
  <2>4. QED
    BY <2>1, <2>2, <2>3
<1>9. Len(bets \o more) = Cardinality(every)
  BY <1>1, <1>4, <1>5
<1>10. ASSUME NEW i \in every
       PROVE  (bets \o more)[Turn(every, i)] = all[i]
  <2> DEFINE both == bets \o more
  <2> HIDE DEF both, every
  <2>1. CASE i \in places
    BY <1>6, <1>8, <2>1 DEF both
  <2>2. CASE i \in (n + 1)..(n + k)
    <3>1. i - n \in 1..k /\ i = n + (i - n)
      BY <1>1, <2>2
    <3>2. Turn(every, i) = Len(bets) + (i - n) /\ all[i] = more[i - n]
      BY <1>1, <1>7, <3>1
    <3>3. QED
      BY <1>8, <3>1, <3>2 DEF both
  <2>3. QED
    BY <2>1, <2>2 DEF every, both
<1>11. QED
  <2> DEFINE both == bets \o more
  <2> HIDE DEF both, every
  <2>1. Len(both) = Cardinality(every) /\ Places(all, kept) = every
    BY <1>2, <1>9 DEF both, every
  <2>2. \A i \in every : both[Turn(every, i)] = all[i]
    BY <1>10 DEF both
  <2>3. Lists(both, all, kept)
    BY <2>1, <2>2 DEF Lists
  <2>4. QED
    BY <2>3 DEF both, all
-----------------------------------------------------------------------------
(* The inductive invariant *)

(* rows: what the session has inserted, then what it is about to; a batch is *)
(* upserts first, then inserts.                                              *)
Plans(s, rows) ==
  \E n \in 0..Len(writes[s]) :
    /\ Len(rows) = Len(ledger[s]) + Len(writes[s]) - n
    /\ \A i \in DOMAIN ledger[s] : rows[i] = ledger[s][i]
    /\ \A i \in 1..n : writes[s][i].op # "insert"
    /\ \A i \in (n + 1)..Len(writes[s]) :
         writes[s][i] = Insert(rows[Len(ledger[s]) + i - n])

(* The lists to return and the rows agree, unless the flush was refused.     *)
Returning(s, rows) ==
  phase[s] # "refused" => /\ Lists(matchBets[s], rows, MatchBets)
                          /\ Lists(propBets[s], rows, PropBets)

(* Rows about one match, and about no later one on the slate.                *)
Grouped(rows) ==
  \A i, j \in DOMAIN rows : i < j /\ Matchful(rows[i]) /\ Matchful(rows[j]) =>
    /\ stored[rows[i].match] <= stored[rows[j].match]
    /\ rows[i].match = rows[j].match =>
         \A l \in i..j : Matchful(rows[l]) => rows[l].match = rows[i].match

Behind(s, rows) ==
  \A i \in DOMAIN rows : Matchful(rows[i]) =>
    /\ rows[i].match \in Matches
    /\ \A k \in DOMAIN work[s].slate :
         /\ stored[rows[i].match] <= stored[work[s].slate[k]]
         /\ k >= 2 \/ pc[s] \in {"register", "sharp"} => rows[i].match # work[s].slate[k]
    /\ work[s].slate # <<>> /\ rows[i].match = Current(s) =>
         \A j \in DOMAIN rows : j >= i /\ Matchful(rows[j]) => rows[j].match = Current(s)

Trails(s) ==
  \E rows \in Seq(Entries) :
    Plans(s, rows) /\ Returning(s, rows) /\ Grouped(rows) /\ Behind(s, rows)

(* The slate is in the order of the committed kickoffs.                      *)
SlateSorted(s) ==
  work[s].slate # <<>> =>
    /\ \A m \in Matches : work[s].snapshot[m] = stored[m]
    /\ \A i, j \in DOMAIN work[s].slate : i < j =>
         /\ work[s].slate[i] # work[s].slate[j]
         /\ stored[work[s].slate[i]] <= stored[work[s].slate[j]]

(* Nothing is inserted, and nothing is to be returned, before the first      *)
(* provider has answered; nothing is left to flush after the answer.         *)
Bounded(s) ==
  /\ pc[s] \in Unstarted => ledger[s] = <<>> /\ matchBets[s] = <<>> /\ propBets[s] = <<>>
  /\ pc[s] = "answered" => writes[s] = <<>>
  /\ phase[s] = "refused" => pc[s] = "answered" /\ reply[s] # Success(kind[s])

(* A local quote, once inserted, is about the committed match again, and     *)
(* until then the upsert that makes it so comes first.                       *)
Upserted(s, m) ==
  \A i \in DOMAIN writes[s] :
    writes[s][i].op # "insert" /\ writes[s][i].row = m => writes[s][i].value = stored[m]

Restores(w, m) == w.op # "insert" /\ w.row = m /\ w.value = stored[m]

Restored(s) ==
  \A m \in Matches, k \in Markets :
    /\ Quote(m, k, Local) \in Rowset(s) => View(s, m) = stored[m] /\ Upserted(s, m)
    /\ \A i \in DOMAIN writes[s] : writes[s][i] = Insert(Quote(m, k, Local)) =>
         /\ Upserted(s, m)
         /\ View(s, m) = stored[m] \/ \E j \in 1..(i - 1) : Restores(writes[s][j], m)

(* A session holds versions of the matches it has been at, none of which     *)
(* kicks off after those ahead of it, and takes only the current one's.      *)
Climbs(s) ==
  /\ \A m \in Matches : own[s][m] # NoRow =>
       \A k \in DOMAIN work[s].slate : stored[m] <= stored[work[s].slate[k]]
  /\ \A i \in DOMAIN writes[s] :
       writes[s][i].op # "insert" /\ writes[s][i].row \in Matches =>
         work[s].slate # <<>> /\ writes[s][i].row = Current(s)

Results(s) == SlateSorted(s) /\ Bounded(s) /\ Trails(s) /\ Restored(s) /\ Climbs(s)

ResultInv == \A s \in Sessions : Results(s)

-----------------------------------------------------------------------------
(* What is planned *)

(* With nothing to flush, what is planned is what has been inserted.         *)
LEMMA NothingPlanned ==
  ASSUME Inv, NEW s \in Sessions, NEW rows \in Seq(Entries), writes[s] = <<>>
  PROVE  Plans(s, rows) <=> rows = ledger[s]
<1>1. ledger[s] \in Seq(Entries)
  BY DEF Inv, UowInv, UowTypeOK
<1>2. ASSUME Plans(s, rows) PROVE rows = ledger[s]
  <2>1. Len(rows) = Len(ledger[s]) /\ \A i \in DOMAIN ledger[s] : rows[i] = ledger[s][i]
    BY <1>1, <1>2 DEF Plans
  <2>2. QED
    BY <1>1, <2>1
<1>3. ASSUME rows = ledger[s] PROVE Plans(s, rows)
  <2>1. 0 \in 0..Len(writes[s]) /\ DOMAIN writes[s] = {} /\ Len(writes[s]) = 0
    OBVIOUS
  <2>2. QED
    BY <1>1, <1>3, <2>1 DEF Plans
<1>4. QED
  BY <1>2, <1>3

(* A batch adds its inserts to what is planned.                              *)
LEMMA IssuePlans ==
  ASSUME Inv, NEW s \in Sessions, NEW batch \in Seq(Requests), Issue(s, batch),
         NEW rows \in Seq(Entries), Plans(s, rows),
         NEW entries \in Seq(Entries), NEW n \in 0..Len(batch), Len(batch) = n + Len(entries),
         \A i \in 1..n : batch[i].op # "insert",
         \A i \in DOMAIN entries : batch[n + i] = Insert(entries[i])
  PROVE  rows = ledger[s] /\ Plans(s, rows \o entries)'
<1>1. writes[s] = <<>> /\ writes'[s] = batch /\ ledger' = ledger
  BY DEF Issue, Inv, UowInv, UowTypeOK
<1>2. rows = ledger[s]
  BY <1>1, NothingPlanned
<1> DEFINE all == rows \o entries
<1>3. /\ Len(rows) \in Nat /\ Len(entries) \in Nat /\ Len(all) = Len(rows) + Len(entries)
      /\ \A i \in DOMAIN rows : all[i] = rows[i]
      /\ \A i \in (Len(rows) + 1)..(Len(rows) + Len(entries)) : all[i] = entries[i - Len(rows)]
      /\ DOMAIN batch = 1..Len(batch) /\ DOMAIN entries = 1..Len(entries)
  OBVIOUS
<1> HIDE DEF all
<1>4. \A i \in (n + 1)..Len(batch) : batch[i] = Insert(all[Len(rows) + i - n])
  <2> SUFFICES ASSUME NEW i \in (n + 1)..Len(batch)
               PROVE  batch[i] = Insert(all[Len(rows) + i - n])
    OBVIOUS
  <2>1. i - n \in DOMAIN entries /\ n + (i - n) = i
    BY <1>3
  <2>2. Len(rows) + i - n \in (Len(rows) + 1)..(Len(rows) + Len(entries))
        /\ (Len(rows) + i - n) - Len(rows) = i - n
    BY <1>3, <2>1
  <2>3. all[Len(rows) + i - n] = entries[i - n]
    BY <1>3, <2>2
  <2>4. QED
    BY <2>1, <2>3
<1>5. n \in 0..Len(batch) /\ Len(all) = Len(rows) + Len(batch) - n
  BY <1>3
<1>6. Plans(s, all)'
  BY <1>1, <1>2, <1>3, <1>4, <1>5 DEF Plans
<1>7. QED
  BY <1>2, <1>6 DEF all

(* The first of the pending statements has been run, or was needless: either *)
(* way the session now reads what it said.                                   *)
Done(s) ==
  LET w == Head(writes[s])
  IN  /\ writes[s] # <<>> /\ writes'[s] = Tail(writes[s])
      /\ stored' = stored /\ phase' = phase
      /\ ledger'[s] = IF w.op = "insert" THEN Append(ledger[s], w.entry) ELSE ledger[s]
      /\ \A row \in Rows :
           /\ View(s, row)' = IF w.op # "insert" /\ w.row = row THEN w.value ELSE View(s, row)
           /\ own'[s][row] # NoRow => own[s][row] # NoRow \/ (w.op # "insert" /\ w.row = row)

(* The first of the pending statements is now an INSERT or an UPDATE.        *)
Rewritten(s) ==
  /\ UNCHANGED <<stored, phase, own, ledger>>
  /\ writes[s] # <<>> /\ writes'[s] \in Seq(Statements) /\ Len(writes'[s]) = Len(writes[s])
  /\ writes[s][1].op # "insert" /\ writes'[s][1].op # "insert"
  /\ writes'[s][1].row = writes[s][1].row /\ writes'[s][1].value = writes[s][1].value
  /\ \A i \in 2..Len(writes[s]) : writes'[s][i] = writes[s][i]

(* A statement is carried out in these steps.                                *)
LEMMA StatementsGoOn ==
  ASSUME Inv, NEW s \in Sessions, Get(s) \/ Flush(s)
  PROVE  Done(s) \/ Rewritten(s)
<1> DEFINE w == Head(writes[s])
<1>1. writes[s] # <<>> /\ writes[s] \in Seq(Statements) /\ w \in Statements /\ w = writes[s][1]
      /\ own \in [Sessions -> [Rows -> Values \union {NoRow}]]
  <2>1. writes[s] # <<>> /\ writes[s] \in Seq(Statements)
        /\ own \in [Sessions -> [Rows -> Values \union {NoRow}]]
    BY DEF Get, Flush, Inv, UowInv, UowTypeOK
  <2>2. QED
    BY <2>1
<1>2. w.op # "insert" => w.row \in Rows /\ w.value \in Values /\ w.value # NoRow
  BY <1>1, NoRowAssumption DEF Statements, Requests
<1>3. CASE Flush(s)
  <2>1. Run(s, w)
    BY <1>3, FlushRuns DEF Inv
  <2>2. stored' = stored /\ phase' = phase /\ writes'[s] = Tail(writes[s])
        /\ ledger'[s] = IF w.op = "insert" THEN Append(ledger[s], w.entry) ELSE ledger[s]
    BY <2>1 DEF Run, Inv, UowInv, UowTypeOK
  <2>3. \A row \in Rows : own'[s][row] = IF w.op # "insert" /\ w.row = row THEN w.value
                                                                        ELSE own[s][row]
    <3>1. CASE w.op = "insert"
      BY <2>1, <3>1 DEF Run
    <3>2. CASE w.op # "insert"
      <4>1. own' = [own EXCEPT ![s] = [@ EXCEPT ![w.row] = w.value]]
        BY <2>1, <3>2 DEF Run
      <4>2. QED
        BY <1>1, <1>2, <3>2, <4>1
    <3>3. QED
      BY <3>1, <3>2
  <2>4. \A row \in Rows :
           View(s, row)' = IF w.op # "insert" /\ w.row = row THEN w.value ELSE View(s, row)
    BY <1>2, <2>2, <2>3 DEF View
  <2>5. QED
    BY <1>1, <2>2, <2>3, <2>4 DEF Done
<1>4. CASE Get(s)
  <2>1. UNCHANGED <<stored, phase, own, ledger>> /\ w.op = "upsert"
        /\ Tail(writes[s]) \in Seq(Requests)
    BY <1>4, GetDecides DEF Get, Inv
  <2>2. \A row \in Rows : View(s, row)' = View(s, row)
    BY <2>1 DEF View
  <2>3. CASE View(s, w.row) = w.value /\ writes'[s] = Tail(writes[s])
    BY <1>1, <2>1, <2>2, <2>3 DEF Done
  <2>4. ASSUME NEW x \in Statements, writes'[s] = <<x>> \o Tail(writes[s]),
               x.op \in {"create", "update"}, x.row = w.row, x.value = w.value
        PROVE  Rewritten(s)
    <3> DEFINE new == <<x>> \o Tail(writes[s])
    <3>1. /\ new \in Seq(Statements) /\ Len(new) = Len(writes[s]) /\ new[1] = x
          /\ \A i \in 2..Len(writes[s]) : new[i] = writes[s][i]
      BY <1>1, <2>1
    <3> HIDE DEF new
    <3>2. writes'[s] = new
      BY <2>4 DEF new
    <3>3. QED
      BY <1>1, <2>1, <2>4, <3>1, <3>2 DEF Rewritten
  <2>5. QED
    BY <1>4, <2>3, <2>4, GetDecides DEF Inv
<1>5. QED
  BY <1>3, <1>4

(* Statements run or needless are as planned.                                *)
LEMMA DonePlans ==
  ASSUME Inv, NEW s \in Sessions, Done(s), NEW rows \in Seq(Entries), Plans(s, rows)
  PROVE  Plans(s, rows)'
<1>1. /\ writes[s] \in Seq(Statements) /\ writes[s] # <<>> /\ ledger[s] \in Seq(Entries)
      /\ writes'[s] = Tail(writes[s])
  BY DEF Done, Inv, UowInv, UowTypeOK
<1>2. PICK n \in 0..Len(writes[s]) :
        /\ Len(rows) = Len(ledger[s]) + Len(writes[s]) - n
        /\ \A i \in DOMAIN ledger[s] : rows[i] = ledger[s][i]
        /\ \A i \in 1..n : writes[s][i].op # "insert"
        /\ \A i \in (n + 1)..Len(writes[s]) :
             writes[s][i] = Insert(rows[Len(ledger[s]) + i - n])
  BY DEF Plans
<1> DEFINE k == Len(writes[s])
           l == Len(ledger[s])
<1>3. PICK w \in Statements : w = Head(writes[s]) /\ w = writes[s][1]
  BY <1>1
<1>4. k \in Nat /\ k >= 1 /\ l \in Nat /\ DOMAIN ledger[s] = 1..l
  BY <1>1
<1>5. /\ Len(writes'[s]) = k - 1 /\ \A i \in 1..(k - 1) : writes'[s][i] = writes[s][i + 1]
  BY <1>1
<1>6. Len(rows) = l + k - n /\ n \in 0..k
  BY <1>2
<1> HIDE DEF k, l
<1>7. CASE w.op # "insert"
  <2>1. ledger'[s] = ledger[s]
    BY <1>3, <1>7 DEF Done
  <2>2. n # 0
    <3> SUFFICES ASSUME n = 0 PROVE FALSE
      OBVIOUS
    <3>1. 1 \in (n + 1)..k
      BY <1>4
    <3>2. \E e : writes[s][1] = Insert(e)
      BY <1>2, <3>1 DEF k
    <3>3. QED
      BY <1>3, <1>7, <3>2 DEF Insert
  <2>3. n - 1 \in 0..(k - 1) /\ Len(rows) = l + (k - 1) - (n - 1)
    BY <1>4, <1>6, <2>2
  <2>4. ASSUME NEW i \in 1..(n - 1) PROVE writes'[s][i].op # "insert"
    <3>1. i + 1 \in 1..n /\ i \in 1..(k - 1)
      BY <1>4, <1>6
    <3>2. QED
      BY <1>2, <1>5, <3>1
  <2>5. ASSUME NEW i \in ((n - 1) + 1)..(k - 1)
        PROVE  writes'[s][i] = Insert(rows[l + i - (n - 1)])
    <3>1. i + 1 \in (n + 1)..k /\ i \in 1..(k - 1) /\ l + (i + 1) - n = l + i - (n - 1)
      BY <1>4, <1>6, <2>2
    <3>2. writes[s][i + 1] = Insert(rows[l + (i + 1) - n])
      BY <1>2, <3>1 DEF k, l
    <3>3. QED
      BY <1>5, <3>1, <3>2
  <2> DEFINE m == n - 1
  <2>6. m \in 0..Len(writes'[s]) /\ Len(rows) = Len(ledger'[s]) + Len(writes'[s]) - m
    BY <1>5, <2>1, <2>3 DEF l
  <2>7. \A i \in DOMAIN ledger'[s] : rows[i] = ledger'[s][i]
    BY <1>2, <2>1
  <2>8. \A i \in 1..m : writes'[s][i].op # "insert"
    BY <2>4
  <2>9. \A i \in (m + 1)..Len(writes'[s]) : writes'[s][i] = Insert(rows[Len(ledger'[s]) + i - m])
    BY <1>5, <2>1, <2>5 DEF l
  <2> HIDE DEF m
  <2>10. QED
    BY <2>6, <2>7, <2>8, <2>9 DEF Plans
<1>8. CASE w.op = "insert"
  <2>1. ledger'[s] = Append(ledger[s], w.entry)
    BY <1>3, <1>8 DEF Done
  <2>2. n = 0
    <3> SUFFICES ASSUME n # 0 PROVE FALSE
      OBVIOUS
    <3>1. 1 \in 1..n
      BY <1>6, <1>4
    <3>2. QED
      BY <1>2, <1>3, <1>8, <3>1
  <2>3. w = Insert(rows[l + 1])
    <3>1. 1 \in (n + 1)..k /\ l + 1 - n = l + 1
      BY <1>4, <2>2
    <3>2. writes[s][1] = Insert(rows[l + 1 - n])
      BY <1>2, <3>1 DEF k, l
    <3>3. QED
      BY <1>3, <3>1, <3>2
  <2>4. w.entry \in Entries /\ w.entry = rows[l + 1]
    BY <1>3, <1>8, <2>3 DEF Statements, Requests, Insert
  <2>5. /\ Len(ledger'[s]) = l + 1 /\ DOMAIN ledger'[s] = 1..(l + 1)
        /\ \A i \in 1..l : ledger'[s][i] = ledger[s][i]
        /\ ledger'[s][l + 1] = w.entry
    BY <1>1, <2>1, <2>4 DEF l
  <2>6. 0 \in 0..(k - 1) /\ Len(rows) = (l + 1) + (k - 1) - 0
    BY <1>4, <1>6, <2>2
  <2>7. \A i \in DOMAIN ledger'[s] : rows[i] = ledger'[s][i]
    <3>1. \A i \in 1..(l + 1) : i \in 1..l \/ i = l + 1
      BY <1>4
    <3>2. QED
      BY <1>2, <1>4, <2>4, <2>5, <3>1
  <2>8. ASSUME NEW i \in (0 + 1)..(k - 1)
        PROVE  writes'[s][i] = Insert(rows[(l + 1) + i - 0])
    <3>1. i + 1 \in (n + 1)..k /\ i \in 1..(k - 1) /\ l + (i + 1) - n = (l + 1) + i - 0
      BY <1>4, <2>2
    <3>2. writes[s][i + 1] = Insert(rows[l + (i + 1) - n])
      BY <1>2, <3>1 DEF k, l
    <3>3. QED
      BY <1>5, <3>1, <3>2
  <2>9. \A i \in 1..0 : writes'[s][i].op # "insert"
    OBVIOUS
  <2>10. QED
    BY <1>5, <2>5, <2>6, <2>7, <2>8, <2>9 DEF Plans
<1>9. QED
  BY <1>7, <1>8

(* So are statements that a get has decided on.                              *)
LEMMA RewrittenPlans ==
  ASSUME Inv, NEW s \in Sessions, Rewritten(s), NEW rows \in Seq(Entries), Plans(s, rows)
  PROVE  Plans(s, rows)'
<1>1. PICK n \in 0..Len(writes[s]) :
        /\ Len(rows) = Len(ledger[s]) + Len(writes[s]) - n
        /\ \A i \in DOMAIN ledger[s] : rows[i] = ledger[s][i]
        /\ \A i \in 1..n : writes[s][i].op # "insert"
        /\ \A i \in (n + 1)..Len(writes[s]) :
             writes[s][i] = Insert(rows[Len(ledger[s]) + i - n])
  BY DEF Plans
<1> DEFINE k == Len(writes[s])
<1>2. k \in Nat /\ k >= 1 /\ writes[s][1].op # "insert" /\ writes'[s][1].op # "insert"
      /\ ledger' = ledger /\ Len(writes'[s]) = k
      /\ \A i \in 2..k : writes'[s][i] = writes[s][i]
  <2>1. writes[s] \in Seq(Statements) /\ writes[s] # <<>>
    BY DEF Inv, UowInv, UowTypeOK, Rewritten
  <2>2. QED
    BY <2>1 DEF Rewritten
<1> HIDE DEF k
<1>3. n # 0
  <2> SUFFICES ASSUME n = 0 PROVE FALSE
    OBVIOUS
  <2>1. 1 \in (n + 1)..k
    BY <1>2
  <2>2. \E e : writes[s][1] = Insert(e)
    BY <1>1, <2>1 DEF k
  <2>3. QED
    BY <1>2, <2>2 DEF Insert
<1>4. n \in 0..k /\ (\A i \in 1..n : i = 1 \/ i \in 2..k) /\ \A i \in (n + 1)..k : i \in 2..k
  <2>1. n \in 0..k
    BY DEF k
  <2>2. QED
    BY <1>2, <1>3, <2>1
<1>5. \A i \in 1..n : writes'[s][i].op # "insert"
  BY <1>1, <1>2, <1>4
<1>6. \A i \in (n + 1)..k : writes'[s][i] = Insert(rows[Len(ledger[s]) + i - n])
  BY <1>1, <1>2, <1>4 DEF k
<1>7. QED
  BY <1>1, <1>2, <1>5, <1>6 DEF Plans, k

-----------------------------------------------------------------------------
(* Match by match *)

(* The matches of a slate have committed kickoffs.                           *)
LEMMA SlateKickoffs ==
  ASSUME Inv, NEW s \in Sessions, SlateSorted(s), work[s].slate # <<>>
  PROVE  /\ work[s].slate \in Seq(Matches) /\ 1 \in DOMAIN work[s].slate
         /\ Current(s) = work[s].slate[1] /\ Current(s) \in Matches
         /\ \A k \in DOMAIN work[s].slate : stored[work[s].slate[k]] \in Int
         /\ stored[Current(s)] = Snapshot(s) /\ stored[Current(s)] \in Int
<1>1. work[s].slate \in Seq(Matches) /\ work[s].snapshot \in [Matches -> Kickoffs \union {NoRow}]
  BY DEF Inv, RunInv, RunTypeOK, Work
<1>2. /\ 1 \in DOMAIN work[s].slate /\ Current(s) = work[s].slate[1]
      /\ \A k \in DOMAIN work[s].slate : work[s].slate[k] \in Matches
  BY <1>1 DEF Current
<1>3. Kickoffs \subseteq Int
  BY TablesAssumption
<1>4. \A k \in DOMAIN work[s].slate : work[s].snapshot[work[s].slate[k]] \in Kickoffs
  BY <1>1, <1>2 DEF Inv, RunInv, SlateKnown
<1>5. \A k \in DOMAIN work[s].slate :
        stored[work[s].slate[k]] = work[s].snapshot[work[s].slate[k]]
  BY <1>2 DEF SlateSorted
<1>6. QED
  BY <1>1, <1>2, <1>3, <1>4, <1>5 DEF Snapshot

(* Rows about the current match keep the order, rows about none do anyway.   *)
LEMMA OrderedMore ==
  ASSUME Inv, NEW s \in Sessions, NEW rows \in Seq(Entries), NEW entries \in Seq(Entries),
         SlateSorted(s), Grouped(rows), Behind(s, rows),
         stored' = stored, work'[s].slate = work[s].slate,
         pc'[s] \in {"register", "sharp"} =>
           entries = <<>> /\ pc[s] \in {"register", "sharp"},
         \A i \in DOMAIN entries :
           Matchful(entries[i]) => work[s].slate # <<>> /\ entries[i].match = Current(s)
  PROVE  Grouped(rows \o entries)' /\ Behind(s, rows \o entries)'
<1> DEFINE all == rows \o entries
           n == Len(rows)
           c == Current(s)
<1>1. /\ n \in Nat /\ Len(entries) \in Nat /\ DOMAIN rows = 1..n
      /\ DOMAIN all = 1..(n + Len(entries)) /\ \A i \in 1..n : all[i] = rows[i]
  OBVIOUS
<1>2. \A i \in DOMAIN all : i \in 1..n \/
         (i > n /\ (Matchful(all[i]) => work[s].slate # <<>> /\ all[i].match = c))
  <2> SUFFICES ASSUME NEW i \in DOMAIN all, i > n, Matchful(all[i])
               PROVE  work[s].slate # <<>> /\ all[i].match = c
    BY <1>1
  <2>1. i - n \in DOMAIN entries /\ all[i] = entries[i - n]
    BY <1>1
  <2>2. QED
    BY <2>1
<1>3. work[s].slate # <<>> =>
        /\ c = work[s].slate[1] /\ 1 \in DOMAIN work[s].slate /\ c \in Matches
        /\ stored[c] \in Int /\ work[s].slate \in Seq(Matches)
  BY SlateKickoffs
<1>4. Current(s)' = c
  BY DEF Current
<1>5. (\E i \in DOMAIN all : i > n) => pc'[s] \notin {"register", "sharp"}
  BY <1>1
<1> HIDE DEF all, n, c
<1>6. ASSUME NEW i \in DOMAIN all, NEW j \in DOMAIN all, i <= j,
             Matchful(all[i]), Matchful(all[j]), all[i].match = c, work[s].slate # <<>>
      PROVE  all[j].match = c
  <2>1. CASE j \in 1..n
    <3>1. i \in 1..n
      BY <1>1, <1>6, <2>1
    <3>2. QED
      BY <1>1, <1>6, <2>1, <3>1 DEF Behind, c
  <2>2. CASE j > n
    BY <1>1, <1>2, <1>6, <2>2
  <2>3. QED
    BY <1>2, <2>1, <2>2
<1>7. Grouped(all)'
  <2> SUFFICES ASSUME NEW i \in DOMAIN all, NEW j \in DOMAIN all, i < j,
                      Matchful(all[i]), Matchful(all[j])
               PROVE  /\ stored[all[i].match] <= stored[all[j].match]
                      /\ all[i].match = all[j].match =>
                           \A l \in i..j : Matchful(all[l]) => all[l].match = all[i].match
    BY DEF Grouped, Matchful
  <2>1. CASE j \in 1..n
    <3>1. i \in 1..n /\ \A l \in i..j : l \in 1..n
      BY <1>1, <2>1
    <3>2. QED
      BY <1>1, <2>1, <3>1 DEF Grouped
  <2>2. CASE j > n
    <3>1. all[j].match = c /\ work[s].slate # <<>>
      BY <1>1, <1>2, <2>2
    <3>2. stored[all[i].match] <= stored[c]
      <4>1. CASE i \in 1..n
        BY <1>1, <1>3, <3>1, <4>1 DEF Behind
      <4>2. CASE i > n
        BY <1>1, <1>2, <1>3, <3>1, <4>2
      <4>3. QED
        BY <1>2, <4>1, <4>2
    <3>3. ASSUME all[i].match = c, NEW l \in i..j, Matchful(all[l]) PROVE all[l].match = c
      <4>1. l \in DOMAIN all /\ i <= l
        BY <1>1
      <4>2. QED
        BY <1>6, <3>1, <3>3, <4>1
    <3>4. QED
      BY <3>1, <3>2, <3>3
  <2>3. QED
    BY <1>2, <2>1, <2>2
<1>8. ASSUME NEW i \in DOMAIN all, Matchful(all[i])
      PROVE  /\ all[i].match \in Matches
             /\ \A k \in DOMAIN work[s].slate :
                  /\ stored[all[i].match] <= stored[work[s].slate[k]]
                  /\ k >= 2 \/ pc'[s] \in {"register", "sharp"} =>
                       all[i].match # work[s].slate[k]
  <2>1. CASE i \in 1..n
    BY <1>1, <1>8, <2>1 DEF Behind
  <2>2. CASE i > n
    <3>1. all[i].match = c /\ work[s].slate # <<>> /\ pc'[s] \notin {"register", "sharp"}
      BY <1>2, <1>5, <1>8, <2>2, <1>1
    <3>2. \A k \in DOMAIN work[s].slate : k = 1 \/ (1 < k /\ 1 \in DOMAIN work[s].slate)
      BY <1>3, <3>1
    <3>3. \A k \in DOMAIN work[s].slate : 1 < k => c # work[s].slate[k]
                                                   /\ stored[c] <= stored[work[s].slate[k]]
      BY <1>3, <3>1 DEF SlateSorted
    <3>4. QED
      BY <1>3, <3>1, <3>2, <3>3
  <2>3. QED
    BY <1>2, <2>1, <2>2
<1>9. Behind(s, all)'
  <2>1. \A i \in DOMAIN all : Matchful(all[i]) /\ work[s].slate # <<>> /\ all[i].match = c =>
          \A j \in DOMAIN all : j >= i /\ Matchful(all[j]) => all[j].match = c
    BY <1>1, <1>6
  <2>2. QED
    BY <1>4, <1>8, <2>1 DEF Behind, Matchful
<1>10. QED
  BY <1>7, <1>9 DEF all

(* So do fewer rows.                                                         *)
LEMMA OrderedPrefix ==
  ASSUME Inv, NEW s \in Sessions, NEW rows \in Seq(Entries), Plans(s, rows),
         Grouped(rows), Behind(s, rows)
  PROVE  Grouped(ledger[s]) /\ Behind(s, ledger[s])
<1>1. ledger[s] \in Seq(Entries) /\ writes[s] \in Seq(Statements)
  BY DEF Inv, UowInv, UowTypeOK
<1>2. /\ DOMAIN ledger[s] \subseteq DOMAIN rows /\ DOMAIN ledger[s] = 1..Len(ledger[s])
      /\ \A i \in DOMAIN ledger[s] : rows[i] = ledger[s][i]
  <2>1. PICK n \in 0..Len(writes[s]) :
          /\ Len(rows) = Len(ledger[s]) + Len(writes[s]) - n
          /\ \A i \in DOMAIN ledger[s] : rows[i] = ledger[s][i]
    BY DEF Plans
  <2>2. /\ DOMAIN rows = 1..Len(rows) /\ DOMAIN ledger[s] = 1..Len(ledger[s])
        /\ Len(rows) \in Nat /\ Len(ledger[s]) \in Nat /\ Len(writes[s]) \in Nat
    BY <1>1
  <2>3. Len(ledger[s]) <= Len(rows)
    BY <2>1, <2>2
  <2>4. \A i \in 1..Len(ledger[s]) : i \in 1..Len(rows)
    BY <2>2, <2>3
  <2>5. DOMAIN ledger[s] \subseteq DOMAIN rows
    BY <2>2, <2>4
  <2>6. QED
    BY <2>1, <2>2, <2>5
<1>3. \A i, j \in DOMAIN ledger[s] : \A l \in i..j : l \in DOMAIN ledger[s]
  BY <1>1, <1>2
<1>4. Grouped(ledger[s])
  BY <1>2, <1>3 DEF Grouped
<1>5. Behind(s, ledger[s])
  BY <1>2 DEF Behind
<1>6. QED
  BY <1>4, <1>5

-----------------------------------------------------------------------------
(* The trail of a session *)

(* One list of bets, before and after a batch is issued.                     *)
Extends(old, new, entries, kept) ==
  \/ new = old \o entries /\ \A i \in DOMAIN entries : entries[i] \in kept
  \/ new = old /\ \A i \in DOMAIN entries : entries[i] \notin kept

LEMMA ExtendsLists ==
  ASSUME NEW S, NEW kept, NEW old \in Seq(S), NEW new, NEW rows \in Seq(S),
         NEW entries \in Seq(S), Lists(old, rows, kept), Extends(old, new, entries, kept)
  PROVE  Lists(new, rows \o entries, kept)
BY ListsPast, ListsMore DEF Extends

(* A batch is n upserts, then the entries. *)
Batches(batch, n, entries) ==
  /\ Len(batch) = n + Len(entries)
  /\ \A i \in 1..n : batch[i].op = "upsert"
  /\ \A i \in DOMAIN entries : batch[n + i] = Insert(entries[i])

(* The entries about a match are about the current one. *)
Pertains(s, entries) ==
  \A i \in DOMAIN entries :
    Matchful(entries[i]) => work[s].slate # <<>> /\ entries[i].match = Current(s)

(* A batch whose rows are about the current match, or about none.            *)
LEMMA IssueTrails ==
  ASSUME Inv, NEW s \in Sessions, NEW batch \in Seq(Requests), Issue(s, batch),
         SlateSorted(s), Trails(s), work'[s].slate = work[s].slate,
         NEW entries \in Seq(Entries), NEW n \in 0..Len(batch), Batches(batch, n, entries),
         pc'[s] \in {"register", "sharp"} =>
           entries = <<>> /\ pc[s] \in {"register", "sharp"},
         Pertains(s, entries),
         Extends(matchBets[s], matchBets'[s], entries, MatchBets),
         Extends(propBets[s], propBets'[s], entries, PropBets)
  PROVE  Trails(s)'
<1>1. PICK rows \in Seq(Entries) :
        Plans(s, rows) /\ Returning(s, rows) /\ Grouped(rows) /\ Behind(s, rows)
  BY DEF Trails
<1> DEFINE all == rows \o entries
<1>2. all \in Seq(Entries)
  OBVIOUS
<1>3. Plans(s, all)'
  BY <1>1, IssuePlans DEF Batches
<1>4. stored' = stored /\ phase[s] = "open"
  BY DEF Issue
<1>5. Grouped(all)' /\ Behind(s, all)'
  BY <1>1, <1>4, OrderedMore DEF Pertains
<1>6. matchBets[s] \in Seq(Entries) /\ propBets[s] \in Seq(Entries)
  BY EntriesOfRun DEF Inv, RunInv, RunTypeOK
<1>7. Lists(matchBets'[s], all, MatchBets) /\ Lists(propBets'[s], all, PropBets)
  BY <1>1, <1>4, <1>6, ExtendsLists DEF Returning
<1>8. Returning(s, all)'
  BY <1>7 DEF Returning, Lists
<1> HIDE DEF all
<1>9. QED
  BY <1>2, <1>3, <1>5, <1>8 DEF Trails

(* A get or a flush.                                                         *)
LEMMA StatementTrails ==
  ASSUME Inv, NEW s \in Sessions, Done(s) \/ Rewritten(s), UNCHANGED runVars, Trails(s)
  PROVE  Trails(s)'
<1>1. PICK rows \in Seq(Entries) :
        Plans(s, rows) /\ Returning(s, rows) /\ Grouped(rows) /\ Behind(s, rows)
  BY DEF Trails
<1>2. stored' = stored /\ phase' = phase
  BY DEF Done, Rewritten
<1>3. Plans(s, rows)'
  BY <1>1, DonePlans, RewrittenPlans
<1>4. Grouped(rows)'
  BY <1>1, <1>2 DEF Grouped, Matchful
<1>5. Behind(s, rows)'
  BY <1>1, <1>2 DEF Behind, Matchful, runVars, Current
<1>6. Returning(s, rows)'
  BY <1>1, <1>2 DEF Returning, runVars, Lists
<1>7. QED
  BY <1>3, <1>4, <1>5, <1>6 DEF Trails

(* A step that leaves the session's rows and bets, and its slate, alone.     *)
LEMMA QuietTrails ==
  ASSUME Inv, NEW s \in Sessions, stored' = stored, Trails(s),
         ledger'[s] = ledger[s], writes'[s] = writes[s],
         phase[s] = "refused" => phase'[s] = "refused",
         matchBets'[s] = matchBets[s], propBets'[s] = propBets[s],
         work'[s].slate = work[s].slate,
         pc'[s] \in {"register", "sharp"} => pc[s] \in {"register", "sharp"}
  PROVE  Trails(s)'
<1>1. PICK rows \in Seq(Entries) :
        Plans(s, rows) /\ Returning(s, rows) /\ Grouped(rows) /\ Behind(s, rows)
  BY DEF Trails
<1>2. Plans(s, rows)'
  BY <1>1 DEF Plans
<1>3. Grouped(rows)'
  BY <1>1 DEF Grouped, Matchful
<1>4. Behind(s, rows)'
  BY <1>1 DEF Behind, Matchful, Current
<1>5. Returning(s, rows)'
  BY <1>1 DEF Returning, Lists
<1>6. QED
  BY <1>2, <1>3, <1>4, <1>5 DEF Trails

(* A batch that the database refuses.                                        *)
LEMMA RefuseTrails ==
  ASSUME Inv, NEW s \in Sessions, Refuse(s), Trails(s), work' = work, pc'[s] = "answered"
  PROVE  Trails(s)'
<1>1. PICK rows \in Seq(Entries) :
        Plans(s, rows) /\ Returning(s, rows) /\ Grouped(rows) /\ Behind(s, rows)
  BY DEF Trails
<1>2. ledger[s] \in Seq(Entries) /\ phase'[s] = "refused"
  BY DEF Refuse, Fail, Inv, UowInv, UowTypeOK
<1>3. stored' = stored /\ ledger' = ledger /\ writes'[s] = <<>>
  BY DEF Refuse, Fail, Inv, UowInv, UowTypeOK
<1>4. Grouped(ledger[s]) /\ Behind(s, ledger[s])
  BY <1>1, OrderedPrefix
<1> DEFINE rest == ledger[s]
<1>5. Grouped(rest)'
  BY <1>3, <1>4 DEF Grouped, Matchful
<1>6. Behind(s, rest)'
  BY <1>3, <1>4 DEF Behind, Matchful, Current
<1>7. Plans(s, rest)'
  <2>1. 0 \in 0..Len(<<>>) /\ Len(rest) = Len(rest) + Len(<<>>) - 0 /\ Len(<<>>) = 0
    BY <1>2
  <2>2. QED
    BY <1>3, <2>1 DEF Plans
<1>8. Returning(s, rest)'
  BY <1>2 DEF Returning
<1>9. rest' \in Seq(Entries) /\ rest' = rest
  BY <1>2, <1>3
<1>10. QED
  BY <1>5, <1>6, <1>7, <1>8, <1>9 DEF Trails

(* A session without rows and without bets.                                  *)
LEMMA EmptyTrails ==
  ASSUME NEW s \in Sessions, ledger[s] = <<>>, writes[s] = <<>>,
         matchBets[s] = <<>>, propBets[s] = <<>>
  PROVE  Trails(s)
<1>1. Plans(s, <<>>)
  <2>1. 0 \in 0..Len(<<>>) /\ Len(<<>>) = Len(<<>>) + Len(<<>>) - 0 /\ Len(<<>>) = 0
    OBVIOUS
  <2>2. QED
    BY <2>1 DEF Plans
<1>2. Returning(s, <<>>)
  BY ListsNothing DEF Returning
<1>3. Grouped(<<>>) /\ Behind(s, <<>>)
  BY DEF Grouped, Behind
<1>4. <<>> \in Seq(Entries)
  OBVIOUS
<1>5. QED
  BY <1>1, <1>2, <1>3, <1>4 DEF Trails

-----------------------------------------------------------------------------
(* Local quotes and the kickoff of their match *)

LEMMA IssueRestored ==
  ASSUME Inv, NEW s \in Sessions, NEW batch \in Seq(Requests), Issue(s, batch), Restored(s),
         \A m \in Matches, k \in Markets :
           (\/ Quote(m, k, Local) \in Rowset(s)
            \/ \E i \in DOMAIN batch : batch[i] = Insert(Quote(m, k, Local)))
           => \A i \in DOMAIN batch :
                batch[i].op = "upsert" /\ batch[i].row = m => batch[i].value = stored[m],
         \A m \in Matches, k \in Markets, i \in DOMAIN batch :
           batch[i] = Insert(Quote(m, k, Local)) =>
             \E j \in 1..(i - 1) : batch[j] = Upsert(m, stored[m])
  PROVE  Restored(s)'
<1>1. /\ writes[s] = <<>> /\ writes'[s] = batch /\ ledger'[s] = ledger[s]
      /\ own' = own /\ stored' = stored
  BY DEF Issue, Inv, UowInv, UowTypeOK
<1>2. Rowset(s)' = Rowset(s) /\ \A m : View(s, m)' = View(s, m)
  BY <1>1 DEF Rowset, View
<1> SUFFICES ASSUME NEW m \in Matches, NEW k \in Markets
             PROVE  /\ Quote(m, k, Local) \in Rowset(s) =>
                         View(s, m) = stored[m] /\ Upserted(s, m)'
                    /\ \A i \in DOMAIN batch : batch[i] = Insert(Quote(m, k, Local)) =>
                         /\ Upserted(s, m)'
                         /\ \E j \in 1..(i - 1) : batch[j] = Upsert(m, stored[m])
  <2>1. \A m \in Matches : \A w : w = Upsert(m, stored[m]) => Restores(w, m)'
    BY <1>1 DEF Restores, Upsert
  <2>2. QED
    BY <1>1, <1>2, <2>1 DEF Restored
<1>3. Upserted(s, m)' <=> \A i \in DOMAIN batch :
         batch[i].op = "upsert" /\ batch[i].row = m => batch[i].value = stored[m]
  <2>1. \A i \in DOMAIN batch : batch[i] \in Requests
    OBVIOUS
  <2>2. \A i \in DOMAIN batch : batch[i].op = "upsert" <=> batch[i].op # "insert"
    BY <2>1 DEF Requests
  <2>3. QED
    BY <1>1, <2>2 DEF Upserted
<1>4. Quote(m, k, Local) \in Rowset(s) => View(s, m) = stored[m]
  BY DEF Restored
<1>5. QED
  BY <1>3, <1>4

(* A statement that is done with leaves the session reading what it said.    *)
LEMMA DoneRestored ==
  ASSUME Inv, NEW s \in Sessions, Done(s), Restored(s)
  PROVE  Restored(s)'
<1> DEFINE w == Head(writes[s])
<1>1. /\ writes[s] \in Seq(Statements) /\ writes[s] # <<>> /\ ledger[s] \in Seq(Entries)
      /\ writes'[s] = Tail(writes[s]) /\ stored' = stored
  BY DEF Done, Inv, UowInv, UowTypeOK
<1>2. /\ w = writes[s][1] /\ 1 \in DOMAIN writes[s] /\ w \in Statements
      /\ \A i \in DOMAIN writes'[s] :
           i + 1 \in DOMAIN writes[s] /\ writes'[s][i] = writes[s][i + 1] /\ i \in Nat
  BY <1>1
<1> SUFFICES ASSUME NEW m \in Matches, NEW k \in Markets
             PROVE  /\ Quote(m, k, Local) \in Rowset(s)' =>
                         View(s, m)' = stored[m] /\ Upserted(s, m)'
                    /\ \A i \in DOMAIN writes'[s] : writes'[s][i] = Insert(Quote(m, k, Local)) =>
                         /\ Upserted(s, m)'
                         /\ \/ View(s, m)' = stored[m]
                            \/ \E j \in 1..(i - 1) : Restores(writes'[s][j], m)
  <2>1. \A m \in Matches : \A j : Restores(writes[s][j], m)' <=> Restores(writes'[s][j], m)
    BY <1>1 DEF Restores
  <2>2. QED
    BY <1>1, <2>1 DEF Restored
<1> DEFINE q == Quote(m, k, Local)
<1>3. Upserted(s, m) => Upserted(s, m)'
  BY <1>1, <1>2 DEF Upserted
<1>4. View(s, m)' = IF w.op # "insert" /\ w.row = m THEN w.value ELSE View(s, m)
  BY Keys DEF Done
<1>5. Upserted(s, m) /\ View(s, m) = stored[m] => View(s, m)' = stored[m]
  BY <1>2, <1>4 DEF Upserted
<1>6. q \in Rowset(s)' => q \in Rowset(s) \/ w = Insert(q)
  <2>1. CASE w.op # "insert"
    <3>1. ledger'[s] = ledger[s]
      BY <2>1 DEF Done
    <3>2. QED
      BY <3>1 DEF Rowset
  <2>2. CASE w.op = "insert"
    <3>1. ledger'[s] = Append(ledger[s], w.entry)
      BY <2>2 DEF Done
    <3>2. w.entry \in Entries /\ w = Insert(w.entry)
      BY <1>2, <2>2 DEF Statements, Requests, Insert
    <3>3. /\ DOMAIN ledger[s] = 1..Len(ledger[s]) /\ Len(ledger[s]) \in Nat
          /\ DOMAIN ledger'[s] = 1..(Len(ledger[s]) + 1)
          /\ \A i \in 1..Len(ledger[s]) : ledger'[s][i] = ledger[s][i]
          /\ ledger'[s][Len(ledger[s]) + 1] = w.entry
      BY <1>1, <3>1, <3>2
    <3>4. \A i \in DOMAIN ledger'[s] : i \in DOMAIN ledger[s] \/ i = Len(ledger[s]) + 1
      BY <3>3
    <3>5. \A row \in Rowset(s)' : row \in Rowset(s) \/ row = w.entry
      BY <3>3, <3>4 DEF Rowset
    <3>6. QED
      BY <3>2, <3>5
  <2>3. QED
    BY <2>1, <2>2
<1>7. w = Insert(q) => Upserted(s, m) /\ View(s, m) = stored[m]
  <2> SUFFICES ASSUME w = Insert(q) PROVE Upserted(s, m) /\ View(s, m) = stored[m]
    OBVIOUS
  <2>1. Upserted(s, m) /\ (View(s, m) = stored[m]
                           \/ \E j \in 1..(1 - 1) : Restores(writes[s][j], m))
    BY <1>2 DEF Restored
  <2>2. QED
    BY <2>1
<1>8. q \in Rowset(s) => Upserted(s, m) /\ View(s, m) = stored[m]
  BY DEF Restored
<1>9. ASSUME NEW i \in DOMAIN writes'[s], writes'[s][i] = Insert(q)
      PROVE  /\ Upserted(s, m)'
             /\ View(s, m)' = stored[m] \/ \E j \in 1..(i - 1) : Restores(writes'[s][j], m)
  <2>1. i + 1 \in DOMAIN writes[s] /\ writes[s][i + 1] = Insert(q) /\ (i + 1) - 1 = i
    BY <1>2, <1>9
  <2>2. /\ Upserted(s, m)
        /\ \/ View(s, m) = stored[m]
           \/ \E j \in 1..i : Restores(writes[s][j], m)
    BY <2>1 DEF Restored
  <2>3. ASSUME NEW j \in 1..i, Restores(writes[s][j], m)
        PROVE  View(s, m)' = stored[m] \/ \E l \in 1..(i - 1) : Restores(writes'[s][l], m)
    <3>1. CASE j = 1
      BY <1>2, <1>4, <2>3, <3>1 DEF Restores
    <3>2. CASE j # 1
      <4>1. j - 1 \in 1..(i - 1) /\ (j - 1) + 1 = j /\ j - 1 \in DOMAIN writes'[s]
        BY <1>1, <1>2, <3>2
      <4>2. writes'[s][j - 1] = writes[s][j]
        BY <1>2, <4>1
      <4>3. QED
        BY <2>3, <4>1, <4>2
    <3>3. QED
      BY <3>1, <3>2
  <2>4. QED
    BY <1>3, <1>5, <2>2, <2>3
<1>10. QED
  BY <1>3, <1>5, <1>6, <1>7, <1>8, <1>9

(* One that a get has decided on still says the same.                        *)
LEMMA RewrittenRestored ==
  ASSUME Inv, NEW s \in Sessions, Rewritten(s), Restored(s)
  PROVE  Restored(s)'
<1>1. /\ DOMAIN writes'[s] = DOMAIN writes[s] /\ stored' = stored
      /\ writes[s][1].op # "insert" /\ writes'[s][1].op # "insert"
      /\ writes'[s][1].row = writes[s][1].row /\ writes'[s][1].value = writes[s][1].value
      /\ \A i \in DOMAIN writes[s] : i = 1 \/ writes'[s][i] = writes[s][i]
  <2>1. writes[s] \in Seq(Statements) /\ writes'[s] \in Seq(Statements)
    BY DEF Rewritten, Inv, UowInv, UowTypeOK
  <2>2. QED
    BY <2>1 DEF Rewritten
<1>2. Rowset(s)' = Rowset(s) /\ \A m : View(s, m)' = View(s, m)
  BY DEF Rewritten, Rowset, View
<1>3. \A i \in DOMAIN writes[s], e \in Entries :
         writes'[s][i] = Insert(e) => writes[s][i] = Insert(e)
  BY <1>1 DEF Insert
<1>4. \A m : Upserted(s, m) => Upserted(s, m)'
  BY <1>1 DEF Upserted
<1>5. \A m \in Matches : \A j \in DOMAIN writes[s] :
         Restores(writes[s][j], m) => Restores(writes[s][j], m)'
  BY <1>1 DEF Restores
<1> SUFFICES ASSUME NEW m \in Matches, NEW k \in Markets
             PROVE  /\ Quote(m, k, Local) \in Rowset(s)' =>
                         View(s, m)' = stored'[m] /\ Upserted(s, m)'
                    /\ \A i \in DOMAIN writes'[s] : writes'[s][i] = Insert(Quote(m, k, Local)) =>
                         /\ Upserted(s, m)'
                         /\ \/ View(s, m)' = stored'[m]
                            \/ \E j \in 1..(i - 1) : Restores(writes[s][j], m)'
  BY DEF Restored
<1>6. Quote(m, k, Local) \in Rowset(s)' => View(s, m)' = stored'[m] /\ Upserted(s, m)'
  BY <1>1, <1>2, <1>4 DEF Restored
<1>7. ASSUME NEW i \in DOMAIN writes'[s], writes'[s][i] = Insert(Quote(m, k, Local))
      PROVE  /\ Upserted(s, m)'
             /\ View(s, m)' = stored'[m] \/ \E j \in 1..(i - 1) : Restores(writes[s][j], m)'
  <2>1. writes[s][i] = Insert(Quote(m, k, Local)) /\ i \in DOMAIN writes[s]
    BY <1>1, <1>3, <1>7, EntriesOfRun
  <2>2. Upserted(s, m) /\ (View(s, m) = stored[m] \/ \E j \in 1..(i - 1) : Restores(writes[s][j], m))
    BY <2>1 DEF Restored
  <2>3. 1..(i - 1) \subseteq DOMAIN writes[s]
    BY <2>1 DEF Inv, UowInv, UowTypeOK
  <2>4. QED
    BY <1>1, <1>2, <1>4, <1>5, <2>2, <2>3
<1>8. QED
  BY <1>6, <1>7

LEMMA QuietRestored ==
  ASSUME NEW s \in Sessions, Restored(s), stored' = stored, own'[s] = own[s],
         ledger'[s] = ledger[s], writes'[s] = writes[s] \/ writes'[s] = <<>>
  PROVE  Restored(s)'
<1>1. Rowset(s)' = Rowset(s) /\ \A m : View(s, m)' = View(s, m)
  BY DEF Rowset, View
<1>2. \A m : Upserted(s, m) => Upserted(s, m)'
  BY DEF Upserted
<1>3. writes'[s] = writes[s] =>
         \A m \in Matches : \A j : Restores(writes[s][j], m) => Restores(writes[s][j], m)'
  BY DEF Restores
<1>4. CASE writes'[s] = writes[s]
  BY <1>1, <1>2, <1>3, <1>4 DEF Restored
<1>5. CASE writes'[s] = <<>>
  BY <1>1, <1>2, <1>5 DEF Restored
<1>6. QED
  BY <1>4, <1>5

LEMMA EmptyRestored ==
  ASSUME NEW s \in Sessions, ledger[s] = <<>>, writes[s] = <<>>
  PROVE  Restored(s)
BY DEF Restored, Rowset

-----------------------------------------------------------------------------
(* The order in which a session takes matches *)

LEMMA QuietClimbs ==
  ASSUME NEW s \in Sessions, Climbs(s), stored' = stored, own'[s] = own[s],
         work'[s].slate = work[s].slate, writes'[s] = writes[s] \/ writes'[s] = <<>>
  PROVE  Climbs(s)'
BY DEF Climbs, Current

LEMMA EmptyClimbs ==
  ASSUME NEW s \in Sessions, own'[s] = Nothing, writes'[s] = <<>>
  PROVE  Climbs(s)'
BY Keys DEF Climbs, Nothing

LEMMA StatementClimbs ==
  ASSUME Inv, NEW s \in Sessions, Done(s) \/ Rewritten(s), UNCHANGED runVars,
         SlateSorted(s), Climbs(s)
  PROVE  Climbs(s)'
<1>1. work' = work /\ stored' = stored /\ Current(s)' = Current(s)
  BY DEF runVars, Done, Rewritten, Current
<1>2. writes[s] \in Seq(Statements) /\ writes[s] # <<>>
  BY DEF Done, Rewritten, Inv, UowInv, UowTypeOK
<1>3. ASSUME NEW m \in Matches, own'[s][m] # NoRow, NEW k \in DOMAIN work[s].slate
      PROVE  stored[m] <= stored[work[s].slate[k]]
  <2>1. CASE own[s][m] # NoRow
    BY <2>1 DEF Climbs
  <2>2. CASE own[s][m] = NoRow
    <3>1. Head(writes[s]).op # "insert" /\ Head(writes[s]).row = m
      BY <1>3, <2>2, Keys DEF Done, Rewritten
    <3>2. Head(writes[s]) = writes[s][1] /\ 1 \in DOMAIN writes[s]
      BY <1>2
    <3>3. work[s].slate # <<>> /\ m = Current(s)
      BY <3>1, <3>2 DEF Climbs
    <3>4. k \in Nat /\ k >= 1 /\ 1 \in DOMAIN work[s].slate /\ Current(s) = work[s].slate[1]
          /\ stored[work[s].slate[k]] \in Int
      BY <3>3, SlateKickoffs
    <3>5. QED
      BY <3>3, <3>4 DEF SlateSorted
  <2>3. QED
    BY <2>1, <2>2
<1>4. ASSUME NEW i \in DOMAIN writes'[s], writes'[s][i].op # "insert", writes'[s][i].row \in Matches
      PROVE  work[s].slate # <<>> /\ writes'[s][i].row = Current(s)
  <2>1. CASE Done(s)
    <3>1. i + 1 \in DOMAIN writes[s] /\ writes'[s][i] = writes[s][i + 1]
      BY <1>2, <2>1 DEF Done
    <3>2. QED
      BY <1>4, <3>1 DEF Climbs
  <2>2. CASE Rewritten(s)
    <3>1. i \in DOMAIN writes[s] /\ (i = 1 \/ i \in 2..Len(writes[s]))
      BY <1>2, <2>2 DEF Rewritten
    <3>2. writes[s][i].op # "insert" /\ writes[s][i].row = writes'[s][i].row
      BY <1>4, <2>2, <3>1 DEF Rewritten
    <3>3. QED
      BY <1>4, <3>1, <3>2 DEF Climbs
  <2>3. QED
    BY <2>1, <2>2
<1>5. QED
  BY <1>1, <1>3, <1>4 DEF Climbs

-----------------------------------------------------------------------------
(* Steps of the coroutine *)

(* A row's type tells bets from other rows.                                  *)
LEMMA KindsOfRows ==
  /\ \A bet \in MatchBets : bet.type = "bet" /\ Matchful(bet)
  /\ \A bet \in PropBets : bet.type = "prop" /\ Matchful(bet)
  /\ \A entry : entry.type = "bet" => entry \notin PropBets
  /\ \A entry : entry.type = "prop" => entry \notin MatchBets
  /\ \A entry : entry.type \notin {"bet", "prop"} => entry \notin MatchBets /\ entry \notin PropBets
<1>1. \A bet \in MatchBets : bet.type = "bet"
  BY DEF MatchBets, MatchBet
<1>2. \A bet \in PropBets : bet.type = "prop"
  BY DEF PropBets, PropBet
<1>3. QED
  BY <1>1, <1>2 DEF Matchful

LEMMA Layer ==
  ASSUME Inv, NEW s \in Sessions
  PROVE  /\ writes[s] \in Seq(Statements) /\ ledger[s] \in Seq(Entries)
         /\ work[s] \in Work /\ Matches \intersect (Players \union {Past, Sharp, Local}) = {}
BY DistinctAssumption DEF Inv, UowInv, UowTypeOK, RunInv, RunTypeOK

(* A step that issues nothing, within a match or to its answer.              *)
LEMMA QuietResults ==
  ASSUME Inv, NEW s \in Sessions, Results(s), UNCHANGED uowVars, phase[s] = "open",
         matchBets'[s] = matchBets[s], propBets'[s] = propBets[s],
         work'[s].slate = work[s].slate, work'[s].snapshot = work[s].snapshot,
         pc'[s] \notin Unstarted \union {"register", "sharp"},
         pc'[s] = "answered" => writes[s] = <<>>
  PROVE  Results(s)'
<1>1. stored' = stored /\ ledger'[s] = ledger[s] /\ writes'[s] = writes[s] /\ own'[s] = own[s]
      /\ phase'[s] = phase[s]
  BY DEF uowVars
<1>2. SlateSorted(s)'
  BY <1>1 DEF Results, SlateSorted
<1>3. Bounded(s)'
  BY <1>1 DEF Bounded
<1>4. Trails(s)'
  BY <1>1, QuietTrails DEF Results
<1>5. Restored(s)' /\ Climbs(s)'
  BY <1>1, QuietRestored, QuietClimbs DEF Results
<1>6. QED
  BY <1>2, <1>3, <1>4, <1>5 DEF Results

(* The upserts refresh no match but the current one, and that with its       *)
(* kickoff unless its sharp odds are being asked for; a local quote has one. *)
Refreshes(s, batch, n, entries) ==
  /\ \A i \in 1..n : batch[i].row \in Matches =>
       /\ work[s].slate # <<>> /\ batch[i].row = Current(s)
       /\ \/ batch[i].value = stored[Current(s)]
          \/ pc[s] = "sharp" /\ \A j \in DOMAIN entries, k \in Markets :
                                   entries[j] # Quote(Current(s), k, Local)
  /\ \A i \in DOMAIN entries, m \in Matches, k \in Markets :
       entries[i] = Quote(m, k, Local) => \E j \in 1..n : batch[j] = Upsert(m, stored[m])

(* A step that issues a batch within a match: n upserts, then the entries.   *)
LEMMA IssueResults ==
  ASSUME Inv, NEW s \in Sessions, Results(s),
         NEW batch \in Seq(Requests), Issue(s, batch),
         NEW entries \in Seq(Entries), NEW n \in 0..Len(batch), Batches(batch, n, entries),
         work'[s].slate = work[s].slate, work'[s].snapshot = work[s].snapshot,
         pc'[s] \notin Unstarted \union {"answered", "register"},
         pc'[s] = "sharp" => entries = <<>> /\ pc[s] = "register",
         Pertains(s, entries),
         Extends(matchBets[s], matchBets'[s], entries, MatchBets),
         Extends(propBets[s], propBets'[s], entries, PropBets),
         Refreshes(s, batch, n, entries)
  PROVE  Results(s)'
<1>1. /\ writes[s] = <<>> /\ writes'[s] = batch /\ ledger'[s] = ledger[s]
      /\ own' = own /\ stored' = stored /\ phase'[s] = "open"
  BY DEF Issue, Inv, UowInv, UowTypeOK
<1>2. SlateSorted(s) /\ Bounded(s) /\ Trails(s) /\ Restored(s)
  BY DEF Results
<1>3. SlateSorted(s)'
  BY <1>1, <1>2 DEF SlateSorted
<1>4. Bounded(s)'
  BY <1>1 DEF Bounded
<1>5. Trails(s)'
  BY <1>2, IssueTrails
<1>6. \A i \in DOMAIN batch : i \in Int
  OBVIOUS
<1>7. \A i \in DOMAIN batch : i \in 1..n \/ (i - n \in DOMAIN entries /\ n + (i - n) = i /\ n <= i - 1)
  BY DEF Batches
<1>8. ASSUME NEW i \in DOMAIN batch, NEW e, batch[i] = Insert(e)
      PROVE  i - n \in DOMAIN entries /\ e = entries[i - n] /\ n <= i - 1 /\ i \in Int
  <2>1. i \notin 1..n
    BY <1>8 DEF Insert, Batches
  <2>2. i - n \in DOMAIN entries /\ n + (i - n) = i /\ n <= i - 1
    BY <1>7, <2>1
  <2>3. batch[i] = Insert(entries[i - n])
    BY <2>2 DEF Batches
  <2>4. QED
    BY <1>6, <1>8, <2>2, <2>3, InsertIsOne
<1>9. ASSUME NEW i \in DOMAIN batch, batch[i].op = "upsert" PROVE i \in 1..n
  <2> SUFFICES ASSUME i - n \in DOMAIN entries, n + (i - n) = i PROVE FALSE
    BY <1>7
  <2>1. batch[i] = Insert(entries[i - n])
    BY DEF Batches
  <2>2. QED
    BY <1>9, <2>1 DEF Insert
<1>10. ASSUME NEW m \in Matches, NEW k \in Markets,
             \/ Quote(m, k, Local) \in Rowset(s)
             \/ \E i \in DOMAIN batch : batch[i] = Insert(Quote(m, k, Local)),
             NEW i \in DOMAIN batch, batch[i].op = "upsert", batch[i].row = m
      PROVE  batch[i].value = stored[m]
  <2>1. i \in 1..n /\ m = Current(s) /\ work[s].slate # <<>>
    BY <1>9, <1>10 DEF Refreshes
  <2>2. SUFFICES ASSUME pc[s] = "sharp", \A j \in DOMAIN entries : entries[j] # Quote(m, k, Local)
                 PROVE  FALSE
    BY <1>10, <2>1 DEF Refreshes
  <2>3. Quote(m, k, Local) \in Rowset(s)
    BY <1>8, <1>10, <2>2
  <2>4. PICK rows \in Seq(Entries) : Plans(s, rows) /\ Behind(s, rows)
    BY <1>2 DEF Trails
  <2>5. rows = ledger[s]
    BY <1>1, <2>4, NothingPlanned
  <2>6. PICK l \in DOMAIN rows : rows[l] = Quote(m, k, Local)
    BY <2>3, <2>5 DEF Rowset
  <2>7. Matchful(rows[l]) /\ rows[l].match = m
    BY <2>6 DEF Matchful, Quote
  <2>8. 1 \in DOMAIN work[s].slate /\ Current(s) = work[s].slate[1]
    BY <1>2, <2>1, SlateKickoffs
  <2>9. QED
    BY <2>1, <2>2, <2>4, <2>7, <2>8 DEF Behind
<1>11. ASSUME NEW m \in Matches, NEW k \in Markets, NEW i \in DOMAIN batch,
              batch[i] = Insert(Quote(m, k, Local))
       PROVE  \E j \in 1..(i - 1) : batch[j] = Upsert(m, stored[m])
  <2>1. i - n \in DOMAIN entries /\ entries[i - n] = Quote(m, k, Local) /\ n <= i - 1 /\ i \in Int
    BY <1>8, <1>11
  <2>2. PICK j \in 1..n : batch[j] = Upsert(m, stored[m])
    BY <2>1 DEF Refreshes
  <2>3. j \in 1..(i - 1)
    BY <2>1, <2>2
  <2>4. QED
    BY <2>2, <2>3
<1>12. Restored(s)'
  BY <1>2, <1>10, <1>11, IssueRestored
<1>13. Climbs(s)'
  <2>1. ASSUME NEW i \in DOMAIN batch, batch[i].op # "insert", batch[i].row \in Matches
        PROVE  work[s].slate # <<>> /\ batch[i].row = Current(s)
    <3>1. batch[i] \in Requests
      OBVIOUS
    <3>2. batch[i].op = "upsert"
      BY <2>1, <3>1 DEF Requests
    <3>3. i \in 1..n
      BY <1>9, <3>2
    <3>4. QED
      BY <2>1, <3>3 DEF Refreshes
  <2>2. QED
    BY <1>1, <2>1 DEF Results, Climbs, Current
<1>14. QED
  BY <1>3, <1>4, <1>5, <1>12, <1>13 DEF Results

(* A step that saves quotes or bets of the current match.                    *)
LEMMA SavingResults ==
  ASSUME Inv, NEW s \in Sessions, Results(s), work[s].slate # <<>>,
         NEW entries \in Seq(Entries), Issue(s, Saving(s, entries)),
         work'[s].slate = work[s].slate, work'[s].snapshot = work[s].snapshot,
         pc'[s] \notin Unstarted \union {"answered", "register", "sharp"},
         \A i \in DOMAIN entries : Matchful(entries[i]) /\ entries[i].match = Current(s),
         Extends(matchBets[s], matchBets'[s], entries, MatchBets),
         Extends(propBets[s], propBets'[s], entries, PropBets)
  PROVE  Results(s)'
<1> DEFINE batch == Saving(s, entries)
           first == Upsert(Current(s), Snapshot(s))
           second == Upsert(Local, Registered)
           inserts == [i \in 1..Len(entries) |-> Insert(entries[i])]
<1>1. batch \in Seq(Requests) /\ Issue(s, batch)
  BY SavingIssues
<1>2. stored[Current(s)] = Snapshot(s) /\ Current(s) \in Matches
  BY SlateKickoffs DEF Results
<1>3. CASE entries = <<>>
  <2>1. batch = <<>>
    BY <1>3 DEF Saving
  <2>2. 0 \in 0..Len(batch) /\ Len(batch) = 0 + Len(entries) /\ 1..0 = {} /\ DOMAIN entries = {}
    BY <1>3, <2>1
  <2> HIDE DEF batch
  <2>3. Batches(batch, 0, entries) /\ Pertains(s, entries) /\ Refreshes(s, batch, 0, entries)
    BY <2>2 DEF Batches, Pertains, Refreshes
  <2>4. QED
    BY <1>1, <1>3, <2>2, <2>3, IssueResults
<1>4. CASE entries # <<>>
  <2>1. batch = <<first, second>> \o inserts
    BY <1>4 DEF Saving
  <2>2. Len(entries) \in Nat /\ DOMAIN entries = 1..Len(entries)
        /\ inserts \in Seq({Insert(e) : e \in Entries}) /\ Len(inserts) = Len(entries)
    OBVIOUS
  <2>3. /\ Len(batch) = 2 + Len(entries) /\ batch[1] = first /\ batch[2] = second
        /\ \A i \in DOMAIN entries : batch[2 + i] = Insert(entries[i])
    <3> HIDE DEF first, second, batch
    <3> QED BY <2>1, <2>2
  <2>4. /\ 2 \in 0..Len(batch) /\ Local \notin Matches /\ 1..2 = {1, 2}
        /\ \A i \in DOMAIN entries, m \in Matches, k \in Markets :
             entries[i] = Quote(m, k, Local) => batch[1] = Upsert(m, stored[m])
    BY <1>2, <2>2, <2>3, Layer DEF Quote
  <2>5. \A i \in 1..2 : batch[i].op = "upsert"
    BY <2>3, <2>4 DEF Upsert
  <2>6. \A i \in 1..2 : batch[i].row \in Matches =>
          batch[i].row = Current(s) /\ batch[i].value = stored[Current(s)]
    BY <1>2, <2>3, <2>4 DEF Upsert
  <2> HIDE DEF batch, first, second, inserts
  <2>7. Batches(batch, 2, entries)
    BY <2>3, <2>5 DEF Batches
  <2>8. Pertains(s, entries)
    BY DEF Pertains
  <2>9. Refreshes(s, batch, 2, entries)
    BY <2>4, <2>6 DEF Refreshes
  <2>10. QED
    BY <1>1, <2>4, <2>7, <2>8, <2>9, IssueResults
<1>5. QED
  BY <1>3, <1>4

(* The next group is taken from the same match of the same slate. *)
LEMMA GroupKeepsSlate ==
  ASSUME work \in [Sessions -> Work], NEW s \in Sessions, NEW found, NextGroup(s, found)
  PROVE  work'[s].slate = work[s].slate /\ work'[s].snapshot = work[s].snapshot
  BY DEF NextGroup, Work

(* Answers that were awaited, and priced groups and props. *)
LEMMA QuietSteps ==
  ASSUME Inv, NEW s \in Sessions, Results(s),
         \/ \E played \in BOOLEAN : GetForms(s, played)
         \/ \E offers \in PropAnswers : GetPlayerProps(s, offers)
         \/ \E lineup \in Lineups : GetLineup(s, lineup)
         \/ \E injured \in Injuries : GetInjuries(s, injured)
         \/ PlayersDone(s) \/ SkipGroup(s) \/ SkipProp(s)
         \/ \E isValue \in BOOLEAN : DetectGroup(s, isValue)
  PROVE  Results(s)'
<1>1. work \in [Sessions -> Work] /\ pc \in [Sessions -> Steps]
  BY DEF Inv, RunInv, RunTypeOK
<1>2. /\ UNCHANGED uowVars /\ UNCHANGED <<matchBets, propBets>>
      /\ phase[s] = "open" /\ writes[s] = <<>>
  BY DEF GetForms, GetPlayerProps, GetLineup, GetInjuries, PlayersDone, SkipGroup, SkipProp,
     DetectGroup, NextGroup, PropLeft, At
<1>3. work'[s].slate = work[s].slate /\ work'[s].snapshot = work[s].snapshot
  <2>1. CASE \E played \in BOOLEAN : GetForms(s, played)
    BY <1>1, <2>1 DEF GetForms, Work
  <2>2. CASE \E offers \in PropAnswers : GetPlayerProps(s, offers)
    BY <1>1, <2>2 DEF GetPlayerProps, Work
  <2>3. CASE \E lineup \in Lineups : GetLineup(s, lineup)
    BY <1>1, <2>3 DEF GetLineup, Work
  <2>4. CASE \E injured \in Injuries : GetInjuries(s, injured)
    <3>1. PICK injured \in Injuries : GetInjuries(s, injured)
      BY <2>4
    <3>2. QED
      BY <1>1, <3>1 DEF GetInjuries, Work
  <2>5. CASE PlayersDone(s)
    BY <1>1, <2>5 DEF PlayersDone, Work
  <2>6. CASE SkipGroup(s) \/ \E isValue \in BOOLEAN : DetectGroup(s, isValue)
    BY <1>1, <2>6, GroupKeepsSlate DEF SkipGroup, DetectGroup
  <2>7. CASE SkipProp(s)
    BY <1>1, <2>7 DEF SkipProp, NextProp, Work
  <2>8. QED
    BY <2>1, <2>2, <2>3, <2>4, <2>5, <2>6, <2>7
<1>4. pc'[s] \in {"local", "lineup", "injuries", "players", "detect", "price"}
  BY <1>1 DEF GetForms, GetPlayerProps, GetLineup, GetInjuries, PlayersDone, SkipGroup, SkipProp,
     DetectGroup, NextGroup, PropLeft, At, Goto
<1>5. QED
  BY <1>2, <1>3, <1>4, QuietResults DEF Unstarted

(* Answers given with nothing left to flush. *)
LEMMA AnswerResults ==
  ASSUME Inv, NEW s \in Sessions, Results(s),
         \/ \E m \in Matches : MatchNotFound(s, m)
         \/ \E bet \in Bets : BetNotFound(s, bet)
         \/ \E error \in Errors : ProviderError(s, error)
         \/ SettleDone(s) \/ DetectionError(s) \/ PropError(s) \/ RunDone(s)
  PROVE  Results(s)'
<1>1. pc \in [Sessions -> Steps]
  BY DEF Inv, RunInv, RunTypeOK
<1>2. /\ UNCHANGED uowVars /\ UNCHANGED <<work, matchBets, propBets>>
      /\ phase[s] = "open" /\ writes[s] = <<>>
  BY DEF MatchNotFound, BetNotFound, ProviderError, SettleDone, DetectionError, PropError,
     PropLeft, RunDone, At
<1>3. pc'[s] = "answered"
  BY <1>1 DEF MatchNotFound, BetNotFound, ProviderError, SettleDone, DetectionError, PropError,
     RunDone, Answer, Goto
<1>4. QED
  BY <1>2, <1>3, QuietResults DEF Unstarted

(* The match as the run found it. *)
LEMMA RegisterResults ==
  ASSUME Inv, NEW s \in Sessions, Results(s), Register(s)
  PROVE  Results(s)'
<1> DEFINE batch == <<Upsert(Current(s), Snapshot(s))>>
<1>1. /\ Issue(s, batch) /\ pc[s] = "register" /\ pc'[s] = "sharp" /\ work[s].slate # <<>>
      /\ UNCHANGED <<work, matchBets, propBets>>
  BY DEF Register, At, Goto, Inv, RunInv, RunTypeOK
<1>2. stored[Current(s)] = Snapshot(s)
  BY <1>1, SlateKickoffs DEF Results
<1>3. batch \in Seq(Requests)
  BY <1>1, CurrentKnown, Keys, Wellformed
<1>4. <<>> \in Seq(Entries) /\ Len(<<>>) = 0 /\ DOMAIN <<>> = {} /\ 1 \in 0..Len(batch)
      /\ Len(batch) = 1 + 0 /\ 1..1 = {1} /\ batch[1] = Upsert(Current(s), Snapshot(s))
  OBVIOUS
<1>5. /\ Extends(matchBets[s], matchBets'[s], <<>>, MatchBets)
      /\ Extends(propBets[s], propBets'[s], <<>>, PropBets)
  BY <1>1 DEF Extends
<1>6. batch[1].op = "upsert" /\ batch[1].row = Current(s) /\ batch[1].value = stored[Current(s)]
  BY <1>2 DEF Upsert
<1> HIDE DEF batch
<1>7. Batches(batch, 1, <<>>) /\ Pertains(s, <<>>) /\ Refreshes(s, batch, 1, <<>>)
  BY <1>1, <1>4, <1>6 DEF Batches, Pertains, Refreshes
<1>8. QED
  BY <1>1, <1>3, <1>4, <1>5, <1>7, IssueResults DEF Unstarted

(* The odds API's quotes, with the kickoff that it reports. *)
LEMMA GetSharpOddsResults ==
  ASSUME Inv, NEW s \in Sessions, Results(s), NEW answer \in SharpAnswers,
         GetSharpOdds(s, answer)
  PROVE  Results(s)'
<1> DEFINE match == Upsert(Current(s), answer.kickoff)
           book == Upsert(Sharp, Registered)
           quote == Quote(Current(s), SharpMarket, Sharp)
           batch == IF answer.cover = "none" THEN <<>> ELSE <<match, book, Insert(quote)>>
<1>1. /\ Issue(s, batch) /\ pc[s] = "sharp" /\ pc[s] \in MatchSteps /\ pc'[s] = "forms"
      /\ UNCHANGED <<matchBets, propBets>>
  BY DEF GetSharpOdds, At, Goto, MatchSteps, Inv, RunInv, RunTypeOK
<1>2. work[s] \in Work /\ work[s].slate # <<>> /\ Current(s) \in Matches
  BY <1>1, AtAction
<1>3. work'[s].slate = work[s].slate /\ work'[s].snapshot = work[s].snapshot
  BY <1>2 DEF GetSharpOdds, Inv, RunInv, RunTypeOK, Work
<1>4. quote \in Entries /\ match \in Requests /\ book \in Requests
      /\ Insert(quote) \in Requests
  BY <1>2, Keys, EntriesOfRun, Wellformed, AnswersAssumption
<1>5. CASE answer.cover = "none"
  <2>1. batch = <<>> /\ <<>> \in Seq(Requests) /\ <<>> \in Seq(Entries)
        /\ Len(<<>>) = 0 /\ DOMAIN <<>> = {} /\ 0 \in 0..0 /\ 1..0 = {} /\ 0 + 0 = 0
    BY <1>5
  <2>2. /\ Extends(matchBets[s], matchBets'[s], <<>>, MatchBets)
        /\ Extends(propBets[s], propBets'[s], <<>>, PropBets)
    BY <1>1 DEF Extends
  <2>3. Issue(s, <<>>)
    BY <1>1, <2>1
  <2>4. Batches(<<>>, 0, <<>>) /\ Pertains(s, <<>>) /\ Refreshes(s, <<>>, 0, <<>>)
    BY <2>1 DEF Batches, Pertains, Refreshes
  <2>5. QED
    BY <1>1, <1>3, <2>1, <2>2, <2>3, <2>4, IssueResults DEF Unstarted
<1>6. CASE answer.cover # "none"
  <2> DEFINE all == <<match, book, Insert(quote)>>
             entries == <<quote>>
  <2>1. Issue(s, all)
    BY <1>1, <1>6
  <2>2. all \in Seq(Requests) /\ entries \in Seq(Entries)
    BY <1>4
  <2>3. /\ 2 \in 0..Len(all) /\ Len(all) = 2 + Len(entries) /\ 1..2 = {1, 2}
        /\ all[1] = match /\ all[2] = book /\ all[2 + 1] = Insert(quote)
        /\ DOMAIN entries = {1} /\ entries[1] = quote
    <3> HIDE DEF match, book, quote
    <3> QED OBVIOUS
  <2>4. /\ match.op = "upsert" /\ book.op = "upsert" /\ match.row = Current(s)
        /\ book.row \notin Matches
    BY Layer DEF Upsert
  <2>5. /\ Matchful(quote) /\ quote.match = Current(s)
        /\ quote \notin MatchBets /\ quote \notin PropBets
    BY KindsOfRows DEF Matchful, Quote
  <2>6. \A m \in Matches, k \in Markets : quote # Quote(m, k, Local)
    BY DistinctAssumption DEF Quote
  <2> HIDE DEF all, entries, match, book, quote
  <2>7. /\ Extends(matchBets[s], matchBets'[s], entries, MatchBets)
        /\ Extends(propBets[s], propBets'[s], entries, PropBets)
    BY <1>1, <2>3, <2>5 DEF Extends
  <2>8. \A i \in 1..2 : all[i].op = "upsert"
    BY <2>3, <2>4
  <2>9. \A i \in 1..2 : all[i].row \in Matches => all[i].row = Current(s)
    BY <2>3, <2>4
  <2>10. \A i \in DOMAIN entries, m \in Matches, k \in Markets : entries[i] # Quote(m, k, Local)
    BY <2>3, <2>6
  <2>11. \A i \in DOMAIN entries : all[2 + i] = Insert(entries[i]) /\ Matchful(entries[i])
                                   /\ entries[i].match = Current(s)
    BY <2>3, <2>5
  <2>12. Batches(all, 2, entries)
    BY <2>3, <2>8, <2>11 DEF Batches
  <2>13. Pertains(s, entries)
    BY <1>2, <2>11 DEF Pertains
  <2>14. Refreshes(s, all, 2, entries)
    <3>1. \A k \in Markets, j \in DOMAIN entries : entries[j] # Quote(Current(s), k, Local)
      BY <1>2, <2>10
    <3>2. QED
      BY <1>1, <1>2, <2>9, <2>10, <3>1 DEF Refreshes
  <2>15. QED
    BY <1>1, <1>3, <2>1, <2>2, <2>3, <2>7, <2>12, <2>13, <2>14, IssueResults DEF Unstarted
<1>7. QED
  BY <1>5, <1>6

(* The bookmaker's quotes, which put the match back. *)
LEMMA GetLocalOddsResults ==
  ASSUME Inv, NEW s \in Sessions, Results(s), NEW quoted \in LocalAnswers,
         GetLocalOdds(s, quoted)
  PROVE  Results(s)'
<1> DEFINE entries == [i \in 1..Len(quoted) |-> Quote(Current(s), quoted[i], Local)]
<1>1. /\ Issue(s, Saving(s, entries)) /\ pc[s] = "local" /\ pc[s] \in MatchSteps
      /\ pc'[s] = "props" /\ UNCHANGED <<matchBets, propBets>>
  BY DEF GetLocalOdds, At, Goto, MatchSteps, Inv, RunInv, RunTypeOK
<1>2. work[s] \in Work /\ work[s].slate # <<>> /\ Current(s) \in Matches
  BY <1>1, AtAction
<1>3. work'[s].slate = work[s].slate /\ work'[s].snapshot = work[s].snapshot
  BY <1>2 DEF GetLocalOdds, Inv, RunInv, RunTypeOK, Work
<1>4. quoted \in Seq(Markets)
  BY AnswersAssumption
<1>5. \A i \in 1..Len(quoted) : Quote(Current(s), quoted[i], Local) \in Entries
  BY <1>2, <1>4, EntriesOfRun
<1>6. entries \in Seq(Entries) /\ DOMAIN entries = 1..Len(quoted)
  BY <1>4, <1>5
<1>7. \A i \in DOMAIN entries : /\ Matchful(entries[i]) /\ entries[i].match = Current(s)
                                /\ entries[i] \notin MatchBets /\ entries[i] \notin PropBets
  BY KindsOfRows DEF Matchful, Quote
<1> HIDE DEF entries
<1>8. /\ Extends(matchBets[s], matchBets'[s], entries, MatchBets)
      /\ Extends(propBets[s], propBets'[s], entries, PropBets)
  BY <1>1, <1>7 DEF Extends
<1>9. QED
  BY <1>1, <1>2, <1>3, <1>6, <1>7, <1>8, SavingResults DEF Unstarted

(* A batch that has nothing to do with any match. *)
LEMMA ElsewhereResults ==
  ASSUME Inv, NEW s \in Sessions, Results(s),
         NEW batch \in Seq(Requests), Issue(s, batch),
         NEW entries \in Seq(Entries), NEW n \in 0..Len(batch), Len(batch) = n + Len(entries),
         \A i \in 1..n : batch[i].op = "upsert" /\ batch[i].row \notin Matches,
         \A i \in DOMAIN entries : batch[n + i] = Insert(entries[i]),
         work'[s].slate = work[s].slate, work'[s].snapshot = work[s].snapshot,
         pc'[s] \notin Unstarted \union {"answered", "register", "sharp"},
         \A i \in DOMAIN entries : entries[i].type \notin {"quote", "bet", "prop"},
         UNCHANGED <<matchBets, propBets>>
  PROVE  Results(s)'
<1>1. \A i \in DOMAIN entries :
        /\ ~Matchful(entries[i]) /\ entries[i] \notin MatchBets /\ entries[i] \notin PropBets
  BY KindsOfRows DEF Matchful
<1>2. \A i \in DOMAIN entries, m \in Matches, k \in Markets : entries[i] # Quote(m, k, Local)
  BY DEF Quote
<1>3. /\ Extends(matchBets[s], matchBets'[s], entries, MatchBets)
      /\ Extends(propBets[s], propBets'[s], entries, PropBets)
  BY <1>1 DEF Extends
<1>4. /\ \A i \in 1..n : batch[i].op = "upsert"
      /\ pc'[s] \notin Unstarted \union {"answered", "register"} /\ pc'[s] # "sharp"
  OBVIOUS
<1>5. Batches(batch, n, entries)
  BY DEF Batches
<1>6. Pertains(s, entries)
  BY <1>1 DEF Pertains
<1>7. Refreshes(s, batch, n, entries)
  BY <1>2 DEF Refreshes
<1>8. QED
  BY <1>3, <1>4, <1>5, <1>6, <1>7, IssueResults

(* A player. *)
LEMMA SavePlayerResults ==
  ASSUME Inv, NEW s \in Sessions, Results(s), NEW p \in Players, SavePlayer(s, p)
  PROVE  Results(s)'
<1> DEFINE batch == <<Upsert(p, Club[p])>>
<1>1. Issue(s, batch) /\ pc'[s] = "recent" /\ UNCHANGED <<matchBets, propBets>>
  BY DEF SavePlayer, Goto, Inv, RunInv, RunTypeOK
<1>2. work'[s].slate = work[s].slate /\ work'[s].snapshot = work[s].snapshot
  BY DEF SavePlayer, Inv, RunInv, RunTypeOK, Work
<1>3. batch \in Seq(Requests)
  BY Keys, Wellformed, AnswersAssumption
<1>4. batch[1].op = "upsert" /\ batch[1].row \notin Matches
  BY Layer DEF Upsert
<1>5. <<>> \in Seq(Entries) /\ DOMAIN <<>> = {} /\ 1 \in 0..Len(batch)
      /\ Len(batch) = 1 + Len(<<>>) /\ 1..1 = {1}
  OBVIOUS
<1> HIDE DEF batch
<1>6. QED
  BY <1>1, <1>2, <1>3, <1>4, <1>5, ElsewhereResults DEF Unstarted

(* A player's recent matches. *)
LEMMA GetRecentResults ==
  ASSUME Inv, NEW s \in Sessions, Results(s), NEW club \in RecentAnswers, GetRecent(s, club)
  PROVE  Results(s)'
<1> DEFINE p == work[s].player
           past == Upsert(Past, Played)
           player == Upsert(p, club)
           stats == Stats(p)
           batch == IF club = NoRow THEN <<>> ELSE <<past, player, Insert(stats)>>
<1>1. /\ Issue(s, batch) /\ pc[s] = "recent" /\ pc[s] \in MatchSteps /\ pc'[s] = "players"
      /\ UNCHANGED <<matchBets, propBets>>
  BY DEF GetRecent, At, Goto, MatchSteps, Inv, RunInv, RunTypeOK
<1>2. p \in Players /\ work[s] \in Work
  BY <1>1, AtAction DEF Inv, RunInv, AtAMatch
<1>3. work'[s].slate = work[s].slate /\ work'[s].snapshot = work[s].snapshot
  BY <1>2 DEF GetRecent, Inv, RunInv, RunTypeOK, Work
<1>4. CASE club = NoRow
  <2>1. batch = <<>> /\ <<>> \in Seq(Requests) /\ <<>> \in Seq(Entries)
        /\ Len(<<>>) = 0 /\ DOMAIN <<>> = {} /\ 0 \in 0..0 /\ 1..0 = {} /\ 0 + 0 = 0
    BY <1>4
  <2>2. Issue(s, <<>>)
    BY <1>1, <2>1
  <2>3. QED
    BY <1>1, <1>3, <2>1, <2>2, ElsewhereResults DEF Unstarted
<1>5. CASE club # NoRow
  <2> DEFINE all == <<past, player, Insert(stats)>>
             entries == <<stats>>
  <2>1. Issue(s, all)
    BY <1>1, <1>5
  <2>2. /\ past \in Requests /\ player \in Requests /\ Insert(stats) \in Requests
        /\ stats \in Entries
    BY <1>2, <1>5, Keys, EntriesOfRun, Wellformed, AnswersAssumption
  <2>3. past.op = "upsert" /\ player.op = "upsert" /\ past.row \notin Matches
        /\ player.row \notin Matches /\ stats.type = "stats"
    BY <1>2, Layer DEF Upsert, Stats
  <2> HIDE DEF past, player, stats
  <2>4. all \in Seq(Requests) /\ entries \in Seq(Entries)
    BY <2>2
  <2>5. /\ 2 \in 0..Len(all) /\ Len(all) = 2 + Len(entries) /\ 1..2 = {1, 2}
        /\ all[1] = past /\ all[2] = player /\ all[2 + 1] = Insert(stats)
        /\ DOMAIN entries = {1} /\ entries[1] = stats
    OBVIOUS
  <2> HIDE DEF all, entries
  <2>6. \A i \in 1..2 : all[i].op = "upsert" /\ all[i].row \notin Matches
    BY <2>3, <2>5
  <2>7. \A i \in DOMAIN entries : all[2 + i] = Insert(entries[i])
                                  /\ entries[i].type \notin {"quote", "bet", "prop"}
    BY <2>3, <2>5
  <2>8. QED
    BY <1>1, <1>3, <2>1, <2>4, <2>5, <2>6, <2>7, ElsewhereResults DEF Unstarted
<1>6. QED
  BY <1>4, <1>5

(* A settlement. *)
LEMMA SettleResults ==
  ASSUME Inv, NEW s \in Sessions, Results(s), NEW bet \in Bets, Settle(s, bet)
  PROVE  Results(s)'
<1> DEFINE row == Settled(bet)
           batch == <<Insert(row)>>
           entries == <<row>>
<1>1. Issue(s, batch) /\ pc'[s] = "settled" /\ UNCHANGED <<work, matchBets, propBets>>
  BY DEF Settle, Goto, Inv, RunInv, RunTypeOK
<1>2. row \in Entries /\ Insert(row) \in Requests /\ row.type = "settled"
  BY EntriesOfRun, Wellformed DEF Settled
<1> HIDE DEF row
<1>3. /\ batch \in Seq(Requests) /\ entries \in Seq(Entries) /\ 0 \in 0..Len(batch)
      /\ Len(batch) = 0 + Len(entries) /\ 1..0 = {} /\ DOMAIN entries = {1}
      /\ batch[0 + 1] = Insert(row) /\ entries[1] = row
  BY <1>2
<1> HIDE DEF batch, entries
<1>4. QED
  BY <1>1, <1>2, <1>3, ElsewhereResults DEF Unstarted

(* The value bets of the match, which the detection took from its quotes. *)
LEMMA SaveMatchBetsResults ==
  ASSUME Inv, NEW s \in Sessions, Results(s), Traces(s), SaveMatchBets(s)
  PROVE  Results(s)'
<1> DEFINE bets == work[s].detected
<1>1. /\ Issue(s, Saving(s, bets)) /\ pc[s] = "detect" /\ pc[s] \in MatchSteps
      /\ pc'[s] = "price" /\ work' = work
      /\ matchBets'[s] = matchBets[s] \o bets /\ propBets' = propBets
  BY DEF SaveMatchBets, At, Goto, MatchSteps, Inv, RunInv, RunTypeOK
<1>2. work[s] \in Work /\ work[s].slate # <<>> /\ Current(s) \in Matches
  BY <1>1, AtAction
<1>3. bets \in Seq(Entries) /\ work[s].local \in Seq(Markets)
  BY <1>2, EntriesOfRun DEF Work
<1>4. \A i \in DOMAIN bets : bets[i] \in MatchBets /\ bets[i].match = Current(s)
  <2> SUFFICES ASSUME NEW i \in DOMAIN bets
               PROVE  bets[i] \in MatchBets /\ bets[i].match = Current(s)
    OBVIOUS
  <2>1. Priced(s, bets[i])
    BY <1>1 DEF Traces, Prices
  <2>2. PICK j \in DOMAIN work[s].local : bets[i] = MatchBet(Current(s), work[s].local[j])
    BY <2>1 DEF Priced
  <2>3. work[s].local[j] \in Markets
    BY <1>3
  <2>4. QED
    BY <1>2, <2>2, <2>3 DEF MatchBets, MatchBet
<1>5. \A i \in DOMAIN bets : Matchful(bets[i]) /\ bets[i] \notin PropBets
  BY <1>4, KindsOfRows
<1> HIDE DEF bets
<1>6. /\ Extends(matchBets[s], matchBets'[s], bets, MatchBets)
      /\ Extends(propBets[s], propBets'[s], bets, PropBets)
  BY <1>1, <1>4, <1>5 DEF Extends
<1>7. QED
  BY <1>1, <1>2, <1>3, <1>4, <1>5, <1>6, SavingResults DEF Unstarted

(* A priced prop, saved if it is value. *)
LEMMA PricePropResults ==
  ASSUME Inv, NEW s \in Sessions, Results(s), NEW isValue \in BOOLEAN, PriceProp(s, isValue)
  PROVE  Results(s)'
<1> DEFINE bet == PropBet(Current(s), Prop(s).player)
           bets == IF isValue THEN <<bet>> ELSE <<>>
<1>1. PropLeft(s) /\ NextProp(s)
  BY DEF PriceProp
<1>2. /\ pc[s] = "price" /\ work[s].slate # <<>> /\ Prop(s) \in Props /\ Current(s) \in Matches
      /\ work'[s].slate = work[s].slate /\ work'[s].snapshot = work[s].snapshot
  BY <1>1, PropTail DEF Inv, RunInv, RunTypeOK
<1>3. /\ Issue(s, Saving(s, bets)) /\ pc'[s] = "price"
      /\ propBets'[s] = propBets[s] \o bets /\ matchBets' = matchBets
  BY <1>2 DEF PriceProp, Inv, RunInv, RunTypeOK
<1>4. bet \in PropBets /\ bet.match = Current(s) /\ bet \in Entries
  BY <1>2, EntriesOfRun DEF Props, PropBets, PropBet
<1>5. Matchful(bet) /\ bet \notin MatchBets
  BY <1>4, KindsOfRows
<1> HIDE DEF bet
<1>6. bets \in Seq(Entries) /\ \A i \in DOMAIN bets : bets[i] = bet
  BY <1>4
<1> HIDE DEF bets
<1>7. /\ Extends(matchBets[s], matchBets'[s], bets, MatchBets)
      /\ Extends(propBets[s], propBets'[s], bets, PropBets)
  BY <1>3, <1>4, <1>5, <1>6 DEF Extends
<1>8. QED
  BY <1>2, <1>3, <1>4, <1>5, <1>6, <1>7, SavingResults DEF Unstarted

-----------------------------------------------------------------------------
(* Beginnings and ends *)

(* The trail of a session that a step leaves without rows and bets.          *)
LEMMA EmptiedTrails ==
  ASSUME NEW s \in Sessions, ledger'[s] = <<>>, writes'[s] = <<>>,
         matchBets'[s] = <<>>, propBets'[s] = <<>>
  PROVE  Trails(s)' /\ Restored(s)'
<1>1. Plans(s, <<>>)'
  <2>1. 0 \in 0..Len(<<>>) /\ Len(<<>>) = Len(<<>>) + Len(<<>>) - 0 /\ Len(<<>>) = 0
    OBVIOUS
  <2>2. QED
    BY <2>1 DEF Plans
<1>2. Returning(s, <<>>)'
  BY ListsNothing DEF Returning, Lists
<1>3. Grouped(<<>>)' /\ Behind(s, <<>>)'
  BY DEF Grouped, Behind
<1>4. <<>> \in Seq(Entries)
  OBVIOUS
<1>5. Trails(s)'
  BY <1>1, <1>2, <1>3, <1>4 DEF Trails
<1>6. Restored(s)'
  BY DEF Restored, Rowset
<1>7. QED
  BY <1>5, <1>6

(* A run starts on a slate in the order of the committed kickoffs.           *)
LEMMA StartWorkResults ==
  ASSUME Inv, NEW s \in Sessions, Results(s), pc[s] = "browser", NEW slate \in Seq(Matches),
         \A i, j \in DOMAIN slate :
           i < j => slate[i] # slate[j] /\ View(s, slate[i]) <= View(s, slate[j]),
         StartWork(s, slate)
  PROVE  Results(s)'
<1>1. own[s] = Nothing /\ writes[s] = <<>> /\ ledger[s] = <<>>
      /\ matchBets[s] = <<>> /\ propBets[s] = <<>> /\ phase[s] # "refused"
  BY DEF Inv, RunInv, Fresh, Unstarted, Results, Bounded
<1>2. \A m \in Matches : View(s, m) = stored[m]
  BY <1>1, Keys DEF View, Nothing
<1> DEFINE snapshot == [m \in Matches |-> View(s, m)]
<1>3. /\ work'[s] = [NoWork EXCEPT !.slate = slate, !.snapshot = snapshot]
      /\ pc'[s] = "register" /\ UNCHANGED uowVars /\ UNCHANGED <<matchBets, propBets>>
  BY DEF StartWork, Goto, Inv, RunInv, RunTypeOK
<1>4. work'[s].slate = slate /\ work'[s].snapshot = snapshot
  BY <1>3 DEF NoWork
<1>5. \A i \in DOMAIN slate : View(s, slate[i]) = stored[slate[i]]
  BY <1>2
<1>6. SlateSorted(s)'
  BY <1>2, <1>3, <1>4, <1>5 DEF SlateSorted, uowVars
<1>7. Bounded(s)'
  BY <1>1, <1>3 DEF Bounded, Unstarted, uowVars
<1>8. Trails(s)' /\ Restored(s)' /\ Climbs(s)'
  BY <1>1, <1>3, EmptiedTrails, EmptyClimbs DEF uowVars
<1>9. QED
  BY <1>6, <1>7, <1>8 DEF Results

LEMMA StartResults ==
  ASSUME Inv, NEW s \in Sessions, Results(s),
         ListUpcoming(s) \/ \E m \in Matches : GetMatch(s, m)
  PROVE  Results(s)'
<1>1. CASE ListUpcoming(s)
  <2>1. pc[s] = "browser" /\ \E slate \in SlatesFor(s) : StartWork(s, slate)
    BY <1>1 DEF ListUpcoming, At
  <2>2. PICK slate \in SlatesFor(s) : StartWork(s, slate)
    BY <2>1
  <2>3. Upcoming(s) \subseteq Matches /\ IsFiniteSet(Upcoming(s))
    BY Keys, FS_Subset DEF Upcoming
  <2>4. Cardinality(Upcoming(s)) \in Nat
    BY <2>3, FS_CardinalityType
  <2>5. slate \in [1..Cardinality(Upcoming(s)) -> Upcoming(s)]
    BY <2>2 DEF SlatesFor
  <2>6. slate \in Seq(Matches)
    BY <2>3, <2>4, <2>5
  <2>7. \A i, j \in DOMAIN slate :
          i < j => slate[i] # slate[j] /\ View(s, slate[i]) <= View(s, slate[j])
    BY <2>2 DEF SlatesFor
  <2>8. QED
    BY <2>1, <2>2, <2>6, <2>7, StartWorkResults
<1>2. ASSUME NEW m \in Matches, GetMatch(s, m) PROVE Results(s)'
  <2>1. pc[s] = "browser" /\ StartWork(s, <<m>>)
    BY <1>2 DEF GetMatch, At
  <2>2. <<m>> \in Seq(Matches) /\ \A i, j \in DOMAIN <<m>> : ~(i < j)
    OBVIOUS
  <2>3. QED
    BY <2>1, <2>2, StartWorkResults
<1>3. QED
  BY <1>1, <1>2

(* The next match: the rows are about matches that are no longer ahead.      *)
LEMMA MatchDoneResults ==
  ASSUME Inv, NEW s \in Sessions, Results(s), MatchDone(s)
  PROVE  Results(s)'
<1> DEFINE old == work[s].slate
           new == Tail(work[s].slate)
<1>1. /\ pc[s] = "price" /\ pc[s] \in MatchSteps /\ phase[s] = "open" /\ writes[s] = <<>>
      /\ work'[s] = [NoWork EXCEPT !.slate = new, !.snapshot = work[s].snapshot]
      /\ pc'[s] = "register" /\ UNCHANGED uowVars /\ UNCHANGED <<matchBets, propBets>>
  BY DEF MatchDone, At, Goto, MatchSteps, Inv, RunInv, RunTypeOK
<1>2. work[s] \in Work /\ old # <<>>
  BY <1>1, AtAction
<1>3. work'[s].slate = new /\ work'[s].snapshot = work[s].snapshot
  BY <1>1 DEF NoWork
<1>4. old \in Seq(Matches)
  BY <1>2 DEF Work
<1>5. /\ new \in Seq(Matches) /\ (new # <<>> => Head(new) = new[1] /\ 1 \in DOMAIN new)
      /\ \A i \in DOMAIN new : i + 1 \in DOMAIN old /\ new[i] = old[i + 1] /\ i + 1 >= 2
      /\ \A i, j \in DOMAIN new : i < j => i + 1 < j + 1
  BY <1>2, <1>4
<1>6. stored' = stored /\ ledger'[s] = ledger[s] /\ writes'[s] = writes[s] /\ own'[s] = own[s]
      /\ phase'[s] = phase[s]
  BY <1>1 DEF uowVars
<1> HIDE DEF old, new
<1>7. SlateSorted(s)'
  <2>1. SlateSorted(s)
    BY DEF Results
  <2>2. \A i, j \in DOMAIN new : i < j => new[i] # new[j] /\ stored[new[i]] <= stored[new[j]]
    BY <1>2, <1>5, <2>1 DEF SlateSorted, old
  <2>3. \A m \in Matches : work[s].snapshot[m] = stored[m]
    BY <1>2, <2>1 DEF SlateSorted, old
  <2>4. QED
    BY <1>3, <1>6, <2>2, <2>3 DEF SlateSorted
<1>8. Bounded(s)'
  BY <1>1, <1>6 DEF Bounded, Unstarted
<1>9. Trails(s)'
  <2>1. PICK rows \in Seq(Entries) :
          Plans(s, rows) /\ Returning(s, rows) /\ Grouped(rows) /\ Behind(s, rows)
    BY DEF Results, Trails
  <2>2. Plans(s, rows)'
    BY <1>6, <2>1 DEF Plans
  <2>3. Grouped(rows)'
    BY <1>6, <2>1 DEF Grouped, Matchful
  <2>4. Returning(s, rows)'
    BY <1>1, <1>6, <2>1 DEF Returning, Lists
  <2>5. ASSUME NEW i \in DOMAIN rows, Matchful(rows[i])
        PROVE  /\ rows[i].match \in Matches
               /\ \A k \in DOMAIN new : /\ stored[rows[i].match] <= stored[new[k]]
                                        /\ rows[i].match # new[k]
    BY <1>5, <2>1, <2>5 DEF Behind, old
  <2>6. Current(s)' = Head(new)
    BY <1>3 DEF Current
  <2>7. Behind(s, rows)'
    <3>1. ASSUME NEW i \in DOMAIN rows, Matchful(rows[i])
          PROVE  ~(new # <<>> /\ rows[i].match = Current(s)')
      BY <1>5, <2>5, <2>6, <3>1
    <3>2. \A e : Matchful(e)' <=> Matchful(e)
      BY DEF Matchful
    <3> HIDE DEF new
    <3> QED
      BY <1>3, <1>6, <2>5, <3>1, <3>2 DEF Behind
  <2>8. QED
    BY <2>2, <2>3, <2>4, <2>7 DEF Trails
<1>10. Restored(s)'
  BY <1>6, QuietRestored DEF Results
<1>11. Climbs(s)'
  BY <1>1, <1>3, <1>5, <1>6 DEF Results, Climbs, old
<1>12. QED
  BY <1>7, <1>8, <1>9, <1>10, <1>11 DEF Results

(* A session is opened. *)
LEMMA BeginResults ==
  ASSUME Inv, NEW s \in Sessions, Results(s), Start(s) \/ BeginSettle(s)
  PROVE  Results(s)'
<1>1. /\ Open(s) /\ pc[s] = "idle" /\ pc'[s] \in {"browser", "settle"}
      /\ UNCHANGED <<work, matchBets, propBets>>
  BY DEF Start, Begin, BeginSettle, Goto, Inv, RunInv, RunTypeOK
<1>2. /\ stored' = stored /\ ledger' = ledger /\ writes' = writes /\ own' = own
      /\ phase[s] = "closed" /\ phase'[s] = "open"
  BY <1>1 DEF Open, Inv, UowInv, UowTypeOK
<1>3. SlateSorted(s)'
  BY <1>1, <1>2 DEF Results, SlateSorted
<1>4. Bounded(s)'
  BY <1>1, <1>2 DEF Results, Bounded, Unstarted
<1>5. Trails(s)'
  BY <1>1, <1>2, QuietTrails DEF Results
<1>6. Restored(s)' /\ Climbs(s)'
  BY <1>1, <1>2, QuietRestored, QuietClimbs DEF Results
<1>7. QED
  BY <1>3, <1>4, <1>5, <1>6 DEF Results

(* A session is closed. *)
LEMMA EndResults ==
  ASSUME Inv, NEW s \in Sessions, End(s)
  PROVE  Results(s)'
<1>1. /\ pc'[s] = "idle" /\ work'[s] = NoWork /\ matchBets'[s] = <<>> /\ propBets'[s] = <<>>
      /\ ledger'[s] = <<>> /\ writes'[s] = <<>> /\ phase'[s] = "closed" /\ own'[s] = Nothing
  BY DEF End, Close, Goto, Inv, UowInv, UowTypeOK, RunInv, RunTypeOK
<1>2. work'[s].slate = <<>>
  BY <1>1 DEF NoWork
<1>3. SlateSorted(s)'
  BY <1>2 DEF SlateSorted
<1>4. Bounded(s)'
  BY <1>1 DEF Bounded
<1>5. QED
  BY <1>1, <1>3, <1>4, EmptiedTrails, EmptyClimbs DEF Results

(* A statement is decided on or run. *)
LEMMA StatementResults ==
  ASSUME Inv, NEW s \in Sessions, Results(s), GetNext(s) \/ FlushNext(s)
  PROVE  Results(s)'
<1>1. (Get(s) \/ Flush(s)) /\ UNCHANGED runVars /\ phase[s] = "open" /\ writes[s] # <<>>
  BY FlushGoesOn DEF GetNext, Get, Flush
<1>2. (Done(s) \/ Rewritten(s)) /\ stored' = stored /\ phase' = phase
  BY <1>1, StatementsGoOn DEF Done, Rewritten
<1>3. pc'[s] = pc[s] /\ pc[s] \notin Unstarted /\ pc[s] # "answered"
  BY <1>1 DEF Inv, RunInv, Fresh, Results, Bounded, runVars
<1>4. SlateSorted(s)'
  BY <1>1, <1>2 DEF Results, SlateSorted, runVars
<1>5. Bounded(s)'
  BY <1>1, <1>2, <1>3 DEF Bounded
<1>6. Trails(s)'
  BY <1>1, <1>2, StatementTrails DEF Results
<1>7. Restored(s)'
  BY <1>2, DoneRestored, RewrittenRestored DEF Results
<1>8. Climbs(s)'
  BY <1>1, <1>2, StatementClimbs DEF Results
<1>9. QED
  BY <1>4, <1>5, <1>6, <1>7, <1>8 DEF Results

(* The database refuses to go on. *)
LEMMA DatabaseErrorResults ==
  ASSUME Inv, NEW s \in Sessions, Results(s), DatabaseError(s)
  PROVE  Results(s)'
<1>1. /\ Refuse(s) /\ pc'[s] = "answered" /\ reply'[s] = Failure(kind[s], "unexpected")
      /\ UNCHANGED <<kind, work, matchBets, propBets>>
  BY DEF DatabaseError, Answer, Goto, Inv, RunInv, RunTypeOK
<1>2. /\ stored' = stored /\ ledger' = ledger /\ own' = own
      /\ writes'[s] = <<>> /\ phase'[s] = "refused"
  BY <1>1 DEF Refuse, Fail, Inv, UowInv, UowTypeOK
<1>3. Failure(kind[s], "unexpected") # Success(kind[s])
  BY DEF Failure, Success, StatusOf
<1>4. SlateSorted(s)'
  BY <1>1, <1>2 DEF Results, SlateSorted
<1>5. Bounded(s)'
  BY <1>1, <1>2, <1>3 DEF Bounded, Unstarted
<1>6. Trails(s)'
  BY <1>1, RefuseTrails DEF Results
<1>7. Restored(s)' /\ Climbs(s)'
  BY <1>1, <1>2, QuietRestored, QuietClimbs DEF Results
<1>8. QED
  BY <1>4, <1>5, <1>6, <1>7 DEF Results

(* A session that takes no step. *)
LEMMA BystanderResults ==
  ASSUME Inv, NEW t \in Sessions, Results(t), stored' = stored,
         kind'[t] = kind[t], pc'[t] = pc[t], work'[t] = work[t],
         matchBets'[t] = matchBets[t], propBets'[t] = propBets[t], reply'[t] = reply[t],
         phase'[t] = phase[t], own'[t] = own[t], ledger'[t] = ledger[t], writes'[t] = writes[t]
  PROVE  Results(t)'
<1>1. SlateSorted(t)'
  BY DEF Results, SlateSorted
<1>2. Bounded(t)'
  BY DEF Results, Bounded, Success
<1>3. Trails(t)'
  BY QuietTrails DEF Results
<1>4. Restored(t)' /\ Climbs(t)'
  BY QuietRestored, QuietClimbs DEF Results
<1>5. QED
  BY <1>1, <1>2, <1>3, <1>4 DEF Results

LEMMA SessionResults ==
  ASSUME Inv, NEW s \in Sessions, Traces(s), Results(s),
         Start(s) \/ BeginSettle(s) \/ SettleStep(s) \/ RunStep(s)
  PROVE  Results(s)'
<1>1. CASE Start(s) \/ BeginSettle(s)
  BY <1>1, BeginResults
<1>2. CASE SettleStep(s)
  BY <1>2, SettleResults, AnswerResults DEF SettleStep
<1>3. CASE Ingest(s)
  BY <1>3, StartResults, AnswerResults, RegisterResults, GetSharpOddsResults, QuietSteps,
     GetLocalOddsResults, SavePlayerResults, GetRecentResults DEF Ingest
<1>4. CASE Detect(s)
  BY <1>4, QuietSteps, PricePropResults, SaveMatchBetsResults, AnswerResults, MatchDoneResults
     DEF Detect
<1>5. CASE Finish(s)
  BY <1>5, AnswerResults, DatabaseErrorResults, EndResults DEF Finish
<1>6. CASE GetNext(s) \/ FlushNext(s)
  BY <1>6, StatementResults
<1>7. QED
  BY <1>1, <1>2, <1>3, <1>4, <1>5, <1>6 DEF RunStep

-----------------------------------------------------------------------------
(* Theorems *)

LEMMA ResultInit == Init => ResultInv
<1> SUFFICES ASSUME Init, NEW s \in Sessions PROVE Results(s)
  BY DEF ResultInv
<1>1. /\ ledger[s] = <<>> /\ writes[s] = <<>> /\ pc[s] = "idle" /\ phase[s] = "closed"
      /\ matchBets[s] = <<>> /\ propBets[s] = <<>> /\ work[s] = NoWork
  BY DEF Init, UowInit
<1>2. SlateSorted(s)
  BY <1>1 DEF SlateSorted, NoWork
<1>3. Bounded(s)
  BY <1>1 DEF Bounded
<1>4. Climbs(s)
  BY <1>1, Keys DEF Climbs, Nothing, Init, UowInit
<1>5. QED
  BY <1>1, <1>2, <1>3, <1>4, EmptyTrails, EmptyRestored DEF Results

LEMMA ResultNext == Inv /\ TraceInv /\ ResultInv /\ [Next]_vars => ResultInv'
<1> SUFFICES ASSUME Inv, TraceInv, ResultInv, [Next]_vars, NEW t \in Sessions
             PROVE  Results(t)'
  BY DEF ResultInv
<1>1. Results(t) /\ Traces(t)
  BY DEF ResultInv, TraceInv
<1>2. CASE UNCHANGED vars
  BY <1>1, <1>2, BystanderResults DEF vars, runVars, uowVars
<1>3. CASE Next
  <2>1. PICK s \in Sessions : Start(s) \/ BeginSettle(s) \/ SettleStep(s) \/ RunStep(s)
    BY <1>3 DEF Next
  <2>2. CASE t = s
    BY <1>1, <2>1, <2>2, SessionResults
  <2>3. CASE t # s
    BY <1>1, <2>1, <2>3, StepIsLocal, BystanderResults
  <2>4. QED
    BY <2>2, <2>3
<1>4. QED
  BY <1>2, <1>3

LEMMA Resulting == Spec => []ResultInv
BY Invariance, Tracing, ResultInit, ResultNext, PTL DEF Spec

(* The earliest of some instants.                                            *)
LEMMA EarliestOf ==
  ASSUME NEW T, T \subseteq Nat, T # {}
  PROVE  \E x \in T : \A y \in T : ~(y < x)
<1>1. PICK n \in T : TRUE
  OBVIOUS
<1> DEFINE upto(k) == T \intersect (0..k)
           all == {upto(k) : k \in upto(n)}
<1>2. IsWellFoundedOn(StrictSubsetOrdering(0..n), SUBSET (0..n))
  <2>1. IsFiniteSet(0..n)
    <3>1. n \in Int /\ 0 \in Int
      BY <1>1
    <3>2. QED
      BY <3>1, FS_Interval
  <2>2. QED
    BY <2>1, FS_FiniteSubsetsOfFinite, FS_StrictSubsetOrderingWellFounded
<1>3. all \subseteq SUBSET (0..n) /\ all # {}
  <2>1. \A k \in upto(n) : upto(k) \in SUBSET (0..n)
    BY <1>1
  <2>2. n \in upto(n)
    BY <1>1
  <2>3. QED
    BY <2>1, <2>2
<1>4. PICK m \in all : \A t \in all : <<t, m>> \notin StrictSubsetOrdering(0..n)
  <2> HIDE DEF all
  <2> QED
    BY <1>2, <1>3, WFMin
<1>5. PICK x \in upto(n) : m = upto(x)
  BY <1>4
<1>6. ASSUME NEW y \in T, y < x
      PROVE  FALSE
  <2>1. x \in 0..n /\ x \in T /\ y \in Nat
    BY <1>5
  <2>2. n \in Nat
    BY <1>1
  <2>3. y \in upto(n) /\ x \in upto(x) /\ x \notin upto(y) /\ upto(y) \subseteq upto(x)
    BY <1>6, <2>1, <2>2
  <2>4. upto(y) \in all /\ upto(y) \in SUBSET (0..n)
    BY <1>3, <2>3
  <2>5. <<upto(y), m>> \in StrictSubsetOrdering(0..n)
    BY <1>3, <1>4, <1>5, <2>3, <2>4 DEF StrictSubsetOrdering
  <2>6. QED
    BY <1>4, <2>4, <2>5
<1>7. QED
  BY <1>5, <1>6

(* Sessions only ever wait in a circle over a row that matches share, or     *)
(* over matches that kick off together: along any other wait the row waited  *)
(* for kicks off later and later, and on a circle one would be the earliest. *)
THEOREM MatchesMakeNoCircle == Spec => []CirclesNeedASharedRow
<1>1. Inv /\ ResultInv => CirclesNeedASharedRow
  <2> SUFFICES ASSUME Inv, ResultInv, NEW group \in (SUBSET Sessions) \ {{}}, Circle(group),
                      ~ \E s \in group : Wanted(s) \notin Matches,
                      ~ \E s, t \in group : /\ Wanted(s) # Wanted(t)
                                           /\ stored[Wanted(s)] = stored[Wanted(t)]
               PROVE  FALSE
    BY DEF CirclesNeedASharedRow
  <2> DEFINE kickoff(s) == stored[Wanted(s)]
  <2>0. group \subseteq Sessions /\ group # {}
    OBVIOUS
  <2>1. \A t \in group : (\E u \in group : WaitsFor(t, u)) /\ \E u \in group : WaitsFor(u, t)
    BY DEF Circle
  <2>2. ~Serialized
    <3>1. PICK s \in group, t \in group, u \in group : WaitsFor(s, t) /\ WaitsFor(t, u)
      BY <2>0, <2>1
    <3>2. Serialized => Dirty(t) /\ Dirty(u) /\ t # u
      BY <3>1 DEF WaitsFor, Blocks
    <3>3. QED
      BY <3>2 DEF Inv, UowInv, RowExclusion
  <2>3. \A s, t \in group : WaitsFor(s, t) => s # t /\ own[t][Wanted(s)] # NoRow
    BY <2>2 DEF WaitsFor, Blocks, Wanted
  <2>4. ASSUME NEW s \in group
        PROVE  work[s].slate # <<>> /\ Wanted(s) = Current(s) /\ kickoff(s) \in Nat
    <3>1. writes[s] # <<>> /\ Head(writes[s]).op # "insert"
      BY <2>1, <2>2 DEF WaitsFor, Blocks
    <3>2. writes[s] \in Seq(Statements)
      BY DEF Inv, UowInv, UowTypeOK
    <3>3. 1 \in DOMAIN writes[s] /\ Head(writes[s]) = writes[s][1]
      BY <3>1, <3>2
    <3>4. work[s].slate # <<>> /\ Wanted(s) = Current(s)
      BY <3>1, <3>3 DEF ResultInv, Results, Climbs, Wanted
    <3>5. kickoff(s) = Snapshot(s) /\ Snapshot(s) \in Kickoffs
      BY <3>4, SlateKickoffs, CurrentKnown DEF ResultInv, Results
    <3>6. Kickoffs \subseteq Nat
      BY TablesAssumption
    <3>7. kickoff(s) \in Nat
      BY <3>5, <3>6
    <3>8. QED
      BY <3>4, <3>7
  <2>5. ASSUME NEW s \in group, NEW t \in group, WaitsFor(s, t)
        PROVE  kickoff(s) < kickoff(t)
    <3>1. own[t][Wanted(s)] # NoRow /\ Wanted(s) \in Matches
      BY <2>3, <2>5
    <3>2. kickoff(s) <= stored[Current(t)]
      <4>1. 1 \in DOMAIN work[t].slate /\ Current(t) = work[t].slate[1]
        BY <2>4, SlateKickoffs DEF ResultInv, Results
      <4>2. QED
        BY <3>1, <4>1 DEF ResultInv, Results, Climbs
    <3>3. Wanted(s) # Wanted(t)
      <4>1. PICK u \in group : t # u /\ own[u][Wanted(t)] # NoRow
        BY <2>1, <2>3
      <4>2. Wanted(t) \in Rows
        BY Keys
      <4>3. QED
        BY <3>1, <4>1, <4>2 DEF Inv, UowInv, RowExclusion
    <3>4. kickoff(s) # kickoff(t) /\ kickoff(s) \in Nat /\ kickoff(t) \in Nat
      BY <2>4, <3>3
    <3>5. QED
      BY <2>4, <3>2, <3>4
  <2> HIDE DEF kickoff
  <2>6. PICK t \in group : \A s \in group : ~(kickoff(s) < kickoff(t))
    <3> DEFINE T == {kickoff(s) : s \in group}
    <3>1. T \subseteq Nat /\ T # {}
      BY <2>0, <2>4
    <3> HIDE DEF T
    <3>2. PICK x \in T : \A y \in T : ~(y < x)
      BY <3>1, EarliestOf
    <3>3. QED
      BY <3>2 DEF T
  <2>7. QED
    BY <2>1, <2>5, <2>6
<1>2. QED
  BY <1>1, Invariance, Resulting, PTL

(* What a successful run returns is what its session has inserted, in order. *)
THEOREM ReturnsWhatItSaved == Spec => []ReturnedBetsAreSaved
<1>1. Inv /\ ResultInv => ReturnedBetsAreSaved
  <2> SUFFICES ASSUME Inv, ResultInv, NEW s \in Sessions, Succeeded(s)
               PROVE  Lists(matchBets[s], ledger[s], MatchBets)
                        /\ Lists(propBets[s], ledger[s], PropBets)
    BY DEF ReturnedBetsAreSaved
  <2>1. Bounded(s) /\ Trails(s)
    BY DEF ResultInv, Results
  <2>2. writes[s] = <<>> /\ phase[s] # "refused"
    BY <2>1 DEF Bounded, Succeeded
  <2>3. PICK rows \in Seq(Entries) : Plans(s, rows) /\ Returning(s, rows)
    BY <2>1 DEF Trails
  <2>4. rows = ledger[s]
    BY <2>2, <2>3, NothingPlanned
  <2>5. QED
    BY <2>2, <2>3, <2>4 DEF Returning
<1>2. QED
  BY <1>1, Invariance, Resulting, PTL

(* A run saves match by match, in kickoff order, and never returns to a match. *)
THEOREM SavesInKickoffOrder == Spec => []LedgerInKickoffOrder
<1>1. Inv /\ ResultInv => LedgerInKickoffOrder
  <2> SUFFICES ASSUME Inv, ResultInv, NEW s \in Sessions
               PROVE  LET rows == ledger[s]
                          about == {i \in DOMAIN rows : Matchful(rows[i])}
                      IN  \A i, j \in about :
                            i < j => /\ stored[rows[i].match] <= stored[rows[j].match]
                                     /\ rows[i].match = rows[j].match =>
                                          \A l \in about \intersect i..j :
                                            rows[l].match = rows[i].match
    BY DEF LedgerInKickoffOrder
  <2>1. PICK rows \in Seq(Entries) : Plans(s, rows) /\ Grouped(rows) /\ Behind(s, rows)
    BY DEF ResultInv, Results, Trails
  <2>2. Grouped(ledger[s])
    BY <2>1, OrderedPrefix
  <2>3. QED
    BY <2>2 DEF Grouped
<1>2. QED
  BY <1>1, Invariance, Resulting, PTL

(* Local quotes put back the committed kickoff of their match. *)
THEOREM QuotesPutKickoffBack == Spec => []LocalQuotesRestoreKickoff
<1>1. ResultInv => LocalQuotesRestoreKickoff
  BY DEF ResultInv, Results, Restored, LocalQuotesRestoreKickoff
<1>2. QED
  BY <1>1, Resulting, PTL

-----------------------------------------------------------------------------
(* The service keeps RunContract: every step of a session is, to the caller *)
(* of its run, a step of the contract or nothing at all.  The invariant:    *)

Members(list) == {list[i] : i \in DOMAIN list}

Returned(s) == Members(matchBets[s]) \union Members(propBets[s])

(* A settlement is no run; and the bets to return are about the current      *)
(* match or earlier ones, about earlier ones only before the first provider. *)
Kept(s) ==
  /\ pc[s] \in {"settle", "settled"} => kind[s] = "settle"
  /\ \A bet \in Returned(s) : \A k \in DOMAIN work[s].slate :
       k >= 2 \/ pc[s] = "register" => bet.match # work[s].slate[k]

KeptInv == \A s \in Sessions : Kept(s)

-----------------------------------------------------------------------------
(* One caller's view *)

Left(s) == IF RunState(s) = "running" THEN work[s].slate ELSE <<>>
Completed(s) == IF RunState(s) \in {"running", "returned"} THEN CompletedBets(s) ELSE {}

(* A step of the contract, or none, for the caller of s.                     *)
Starts(s) ==
  /\ RunState(s) = "ready" /\ RunState(s)' = "running"
  /\ Left(s)' \in AllSlates /\ Completed(s)' = Completed(s)

Completes(s) ==
  /\ RunState(s) = "running" /\ RunState(s)' = "running"
  /\ Left(s) \in Seq(Matches) /\ Left(s) # <<>> /\ Left(s)' = Tail(Left(s))
  /\ \E new \in SUBSET {bet \in Bets : bet.match = Head(Left(s))} :
       Completed(s)' = Completed(s) \union new

Returns(s) ==
  /\ RunState(s) = "running" /\ RunState(s)' = "returned"
  /\ Left(s) = <<>> /\ Left(s)' = <<>> /\ Completed(s)' = Completed(s)

Fails(s) ==
  /\ RunState(s) \in {"ready", "running"} /\ RunState(s)' = "failed"
  /\ Left(s)' = <<>> /\ Completed(s)' = {}

IsReady(s) ==
  /\ RunState(s) \in {"returned", "failed"} /\ RunState(s)' = "ready"
  /\ Left(s)' = Left(s) /\ Completed(s)' = {}

Stutters(s) ==
  RunState(s)' = RunState(s) /\ Left(s)' = Left(s) /\ Completed(s)' = Completed(s)

Complies(s) ==
  Starts(s) \/ Completes(s) \/ Returns(s) \/ Fails(s) \/ IsReady(s) \/ Stutters(s)

(* A step of one caller, and none of the others, is a step of the contract.  *)
LEMMA OneCaller ==
  ASSUME NEW s \in Sessions, Complies(s), \A t \in Sessions \ {s} : Stutters(t)
  PROVE  [Contract!ContractNext]_(Contract!contractVars)
<1> DEFINE states == [t \in Sessions |-> RunState(t)]
           lefts == [t \in Sessions |-> Left(t)]
           bets == [t \in Sessions |-> Completed(t)]
           betsOn == [m \in Matches |-> {bet \in Bets : bet.match = m}]
<1>1. /\ states' = [states EXCEPT ![s] = RunState(s)']
      /\ lefts' = [lefts EXCEPT ![s] = Left(s)']
      /\ bets' = [bets EXCEPT ![s] = Completed(s)']
  BY DEF Stutters
<1>2. states[s] = RunState(s) /\ lefts[s] = Left(s) /\ bets[s] = Completed(s)
  OBVIOUS
<1>3. CASE Starts(s)
  <2>1. Contract!Start(s)
    BY <1>1, <1>2, <1>3 DEF Contract!Start, Starts, Left, Completed
  <2>2. QED
    BY <2>1 DEF Contract!ContractNext
<1>4. CASE Completes(s)
  <2>1. Head(Left(s)) \in Matches
    BY <1>4 DEF Completes
  <2>2. betsOn[Head(Left(s))] = {bet \in Bets : bet.match = Head(Left(s))}
    BY <2>1
  <2>3. states' = states
    BY <1>1, <1>2, <1>4 DEF Completes
  <2>4. lefts' = [lefts EXCEPT ![s] = Tail(lefts[s])]
    BY <1>1, <1>2, <1>4 DEF Completes
  <2>5. \E new \in SUBSET betsOn[Head(lefts[s])] : bets' = [bets EXCEPT ![s] = bets[s] \union new]
    <3>1. PICK new \in SUBSET betsOn[Head(Left(s))] : Completed(s)' = Completed(s) \union new
      BY <1>4, <2>2 DEF Completes
    <3>2. QED
      BY <1>1, <1>2, <3>1
  <2>6. states[s] = "running" /\ lefts[s] # <<>>
    BY <1>2, <1>4 DEF Completes
  <2>7. Contract!CompleteMatch(s)
    BY <2>3, <2>4, <2>5, <2>6 DEF Contract!CompleteMatch, Left, Completed
  <2>8. QED
    BY <2>7 DEF Contract!ContractNext
<1>5. CASE Returns(s)
  <2>1. Contract!Return(s)
    BY <1>1, <1>2, <1>5 DEF Contract!Return, Returns, Left, Completed
  <2>2. QED
    BY <2>1 DEF Contract!ContractNext
<1>6. CASE Fails(s)
  <2>1. Contract!Fail(s)
    BY <1>1, <1>2, <1>6 DEF Contract!Fail, Fails, Left, Completed
  <2>2. QED
    BY <2>1 DEF Contract!ContractNext
<1>7. CASE IsReady(s)
  <2>1. Contract!Again(s)
    BY <1>1, <1>2, <1>7 DEF Contract!Again, IsReady, Left, Completed
  <2>2. QED
    BY <2>1 DEF Contract!ContractNext
<1>8. CASE Stutters(s)
  <2>1. states' = states /\ lefts' = lefts /\ bets' = bets
    BY <1>8 DEF Stutters
  <2>2. UNCHANGED Contract!contractVars
    BY <2>1 DEF Contract!contractVars, Left, Completed
  <2>3. QED
    BY <2>2
<1>9. QED
  BY <1>3, <1>4, <1>5, <1>6, <1>7, <1>8 DEF Complies

-----------------------------------------------------------------------------
(* Steps of the coroutine *)

(* Where a run is, by what its coroutine, its kind and its answer are.       *)
LEMMA WhereRunsAre ==
  ASSUME NEW s
  PROVE  /\ pc[s] \in {"idle", "browser"} \/ kind[s] = "settle" => RunState(s) = "ready"
         /\ pc[s] \notin {"idle", "browser", "answered"} /\ kind[s] # "settle" =>
              RunState(s) = "running"
         /\ pc[s] = "answered" /\ kind[s] # "settle" =>
              RunState(s) = IF reply[s] = Success(kind[s]) THEN "returned" ELSE "failed"
BY DEF RunState, Succeeded

(* The same of the state that a step leads to.                               *)
LEMMA WhereRunsGo ==
  ASSUME NEW s
  PROVE  /\ pc'[s] \in {"idle", "browser"} \/ kind'[s] = "settle" => RunState(s)' = "ready"
         /\ pc'[s] \notin {"idle", "browser", "answered"} /\ kind'[s] # "settle" =>
              RunState(s)' = "running"
         /\ pc'[s] = "answered" /\ kind'[s] # "settle" =>
              RunState(s)' = IF reply'[s] = Success(kind'[s]) THEN "returned" ELSE "failed"
BY DEF RunState, Succeeded, Success

(* A settlement is nothing to the caller of a run.                           *)
LEMMA SettlementStutters ==
  ASSUME NEW s, kind[s] = "settle", kind'[s] = "settle"
  PROVE  Stutters(s)
BY WhereRunsAre, WhereRunsGo DEF Stutters, Left, Completed

(* A step within a match: bets on the current match may come to be returned. *)
LEMMA WithinMatch ==
  ASSUME Inv, NEW s \in Sessions, SlateSorted(s), Kept(s), kind'[s] = kind[s],
         pc[s] = "register" \/ pc[s] \in MatchSteps, pc'[s] \in MatchSteps,
         work'[s].slate = work[s].slate, work[s].slate # <<>>,
         Returned(s) \subseteq Returned(s)',
         \A bet \in Returned(s)' : bet \in Returned(s) \/ bet.match = Current(s)
  PROVE  Kept(s)' /\ Complies(s)
<1>1. /\ pc'[s] \notin {"idle", "browser", "answered", "register", "settle", "settled"}
      /\ pc[s] \notin {"idle", "browser", "answered"}
  BY DEF MatchSteps
<1>2. Current(s)' = Current(s)
  BY DEF Current
<1>3. ASSUME NEW bet \in Returned(s)', NEW k \in DOMAIN work[s].slate, k >= 2
      PROVE  bet.match # work[s].slate[k]
  <2>1. CASE bet \in Returned(s)
    BY <1>3, <2>1 DEF Kept
  <2>2. CASE bet.match = Current(s)
    <3>1. /\ Current(s) = work[s].slate[1] /\ 1 \in DOMAIN work[s].slate
          /\ work[s].slate \in Seq(Matches)
      BY SlateKickoffs
    <3>2. k \in Nat /\ 1 < k
      BY <1>3, <3>1
    <3>3. QED
      BY <2>2, <3>1, <3>2 DEF SlateSorted
  <2>3. QED
    BY <1>3, <2>1, <2>2
<1>4. Kept(s)'
  BY <1>1, <1>3 DEF Kept
<1>5. CompletedBets(s)' = CompletedBets(s)
  <2>1. /\ CompletedBets(s) = {bet \in Returned(s) : bet.match # Current(s)}
        /\ CompletedBets(s)' = {bet \in Returned(s)' : bet.match # Current(s)'}
    BY DEF CompletedBets, Returned, Members
  <2>2. QED
    BY <1>2, <2>1
<1>6. CASE kind[s] # "settle"
  <2>1. RunState(s) = "running" /\ RunState(s)' = "running"
    BY <1>1, <1>6, WhereRunsAre, WhereRunsGo
  <2>2. Stutters(s)
    BY <1>5, <2>1 DEF Stutters, Left, Completed
  <2>3. QED
    BY <1>4, <2>2 DEF Complies
<1>7. CASE kind[s] = "settle"
  BY <1>4, <1>7, SettlementStutters DEF Complies
<1>8. QED
  BY <1>6, <1>7

(* Everything that a run does between two matches. *)
LEMMA MatchComplies ==
  ASSUME Inv, NEW s \in Sessions, Results(s), Traces(s), Kept(s),
         \/ Register(s) \/ (\E answer \in SharpAnswers : GetSharpOdds(s, answer))
         \/ (\E played \in BOOLEAN : GetForms(s, played))
         \/ (\E quoted \in LocalAnswers : GetLocalOdds(s, quoted))
         \/ (\E offers \in PropAnswers : GetPlayerProps(s, offers))
         \/ (\E lineup \in Lineups : GetLineup(s, lineup))
         \/ (\E injured \in Injuries : GetInjuries(s, injured))
         \/ (\E p \in Players : SavePlayer(s, p))
         \/ (\E club \in RecentAnswers : GetRecent(s, club))
         \/ PlayersDone(s) \/ SkipGroup(s) \/ SkipProp(s)
         \/ (\E isValue \in BOOLEAN : DetectGroup(s, isValue))
  PROVE  Kept(s)' /\ Complies(s)
<1>1. work \in [Sessions -> Work] /\ pc \in [Sessions -> Steps]
  BY DEF Inv, RunInv, RunTypeOK
<1>2. UNCHANGED <<kind, matchBets, propBets>>
  BY DEF Register, GetSharpOdds, GetForms, GetLocalOdds, GetPlayerProps, GetLineup, GetInjuries,
     SavePlayer, GetRecent, PlayersDone, SkipGroup, SkipProp, DetectGroup, NextGroup
<1>3. pc[s] = "register" \/ pc[s] \in MatchSteps
  BY DEF Register, GetSharpOdds, GetForms, GetLocalOdds, GetPlayerProps, GetLineup, GetInjuries,
     SavePlayer, GetRecent, PlayersDone, SkipGroup, SkipProp, DetectGroup, PropLeft, At, MatchSteps
<1>4. pc'[s] \in MatchSteps
  BY <1>1 DEF Register, GetSharpOdds, GetForms, GetLocalOdds, GetPlayerProps, GetLineup,
     GetInjuries, SavePlayer, GetRecent, PlayersDone, SkipGroup, SkipProp, DetectGroup, NextGroup,
     PropLeft, At, Goto, MatchSteps
<1>5. work[s].slate # <<>>
  BY <1>3 DEF Register, GetSharpOdds, GetForms, GetLocalOdds, GetPlayerProps, GetLineup,
     GetInjuries, SavePlayer, GetRecent, PlayersDone, SkipGroup, SkipProp, DetectGroup, PropLeft,
     At, MatchSteps, Inv, RunInv, AtAMatch
<1>6. work'[s].slate = work[s].slate
  <2>1. CASE Register(s)
    BY <2>1 DEF Register
  <2>2. CASE \E answer \in SharpAnswers : GetSharpOdds(s, answer)
    BY <1>1, <2>2 DEF GetSharpOdds, Work
  <2>3. CASE \E played \in BOOLEAN : GetForms(s, played)
    BY <1>1, <2>3 DEF GetForms, Work
  <2>4. CASE \E quoted \in LocalAnswers : GetLocalOdds(s, quoted)
    BY <1>1, <2>4 DEF GetLocalOdds, Work
  <2>5. CASE \E offers \in PropAnswers : GetPlayerProps(s, offers)
    BY <1>1, <2>5 DEF GetPlayerProps, Work
  <2>6. CASE \E lineup \in Lineups : GetLineup(s, lineup)
    BY <1>1, <2>6 DEF GetLineup, Work
  <2>7. CASE \E injured \in Injuries : GetInjuries(s, injured)
    <3>1. PICK injured \in Injuries : GetInjuries(s, injured)
      BY <2>7
    <3>2. QED
      BY <1>1, <3>1 DEF GetInjuries, Work
  <2>8. CASE \E p \in Players : SavePlayer(s, p)
    <3>1. PICK p \in Players : SavePlayer(s, p)
      BY <2>8
    <3>2. QED
      BY <1>1, <3>1 DEF SavePlayer, Work
  <2>9. CASE \E club \in RecentAnswers : GetRecent(s, club)
    <3>1. PICK club \in RecentAnswers : GetRecent(s, club)
      BY <2>9
    <3>2. QED
      BY <1>1, <3>1 DEF GetRecent, Work
  <2>10. CASE PlayersDone(s)
    BY <1>1, <2>10 DEF PlayersDone, Work
  <2>11. CASE SkipGroup(s) \/ \E isValue \in BOOLEAN : DetectGroup(s, isValue)
    BY <1>1, <2>11, GroupKeepsSlate DEF SkipGroup, DetectGroup
  <2>12. CASE SkipProp(s)
    BY <1>1, <2>12 DEF SkipProp, NextProp, Work
  <2>13. QED
    BY <2>1, <2>2, <2>3, <2>4, <2>5, <2>6, <2>7, <2>8, <2>9, <2>10, <2>11, <2>12
<1>7. Returned(s)' = Returned(s)
  BY <1>2 DEF Returned, Members
<1>8. QED
  BY <1>2, <1>3, <1>4, <1>5, <1>6, <1>7, WithinMatch DEF Results

(* Bets that a list is extended by.                                          *)
LEMMA Extended ==
  ASSUME NEW S, NEW old \in Seq(S), NEW more \in Seq(S)
  PROVE  Members(old \o more) = Members(old) \union Members(more)
<1> DEFINE all == old \o more
<1>1. /\ Len(old) \in Nat /\ Len(more) \in Nat /\ DOMAIN old = 1..Len(old)
      /\ DOMAIN more = 1..Len(more) /\ DOMAIN all = 1..(Len(old) + Len(more))
      /\ \A i \in 1..Len(old) : all[i] = old[i]
      /\ \A i \in (Len(old) + 1)..(Len(old) + Len(more)) : all[i] = more[i - Len(old)]
  OBVIOUS
<1> HIDE DEF all
<1>2. \A i \in DOMAIN all : i \in DOMAIN old \/
        (i \in (Len(old) + 1)..(Len(old) + Len(more)) /\ i - Len(old) \in DOMAIN more)
  BY <1>1
<1>3. \A i \in DOMAIN old : i \in DOMAIN all
  BY <1>1
<1>4. \A i \in DOMAIN more : /\ Len(old) + i \in (Len(old) + 1)..(Len(old) + Len(more))
                             /\ Len(old) + i \in DOMAIN all /\ (Len(old) + i) - Len(old) = i
  BY <1>1
<1>5. ASSUME NEW x \in {all[i] : i \in DOMAIN all}
      PROVE  x \in {old[i] : i \in DOMAIN old} \union {more[i] : i \in DOMAIN more}
  BY <1>1, <1>2
<1>6. ASSUME NEW i \in DOMAIN old PROVE old[i] \in {all[j] : j \in DOMAIN all}
  BY <1>1, <1>3
<1>7. ASSUME NEW i \in DOMAIN more PROVE more[i] \in {all[j] : j \in DOMAIN all}
  BY <1>1, <1>4
<1>8. {all[i] : i \in DOMAIN all}
        = {old[i] : i \in DOMAIN old} \union {more[i] : i \in DOMAIN more}
  BY <1>5, <1>6, <1>7
<1>9. QED
  BY <1>8 DEF all, Members

(* The bets that are saved are on the current match. *)
LEMMA SaveMatchBetsComplies ==
  ASSUME Inv, NEW s \in Sessions, Results(s), Traces(s), Kept(s), SaveMatchBets(s)
  PROVE  Kept(s)' /\ Complies(s)
<1> DEFINE bets == work[s].detected
<1>1. /\ pc[s] = "detect" /\ pc[s] \in MatchSteps /\ pc'[s] = "price" /\ pc'[s] \in MatchSteps
      /\ kind' = kind /\ work' = work
      /\ matchBets'[s] = matchBets[s] \o bets /\ propBets' = propBets
  BY DEF SaveMatchBets, At, Goto, MatchSteps, Inv, RunInv, RunTypeOK
<1>2. work[s] \in Work /\ work[s].slate # <<>>
  BY <1>1, AtAction
<1>3. bets \in Seq(Bets) /\ matchBets[s] \in Seq(Bets)
  BY <1>1, <1>2, AtAction DEF Work
<1>4. \A i \in DOMAIN bets : bets[i].match = Current(s)
  <2> SUFFICES ASSUME NEW i \in DOMAIN bets PROVE bets[i].match = Current(s)
    OBVIOUS
  <2>1. Priced(s, bets[i])
    BY <1>1 DEF Traces, Prices
  <2>2. QED
    BY <2>1 DEF Priced, MatchBet
<1> HIDE DEF bets
<1>5. Returned(s)' = Returned(s) \union Members(bets)
  <2>1. Members(matchBets[s] \o bets) = Members(matchBets[s]) \union Members(bets)
    BY <1>3, Extended
  <2>2. Returned(s)' = Members(matchBets'[s]) \union Members(propBets'[s])
    BY DEF Returned, Members
  <2>3. QED
    BY <1>1, <2>1, <2>2 DEF Returned
<1>6. QED
  BY <1>1, <1>2, <1>4, <1>5, WithinMatch DEF Results, Members

LEMMA PricePropComplies ==
  ASSUME Inv, NEW s \in Sessions, Results(s), Kept(s),
         NEW isValue \in BOOLEAN, PriceProp(s, isValue)
  PROVE  Kept(s)' /\ Complies(s)
<1> DEFINE bet == PropBet(Current(s), Prop(s).player)
           bets == IF isValue THEN <<bet>> ELSE <<>>
<1>1. PropLeft(s) /\ NextProp(s)
  BY DEF PriceProp
<1>2. /\ pc[s] = "price" /\ pc[s] \in MatchSteps /\ work[s].slate # <<>>
      /\ Prop(s) \in Props /\ Current(s) \in Matches /\ work'[s].slate = work[s].slate
  BY <1>1, PropTail DEF MatchSteps, Inv, RunInv, RunTypeOK
<1>3. /\ pc'[s] = pc[s] /\ kind' = kind
      /\ propBets'[s] = propBets[s] \o bets /\ matchBets' = matchBets
  BY <1>2 DEF PriceProp, Inv, RunInv, RunTypeOK
<1>4. bet \in Bets /\ bet.match = Current(s) /\ propBets[s] \in Seq(Bets)
  BY <1>2, AtAction, EntriesOfRun DEF Props, PropBet
<1> HIDE DEF bet
<1>5. bets \in Seq(Bets) /\ \A i \in DOMAIN bets : bets[i] = bet
  BY <1>4
<1> HIDE DEF bets
<1>6. Returned(s)' = Returned(s) \union Members(bets)
  <2>1. Members(propBets[s] \o bets) = Members(propBets[s]) \union Members(bets)
    BY <1>4, <1>5, Extended
  <2>2. Returned(s)' = Members(matchBets'[s]) \union Members(propBets'[s])
    BY DEF Returned, Members
  <2>3. Returned(s) = Members(matchBets[s]) \union Members(propBets[s])
    BY DEF Returned
  <2>4. QED
    BY <1>3, <2>1, <2>2, <2>3
<1>7. \A b \in Members(bets) : b.match = Current(s)
  BY <1>4, <1>5 DEF Members
<1>8. \A b \in Returned(s)' : b \in Returned(s) \/ b.match = Current(s)
  BY <1>6, <1>7
<1>9. SlateSorted(s) /\ pc'[s] \in MatchSteps /\ kind'[s] = kind[s] /\ Returned(s) \subseteq Returned(s)'
  BY <1>2, <1>3, <1>6 DEF Results
<1>10. QED
  BY <1>2, <1>8, <1>9, WithinMatch

(* Settlements, and statements that reach the database. *)
LEMMA ElsewhereComplies ==
  ASSUME Inv, NEW s \in Sessions, Kept(s), SettleStep(s) \/ GetNext(s) \/ FlushNext(s)
  PROVE  Kept(s)' /\ Complies(s)
<1>1. CASE SettleStep(s)
  <2>1. pc[s] \in {"settle", "settled"} /\ kind[s] = "settle"
    BY <1>1 DEF SettleStep, Settle, BetNotFound, SettleDone, At, Kept
  <2>2. /\ UNCHANGED <<kind, work, matchBets, propBets>> /\ pc'[s] \in {"settled", "answered"}
    BY <1>1 DEF SettleStep, Settle, BetNotFound, SettleDone, Answer, Goto, Inv, RunInv, RunTypeOK
  <2>3. Kept(s)'
    BY <2>1, <2>2 DEF Kept, Returned, Members
  <2>4. QED
    BY <2>1, <2>2, <2>3, SettlementStutters DEF Complies
<1>2. CASE GetNext(s) \/ FlushNext(s)
  <2>1. UNCHANGED <<kind, pc, work, matchBets, propBets, reply>>
    BY <1>2, FlushGoesOn DEF GetNext, runVars
  <2>2. Kept(s)'
    BY <2>1 DEF Kept, Returned, Members
  <2>3. Stutters(s)
    BY <2>1 DEF Stutters, RunState, Succeeded, Success, Left, Completed, CompletedBets, Current
  <2>4. QED
    BY <2>2, <2>3 DEF Complies
<1>3. QED
  BY <1>1, <1>2

-----------------------------------------------------------------------------
(* Beginnings and ends *)

(* A session is opened: nothing to the caller yet.                           *)
LEMMA BeginComplies ==
  ASSUME Inv, NEW s \in Sessions, Results(s), Kept(s), Start(s) \/ BeginSettle(s)
  PROVE  Kept(s)' /\ Complies(s)
<1>1. /\ pc[s] = "idle" /\ UNCHANGED <<work, matchBets, propBets>>
      /\ pc'[s] = "browser" \/ (pc'[s] = "settle" /\ kind'[s] = "settle")
  BY DEF Start, Begin, BeginSettle, Goto, Inv, RunInv, RunTypeOK
<1>2. Kept(s)'
  BY <1>1 DEF Kept, Returned, Members
<1>3. RunState(s) = "ready" /\ RunState(s)' = "ready"
  BY <1>1, WhereRunsAre, WhereRunsGo
<1>4. QED
  BY <1>2, <1>3 DEF Complies, Stutters, Left, Completed

(* Slates are those that the contract knows.                                 *)
LEMMA KnownSlates ==
  ASSUME NEW n \in Nat, n <= Cardinality(Matches), NEW slate \in [1..n -> Matches],
         \A i, j \in DOMAIN slate : i < j => slate[i] # slate[j]
  PROVE  slate \in AllSlates
<1>1. Cardinality(Matches) \in Nat
  BY Keys, FS_CardinalityType
<1>2. n \in 0..Cardinality(Matches)
  BY <1>1
<1>3. slate \in UNION {[1..l -> Matches] : l \in 0..Cardinality(Matches)}
  BY <1>2
<1>4. QED
  BY <1>3 DEF AllSlates

LEMMA StartWorkComplies ==
  ASSUME Inv, NEW s \in Sessions, Results(s), Kept(s), pc[s] = "browser", kind[s] # "settle",
         NEW slate \in AllSlates, StartWork(s, slate)
  PROVE  Kept(s)' /\ Complies(s)
<1>1. matchBets[s] = <<>> /\ propBets[s] = <<>>
  BY DEF Results, Bounded, Unstarted
<1> DEFINE snapshot == [m \in Matches |-> View(s, m)]
<1>2. /\ work'[s] = [NoWork EXCEPT !.slate = slate, !.snapshot = snapshot]
      /\ pc'[s] = "register" /\ UNCHANGED <<kind, matchBets, propBets>>
  BY DEF StartWork, Goto, Inv, RunInv, RunTypeOK
<1>3. work'[s].slate = slate
  BY <1>2 DEF NoWork
<1>4. Returned(s)' = {}
  BY <1>1, <1>2 DEF Returned, Members
<1>5. Kept(s)'
  BY <1>2, <1>4 DEF Kept
<1>6. RunState(s) = "ready" /\ RunState(s)' = "running"
  BY <1>2, WhereRunsAre, WhereRunsGo
<1>7. CompletedBets(s)' = {}
  <2>1. CompletedBets(s)' \subseteq Returned(s)'
    BY DEF CompletedBets, Returned, Members
  <2>2. QED
    BY <1>4, <2>1
<1>8. Starts(s)
  BY <1>3, <1>6, <1>7 DEF Starts, Left, Completed
<1>9. QED
  BY <1>5, <1>8 DEF Complies

LEMMA StartComplies ==
  ASSUME Inv, NEW s \in Sessions, Results(s), Kept(s),
         ListUpcoming(s) \/ \E m \in Matches : GetMatch(s, m)
  PROVE  Kept(s)' /\ Complies(s)
<1>1. CASE ListUpcoming(s)
  <2>1. pc[s] = "browser" /\ kind[s] # "settle"
    BY <1>1 DEF ListUpcoming, At
  <2>2. PICK slate \in SlatesFor(s) : StartWork(s, slate)
    BY <1>1 DEF ListUpcoming
  <2>3. /\ Upcoming(s) \subseteq Matches /\ IsFiniteSet(Upcoming(s))
        /\ Cardinality(Upcoming(s)) <= Cardinality(Matches)
    BY Keys, FS_Subset DEF Upcoming
  <2>4. Cardinality(Upcoming(s)) \in Nat
    BY <2>3, FS_CardinalityType
  <2>5. slate \in [1..Cardinality(Upcoming(s)) -> Matches]
    BY <2>2, <2>3 DEF SlatesFor
  <2>6. \A i, j \in DOMAIN slate : i < j => slate[i] # slate[j]
    BY <2>2 DEF SlatesFor
  <2>7. slate \in AllSlates
    BY <2>3, <2>4, <2>5, <2>6, KnownSlates
  <2>8. QED
    BY <2>1, <2>2, <2>7, StartWorkComplies
<1>2. ASSUME NEW m \in Matches, GetMatch(s, m) PROVE Kept(s)' /\ Complies(s)
  <2>1. pc[s] = "browser" /\ kind[s] # "settle" /\ StartWork(s, <<m>>)
    BY <1>2 DEF GetMatch, At
  <2>2. Cardinality({m}) = 1 /\ {m} \subseteq Matches /\ IsFiniteSet(Matches)
    BY FS_Singleton, Keys
  <2>3. Cardinality({m}) <= Cardinality(Matches)
    BY <2>2, FS_Subset
  <2>4. <<m>> \in [1..1 -> Matches] /\ \A i, j \in DOMAIN <<m>> : ~(i < j)
    OBVIOUS
  <2>5. <<m>> \in AllSlates
    <3>1. 1 <= Cardinality(Matches) /\ 1 \in Nat
      BY <2>2, <2>3
    <3>2. QED
      BY <2>4, <3>1, KnownSlates
  <2>6. QED
    BY <2>1, <2>5, StartWorkComplies
<1>3. QED
  BY <1>1, <1>2

(* A match is completed: its bets join those of the earlier ones.            *)
LEMMA MatchDoneComplies ==
  ASSUME Inv, NEW s \in Sessions, Results(s), Kept(s), MatchDone(s)
  PROVE  Kept(s)' /\ Complies(s)
<1> DEFINE old == work[s].slate
           new == Tail(work[s].slate)
<1>1. /\ pc[s] = "price" /\ pc[s] \in MatchSteps /\ pc'[s] = "register"
      /\ work'[s] = [NoWork EXCEPT !.slate = new, !.snapshot = work[s].snapshot]
      /\ UNCHANGED <<kind, matchBets, propBets>>
  BY DEF MatchDone, At, Goto, MatchSteps, Inv, RunInv, RunTypeOK
<1>2. work[s] \in Work /\ old # <<>> /\ matchBets[s] \in Seq(Bets) /\ propBets[s] \in Seq(Bets)
  BY <1>1, AtAction
<1>3. work'[s].slate = new
  BY <1>1 DEF NoWork
<1>4. old \in Seq(Matches)
  BY <1>2 DEF Work
<1>5. /\ new # <<>> => Head(new) = new[1] /\ 1 \in DOMAIN new
      /\ \A i \in DOMAIN new : i + 1 \in DOMAIN old /\ new[i] = old[i + 1] /\ i + 1 >= 2
  BY <1>2, <1>4
<1>6. Current(s) = Head(old) /\ Current(s)' = Head(new)
  BY <1>3 DEF Current
<1> HIDE DEF old, new
<1>7. Returned(s)' = Returned(s) /\ Returned(s) \subseteq Bets
  BY <1>1, <1>2 DEF Returned, Members
<1>8. \A bet \in Returned(s), k \in DOMAIN new : bet.match # new[k]
  BY <1>5 DEF Kept, old
<1>9. Kept(s)'
  BY <1>1, <1>3, <1>7, <1>8 DEF Kept
<1>10. CASE kind[s] # "settle"
  <2>1. RunState(s) = "running" /\ RunState(s)' = "running"
    BY <1>1, <1>10, WhereRunsAre, WhereRunsGo
  <2>2. CompletedBets(s) = {bet \in Returned(s) : bet.match # Head(old)}
    BY <1>2, <1>6 DEF CompletedBets, Returned, Members, old
  <2>3. CompletedBets(s)' = {bet \in Returned(s)' : new = <<>> \/ bet.match # Head(new)}
    BY <1>3, <1>6 DEF CompletedBets, Returned, Members
  <2>4. CompletedBets(s)' = Returned(s)
    BY <1>5, <1>7, <1>8, <2>3
  <2> DEFINE these == {bet \in Returned(s) : bet.match = Head(old)}
  <2>5. these \in SUBSET {bet \in Bets : bet.match = Head(old)}
        /\ CompletedBets(s)' = CompletedBets(s) \union these
    BY <1>7, <2>2, <2>4
  <2> HIDE DEF these
  <2>6. Left(s) = old /\ Left(s)' = new /\ new = Tail(old)
        /\ Completed(s) = CompletedBets(s) /\ Completed(s)' = CompletedBets(s)'
    BY <1>3, <2>1 DEF Left, Completed, old, new
  <2>7. Completes(s)
    BY <1>2, <1>4, <2>1, <2>5, <2>6 DEF Completes
  <2>8. QED
    BY <1>9, <2>7 DEF Complies
<1>11. CASE kind[s] = "settle"
  BY <1>1, <1>9, <1>11, SettlementStutters DEF Complies
<1>12. QED
  BY <1>10, <1>11

(* An answer that is an error, wherever the run is.                          *)
LEMMA ErrorComplies ==
  ASSUME Inv, NEW s \in Sessions, Results(s), Kept(s),
         \/ \E m \in Matches : MatchNotFound(s, m)
         \/ \E error \in Errors : ProviderError(s, error)
         \/ DetectionError(s) \/ PropError(s) \/ DatabaseError(s)
  PROVE  Kept(s)' /\ Complies(s)
<1>1. /\ pc'[s] = "answered" /\ UNCHANGED <<kind, work, matchBets, propBets>>
      /\ \E error \in Errors : reply'[s] = Failure(kind[s], error)
  BY DEF MatchNotFound, ProviderError, DetectionError, PropError, DatabaseError, Answer, Goto,
     Errors, Inv, RunInv, RunTypeOK
<1>2. pc[s] \notin {"idle", "answered"}
  <2>1. CASE DatabaseError(s)
    <3>1. writes[s] # <<>>
      BY <2>1 DEF DatabaseError, Refuse, Refused, Deadlocked, Circle, WaitsFor
    <3>2. QED
      BY <3>1 DEF Inv, RunInv, Fresh, Unstarted, Results, Bounded
  <2>2. CASE ~DatabaseError(s)
    BY <2>2 DEF MatchNotFound, ProviderError, DetectionError, PropError, PropLeft, At, Raises
  <2>3. QED
    BY <2>1, <2>2
<1>3. Kept(s)'
  BY <1>1 DEF Kept, Returned, Members
<1>4. reply'[s] # Success(kind'[s])
  BY <1>1 DEF Failure, Success, StatusOf
<1>5. CASE kind[s] # "settle"
  <2>1. RunState(s) \in {"ready", "running"} /\ RunState(s)' = "failed"
    BY <1>1, <1>2, <1>4, <1>5, WhereRunsAre, WhereRunsGo
  <2>2. Fails(s)
    BY <2>1 DEF Fails, Left, Completed
  <2>3. QED
    BY <1>3, <2>2 DEF Complies
<1>6. CASE kind[s] = "settle"
  BY <1>1, <1>3, <1>6, SettlementStutters DEF Complies
<1>7. QED
  BY <1>5, <1>6

(* The run is over: every match of the slate has been completed.             *)
LEMMA RunDoneComplies ==
  ASSUME Inv, NEW s \in Sessions, Kept(s), RunDone(s)
  PROVE  Kept(s)' /\ Complies(s)
<1>1. /\ pc[s] = "register" /\ pc'[s] = "answered" /\ reply'[s] = Success(kind[s])
      /\ work[s].slate = <<>> /\ UNCHANGED <<kind, work, matchBets, propBets>>
  BY DEF RunDone, At, Answer, Goto, Inv, RunInv, RunTypeOK
<1>2. Kept(s)'
  BY <1>1 DEF Kept, Returned, Members
<1>3. CASE kind[s] # "settle"
  <2>1. RunState(s) = "running" /\ RunState(s)' = "returned"
    BY <1>1, <1>3, WhereRunsAre, WhereRunsGo
  <2>2. CompletedBets(s)' = CompletedBets(s)
    BY <1>1 DEF CompletedBets, Current
  <2>3. Returns(s)
    BY <1>1, <2>1, <2>2 DEF Returns, Left, Completed
  <2>4. QED
    BY <1>2, <2>3 DEF Complies
<1>4. CASE kind[s] = "settle"
  BY <1>1, <1>2, <1>4, SettlementStutters DEF Complies
<1>5. QED
  BY <1>3, <1>4

(* The session is closed: another run may start in its place.                *)
LEMMA EndComplies ==
  ASSUME Inv, NEW s \in Sessions, End(s)
  PROVE  Kept(s)' /\ Complies(s)
<1>1. /\ pc[s] = "answered" /\ pc'[s] = "idle"
      /\ matchBets'[s] = <<>> /\ propBets'[s] = <<>>
  BY DEF End, Goto, Inv, RunInv, RunTypeOK
<1>2. Returned(s)' = {}
  BY <1>1 DEF Returned, Members
<1>3. Kept(s)'
  BY <1>1, <1>2 DEF Kept
<1>4. RunState(s)' = "ready"
  BY <1>1, WhereRunsGo
<1>5. RunState(s) \in {"ready", "returned", "failed"}
  BY <1>1, WhereRunsAre
<1>6. Left(s) = <<>> /\ Left(s)' = <<>> /\ Completed(s)' = {}
      /\ (RunState(s) = "ready" => Completed(s) = {})
  BY <1>4, <1>5 DEF Left, Completed
<1>7. IsReady(s) \/ Stutters(s)
  BY <1>4, <1>5, <1>6 DEF IsReady, Stutters
<1>8. QED
  BY <1>3, <1>7 DEF Complies

LEMMA SessionComplies ==
  ASSUME Inv, NEW s \in Sessions, Traces(s), Results(s), Kept(s),
         Start(s) \/ BeginSettle(s) \/ SettleStep(s) \/ RunStep(s)
  PROVE  Kept(s)' /\ Complies(s)
<1>1. CASE Start(s) \/ BeginSettle(s)
  BY <1>1, BeginComplies
<1>2. CASE SettleStep(s) \/ GetNext(s) \/ FlushNext(s)
  BY <1>2, ElsewhereComplies
<1>3. CASE Ingest(s)
  BY <1>3, StartComplies, ErrorComplies, MatchComplies DEF Ingest
<1>4. CASE Detect(s)
  BY <1>4, MatchComplies, PricePropComplies, SaveMatchBetsComplies, ErrorComplies,
     MatchDoneComplies DEF Detect
<1>5. CASE Finish(s)
  BY <1>5, RunDoneComplies, ErrorComplies, EndComplies DEF Finish
<1>6. QED
  BY <1>1, <1>2, <1>3, <1>4, <1>5 DEF RunStep

(* A session that takes no step. *)
LEMMA BystanderComplies ==
  ASSUME NEW t \in Sessions, Kept(t), kind'[t] = kind[t], pc'[t] = pc[t], work'[t] = work[t],
         matchBets'[t] = matchBets[t], propBets'[t] = propBets[t], reply'[t] = reply[t]
  PROVE  Kept(t)' /\ Stutters(t)
<1>1. Kept(t)'
  BY DEF Kept, Returned, Members
<1>2. RunState(t)' = RunState(t)
  BY DEF RunState, Succeeded, Success
<1>3. CompletedBets(t)' = CompletedBets(t)
  BY DEF CompletedBets, Current
<1>4. QED
  BY <1>1, <1>2, <1>3 DEF Stutters, Left, Completed

-----------------------------------------------------------------------------
(* Theorem *)

LEMMA StepComplies ==
  ASSUME Inv, TraceInv, ResultInv, KeptInv, [Next]_vars
  PROVE  KeptInv' /\ [Contract!ContractNext]_(Contract!contractVars)
<1>1. \A s \in Sessions : Traces(s) /\ Results(s) /\ Kept(s)
  BY DEF TraceInv, ResultInv, KeptInv
<1>2. CASE UNCHANGED vars
  <2>1. UNCHANGED <<kind, pc, work, matchBets, propBets, reply>>
    BY <1>2 DEF vars, runVars
  <2>2. \A t \in Sessions : Kept(t)' /\ Stutters(t)
    BY <1>1, <2>1, BystanderComplies
  <2>3. UNCHANGED Contract!contractVars
    BY <2>1 DEF Contract!contractVars, RunState, Succeeded, Success, CompletedBets, Current
  <2>4. QED
    BY <2>2, <2>3 DEF KeptInv
<1>3. CASE Next
  <2>1. PICK s \in Sessions : Start(s) \/ BeginSettle(s) \/ SettleStep(s) \/ RunStep(s)
    BY <1>3 DEF Next
  <2>2. Kept(s)' /\ Complies(s)
    BY <1>1, <2>1, SessionComplies
  <2>3. \A t \in Sessions \ {s} : Kept(t)' /\ Stutters(t)
    BY <1>1, <2>1, StepIsLocal, BystanderComplies
  <2>4. KeptInv'
    BY <2>2, <2>3 DEF KeptInv
  <2>5. QED
    BY <2>2, <2>3, <2>4, OneCaller
<1>4. QED
  BY <1>2, <1>3

LEMMA InitComplies == Init => KeptInv /\ Contract!ContractInit
<1> SUFFICES ASSUME Init PROVE KeptInv /\ Contract!ContractInit
  OBVIOUS
<1>1. ASSUME NEW s \in Sessions
      PROVE  pc[s] = "idle" /\ matchBets[s] = <<>> /\ propBets[s] = <<>>
  BY DEF Init
<1>2. KeptInv
  BY <1>1 DEF KeptInv, Kept, Returned, Members
<1>3. \A s \in Sessions : RunState(s) = "ready"
  BY <1>1, WhereRunsAre
<1>4. Contract!ContractInit
  BY <1>3 DEF Contract!ContractInit
<1>5. QED
  BY <1>2, <1>4

(* A run, whoever starts it and whatever else the service does meanwhile, is *)
(* to its caller what RunContract says: match after match, and then all the  *)
(* bets or none.                                                             *)
THEOREM ServiceKeepsRunContract == Spec => KeepsRunContract
<1>1. Spec => []KeptInv
  BY Invariance, Tracing, Resulting, InitComplies, StepComplies, PTL DEF Spec
<1>2. Inv /\ TraceInv /\ ResultInv /\ KeptInv /\ [Next]_vars
        => [Contract!ContractNext]_(Contract!contractVars)
  BY StepComplies
<1>3. Init => Contract!ContractInit
  BY InitComplies
<1>4. QED
  BY <1>1, <1>2, <1>3, Invariance, Tracing, Resulting, PTL
     DEF Spec, KeepsRunContract, Contract!ContractSpec
=============================================================================
