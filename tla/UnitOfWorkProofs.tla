-------------------------- MODULE UnitOfWorkProofs --------------------------
(***************************************************************************)
(* What the proofs about the requests and the runs rest on: facts about    *)
(* the persistence layer whatever its callers issue, for any number of     *)
(* sessions, rows and statements, and for either granularity of locking.   *)
(***************************************************************************)
EXTENDS UnitOfWork, TLAPS

(* What locks give: one session at a time holds a version of a row, and      *)
(* anything at all when the database has one writer.                         *)
RowExclusion ==
  \A s, t \in Sessions :
    s # t => /\ \A row \in Rows : own[s][row] = NoRow \/ own[t][row] = NoRow
             /\ Serialized => ~(Dirty(s) /\ Dirty(t))

(* What a get found still holds when its INSERT is flushed: only the first   *)
(* of the pending statements has had its get.                                *)
GetsHold ==
  \A s \in Sessions :
    writes[s] # <<>> =>
      /\ Tail(writes[s]) \in Seq(Requests)
      /\ Head(writes[s]).op = "create" => View(s, Head(writes[s]).row) = NoRow

UowInv == UowTypeOK /\ RowExclusion /\ GetsHold /\ NothingIsCreatedTwice

(* A fresh process has no statements pending and holds no locks.             *)
LEMMA UowInitHolds == UowInit => UowInv
<1> SUFFICES ASSUME UowInit PROVE UowInv
  OBVIOUS
<1> USE DEF UowInit, Nothing
<1>1. UowTypeOK
  BY StoresAssumption DEF UowTypeOK
<1>2. \A s \in Sessions : ~Dirty(s)
  BY DEF Dirty
<1>3. RowExclusion /\ GetsHold /\ NothingIsCreatedTwice
  BY <1>2 DEF RowExclusion, GetsHold, NothingIsCreatedTwice
<1>4. QED
  BY <1>1, <1>3 DEF UowInv

(* The statements of a repository call are requests, each awaiting its get.  *)
LEMMA RequestsAwait ==
  ASSUME NEW batch \in Seq(Requests)
  PROVE  /\ batch \in Seq(Statements)
         /\ batch # <<>> => /\ Head(batch).op \in {"upsert", "insert"}
                            /\ Tail(batch) \in Seq(Requests)
<1>1. Requests \subseteq Statements /\ \A w \in Requests : w.op \in {"upsert", "insert"}
  BY DEF Requests, Statements
<1>2. batch \in Seq(Statements)
  BY <1>1
<1>3. batch # <<>> => Head(batch) \in Requests /\ Tail(batch) \in Seq(Requests)
  OBVIOUS
<1>4. QED
  BY <1>1, <1>2, <1>3

(* The get of an upsert leaves nothing, an INSERT or an UPDATE of its row.   *)
LEMMA GetDecides ==
  ASSUME UowInv, NEW s \in Sessions, Get(s)
  PROVE  LET w == Head(writes[s])
         IN  /\ writes[s] \in Seq(Statements) /\ w \in Statements /\ w.op = "upsert"
             /\ Tail(writes[s]) \in Seq(Requests)
             /\ \/ View(s, w.row) = w.value /\ writes'[s] = Tail(writes[s])
                \/ \E x \in Statements :
                     /\ writes'[s] = <<x>> \o Tail(writes[s])
                     /\ x.op \in {"create", "update"} /\ x.row = w.row /\ x.value = w.value
                     /\ x.op = "create" => View(s, w.row) = NoRow
<1> DEFINE w == Head(writes[s])
<1>1. writes[s] \in Seq(Statements) /\ writes[s] # <<>> /\ w.op = "upsert"
      /\ Tail(writes[s]) \in Seq(Requests)
  BY DEF Get, UowInv, UowTypeOK, GetsHold
<1>2. w \in [op : {"upsert"}, row : Rows, value : Values] /\ w \in Statements
  <2>1. w \in Statements
    BY <1>1
  <2>2. QED
    BY <1>1, <2>1 DEF Statements, Requests
<1>3. writes'[s] = Decided(s, w) \o Tail(writes[s])
  BY DEF Get, UowInv, UowTypeOK
<1>4. CASE View(s, w.row) = w.value
  <2>1. Decided(s, w) = <<>>
    BY <1>2, <1>4, NoRowAssumption DEF Decided
  <2>2. \A q \in Seq(Requests) : <<>> \o q = q
    OBVIOUS
  <2>3. writes'[s] = Tail(writes[s])
    BY <1>1, <1>3, <2>1, <2>2
  <2>4. QED
    BY <1>1, <1>2, <1>4, <2>3
<1>5. CASE View(s, w.row) # w.value
  <2>1. PICK op \in {"create", "update"} :
           /\ Decided(s, w) = <<[w EXCEPT !.op = op]>>
           /\ op = "create" => View(s, w.row) = NoRow
    <3>1. CASE View(s, w.row) = NoRow
      <4>1. Decided(s, w) = <<[w EXCEPT !.op = "create"]>>
        BY <1>5, <3>1 DEF Decided
      <4>2. QED
        BY <3>1, <4>1
    <3>2. CASE View(s, w.row) # NoRow
      <4>1. Decided(s, w) = <<[w EXCEPT !.op = "update"]>>
        BY <1>5, <3>2 DEF Decided
      <4>2. QED
        BY <4>1
    <3>3. QED
      BY <3>1, <3>2
  <2>2. [w EXCEPT !.op = op] \in [op : {"create", "update"}, row : Rows, value : Values]
        /\ [w EXCEPT !.op = op].op = op
        /\ [w EXCEPT !.op = op].row = w.row /\ [w EXCEPT !.op = op].value = w.value
    BY <1>2
  <2>3. [w EXCEPT !.op = op] \in Statements
    BY <2>2 DEF Statements
  <2>4. QED
    BY <1>1, <1>2, <1>3, <2>1, <2>2, <2>3
<1>6. QED
  BY <1>4, <1>5

(* Nothing a session flushes collides: what it creates, it has found absent. *)
LEMMA FlushRuns ==
  ASSUME UowInv, NEW s \in Sessions, Flush(s)
  PROVE  Run(s, Head(writes[s]))
<1>1. ~Duplicate(s, Head(writes[s]))
  BY DEF Flush, Duplicate, UowInv, GetsHold
<1>2. QED
  BY <1>1 DEF Flush

(* The session that a step is not about keeps what it found.                 *)
LEMMA OthersKeep ==
  ASSUME UowInv, NEW s \in Sessions, stored' = stored,
         \A t \in Sessions \ {s} : own'[t] = own[t] /\ writes'[t] = writes[t],
         writes'[s] # <<>> => Tail(writes'[s]) \in Seq(Requests),
         writes'[s] # <<>> /\ Head(writes'[s]).op = "create" =>
           View(s, Head(writes[s]).row)' = NoRow
  PROVE  GetsHold'
<1> SUFFICES ASSUME NEW t \in Sessions, writes'[t] # <<>>
             PROVE  /\ Tail(writes'[t]) \in Seq(Requests)
                    /\ Head(writes'[t]).op = "create" => View(t, Head(writes[t]).row)' = NoRow
  BY DEF GetsHold
<1>1. CASE t = s
  BY <1>1
<1>2. CASE t # s
  BY <1>2 DEF UowInv, GetsHold, View
<1>3. QED
  BY <1>1, <1>2

(* A get takes no lock.                                                      *)
LEMMA GetKeepsInv ==
  ASSUME UowInv, NEW s \in Sessions, Get(s)
  PROVE  UowInv'
<1> DEFINE tail == Tail(writes[s])
<1>1. /\ UNCHANGED <<stored, disk, phase, own, ledger>>
      /\ \A t \in Sessions \ {s} : writes'[t] = writes[t]
      /\ writes' = [writes EXCEPT ![s] = writes'[s]]
  BY DEF Get, UowInv, UowTypeOK
<1>2. tail \in Seq(Requests) /\ tail \in Seq(Statements)
  BY GetDecides, RequestsAwait
<1>3. /\ writes'[s] \in Seq(Statements)
      /\ writes'[s] # <<>> => Tail(writes'[s]) \in Seq(Requests)
      /\ writes'[s] # <<>> /\ Head(writes'[s]).op = "create" =>
           View(s, Head(writes[s]).row)' = NoRow
  <2>1. CASE writes'[s] = tail
    <3>1. writes'[s] # <<>> => Tail(writes'[s]) \in Seq(Requests)
                               /\ Head(writes'[s]).op \in {"upsert", "insert"}
      BY <1>2, <2>1, RequestsAwait
    <3>2. QED
      BY <1>2, <2>1, <3>1
  <2>2. ASSUME NEW x \in Statements, writes'[s] = <<x>> \o tail, x.row = Head(writes[s]).row,
               x.op = "create" => View(s, Head(writes[s]).row) = NoRow
        PROVE  /\ writes'[s] \in Seq(Statements)
               /\ Head(writes'[s]) = x /\ Tail(writes'[s]) = tail
               /\ x.op = "create" => View(s, x.row)' = NoRow
    <3>1. /\ <<x>> \o tail \in Seq(Statements)
          /\ Head(<<x>> \o tail) = x /\ Tail(<<x>> \o tail) = tail
      BY <1>2
    <3>2. x.op = "create" => View(s, x.row)' = NoRow
      BY <1>1, <2>2 DEF View
    <3>3. QED
      BY <2>2, <3>1, <3>2
  <2>3. QED
    BY <1>2, <2>1, <2>2, GetDecides
<1>4. UowTypeOK'
  BY <1>1, <1>3 DEF UowInv, UowTypeOK
<1>5. GetsHold'
  BY <1>1, <1>3, OthersKeep
<1>6. RowExclusion' /\ NothingIsCreatedTwice'
  BY <1>1 DEF UowInv, RowExclusion, NothingIsCreatedTwice, Dirty
<1>7. QED
  BY <1>4, <1>5, <1>6 DEF UowInv

(* Flushing one statement: the only step that takes a lock.                  *)
LEMMA FlushKeepsInv ==
  ASSUME UowInv, NEW s \in Sessions, Flush(s)
  PROVE  UowInv'
<1> DEFINE w == Head(writes[s])
<1>1. /\ writes[s] # <<>> /\ w.op # "upsert" /\ UNCHANGED <<stored, disk, phase>>
      /\ \A t \in Sessions : ~Blocks(t, s, w)
      /\ writes' = [writes EXCEPT ![s] = Tail(@)]
      /\ own' = IF w.op = "insert" THEN own ELSE [own EXCEPT ![s] = [@ EXCEPT ![w.row] = w.value]]
      /\ ledger' = IF w.op = "insert" THEN [ledger EXCEPT ![s] = Append(@, w.entry)] ELSE ledger
  BY FlushRuns DEF Flush, Run
<1>2. w \in Statements /\ Tail(writes[s]) \in Seq(Statements) /\ Tail(writes[s]) \in Seq(Requests)
  BY <1>1 DEF UowInv, UowTypeOK, GetsHold
<1>3. /\ \A t \in Sessions \ {s} : own'[t] = own[t] /\ ledger'[t] = ledger[t]
                                   /\ writes'[t] = writes[t] /\ Dirty(t)' = Dirty(t)
      /\ writes'[s] = Tail(writes[s])
  BY <1>1 DEF UowInv, UowTypeOK, Dirty
<1>4. GetsHold'
  <2>1. writes'[s] # <<>> => Tail(writes'[s]) \in Seq(Requests)
                             /\ Head(writes'[s]).op \in {"upsert", "insert"}
    BY <1>2, <1>3, RequestsAwait
  <2>2. QED
    BY <1>1, <1>3, <2>1, OthersKeep
<1>5. NothingIsCreatedTwice'
  BY <1>1 DEF UowInv, NothingIsCreatedTwice
<1>6. CASE w.op = "insert"
  <2>1. own' = own /\ ledger' = [ledger EXCEPT ![s] = Append(@, w.entry)]
    BY <1>1, <1>6
  <2>2. w.entry \in Entries
    BY <1>2, <1>6 DEF Statements, Requests
  <2>3. ledger' \in [Sessions -> Seq(Entries)]
    BY <2>1, <2>2 DEF UowInv, UowTypeOK
  <2>4. UowTypeOK'
    BY <1>1, <1>2, <2>1, <2>3 DEF UowInv, UowTypeOK
  <2>5. \A t \in Sessions : t # s /\ Serialized => ~Dirty(t)
    BY <1>1, <1>6 DEF Blocks
  <2>6. RowExclusion'
    BY <1>3, <2>1, <2>5 DEF UowInv, RowExclusion
  <2>7. QED
    BY <1>4, <1>5, <2>4, <2>6 DEF UowInv
<1>7. CASE w.op # "insert"
  <2>1. ledger' = ledger /\ own' = [own EXCEPT ![s] = [@ EXCEPT ![w.row] = w.value]]
    BY <1>1, <1>7
  <2>2. w.row \in Rows /\ w.value \in Values
    BY <1>1, <1>2, <1>7 DEF Statements, Requests
  <2>3. own' \in [Sessions -> [Rows -> Values \union {NoRow}]]
    BY <2>1, <2>2 DEF UowInv, UowTypeOK
  <2>4. UowTypeOK'
    BY <1>1, <1>2, <2>1, <2>3 DEF UowInv, UowTypeOK
  <2>5. \A t \in Sessions : t # s => IF Serialized THEN ~Dirty(t) ELSE own[t][w.row] = NoRow
    BY <1>1, <1>7 DEF Blocks
  <2>6. \A row \in Rows : row # w.row => own'[s][row] = own[s][row]
    BY <2>1, <2>2 DEF UowInv, UowTypeOK
  <2>7. \A t \in Sessions, row \in Rows :
           t # s => own'[s][row] = NoRow \/ own'[t][row] = NoRow
    <3> SUFFICES ASSUME NEW t \in Sessions, NEW row \in Rows, t # s
                 PROVE  own'[s][row] = NoRow \/ own'[t][row] = NoRow
      OBVIOUS
    <3>1. CASE Serialized
      BY <1>3, <2>5, <3>1 DEF Dirty, Nothing
    <3>2. CASE ~Serialized /\ row = w.row
      BY <1>3, <2>5, <3>2
    <3>3. CASE ~Serialized /\ row # w.row
      BY <1>3, <2>6, <3>3 DEF UowInv, RowExclusion
    <3>4. QED
      BY <3>1, <3>2, <3>3
  <2>8. RowExclusion'
    BY <1>3, <2>5, <2>7 DEF UowInv, RowExclusion
  <2>9. QED
    BY <1>4, <1>5, <2>4, <2>8 DEF UowInv
<1>8. QED
  BY <1>6, <1>7

(* A repository call issues requests.                                        *)
LEMMA IssueKeepsInv ==
  ASSUME UowInv, NEW s \in Sessions, IssueSome(s)
  PROVE  UowInv'
<1>1. PICK batch \in Seq(Requests) : Issue(s, batch)
  BY DEF IssueSome
<1>2. UNCHANGED <<stored, disk, phase, own, ledger>> /\ writes' = [writes EXCEPT ![s] = batch]
  BY <1>1 DEF Issue
<1>3. writes'[s] = batch /\ \A t \in Sessions \ {s} : writes'[t] = writes[t]
  BY <1>2 DEF UowInv, UowTypeOK
<1>4. UowTypeOK'
  BY <1>2, RequestsAwait DEF UowInv, UowTypeOK
<1>5. GetsHold'
  <2>1. writes'[s] # <<>> => Tail(writes'[s]) \in Seq(Requests)
                             /\ Head(writes'[s]).op \in {"upsert", "insert"}
    BY <1>3, RequestsAwait
  <2>2. QED
    BY <1>2, <1>3, <2>1, OthersKeep
<1>6. RowExclusion' /\ NothingIsCreatedTwice'
  BY <1>2 DEF UowInv, RowExclusion, NothingIsCreatedTwice, Dirty
<1>7. QED
  BY <1>4, <1>5, <1>6 DEF UowInv

(* Steps that open, fail or close a session.                                 *)
LEMMA OtherStepsKeepInv ==
  ASSUME UowInv, NEW s \in Sessions, Open(s) \/ Refuse(s) \/ Close(s)
  PROVE  UowInv'
<1>1. CASE Open(s)
  BY <1>1 DEF Open, UowInv, UowTypeOK, RowExclusion, GetsHold, NothingIsCreatedTwice, Dirty, View
<1>2. CASE Refuse(s)
  <2>1. UNCHANGED <<stored, disk, own, ledger>> /\ phase' = [phase EXCEPT ![s] = "refused"]
        /\ writes' = [writes EXCEPT ![s] = <<>>]
    BY <1>2 DEF Refuse, Fail
  <2>2. UowTypeOK' /\ NothingIsCreatedTwice'
    BY <2>1 DEF UowInv, UowTypeOK, NothingIsCreatedTwice
  <2>3. writes'[s] = <<>> /\ \A t \in Sessions \ {s} : writes'[t] = writes[t]
    BY <2>1 DEF UowInv, UowTypeOK
  <2>4. GetsHold'
    BY <2>1, <2>3, OthersKeep
  <2>5. RowExclusion'
    BY <2>1 DEF UowInv, RowExclusion, Dirty
  <2>6. QED
    BY <2>2, <2>4, <2>5 DEF UowInv
<1>3. CASE Close(s)
  <2>1. UNCHANGED <<stored, disk>> /\ phase' = [phase EXCEPT ![s] = "closed"]
        /\ own' = [own EXCEPT ![s] = Nothing] /\ ledger' = [ledger EXCEPT ![s] = <<>>]
        /\ writes' = [writes EXCEPT ![s] = <<>>]
    BY <1>3 DEF Close
  <2>2. UowTypeOK' /\ NothingIsCreatedTwice'
    BY <2>1 DEF UowInv, UowTypeOK, NothingIsCreatedTwice, Nothing
  <2>3. /\ own'[s] = Nothing /\ writes'[s] = <<>> /\ ~Dirty(s)'
        /\ \A t \in Sessions \ {s} : own'[t] = own[t] /\ writes'[t] = writes[t]
                                     /\ Dirty(t)' = Dirty(t)
    BY <2>1 DEF UowInv, UowTypeOK, Dirty
  <2>4. GetsHold'
    BY <2>1, <2>3, OthersKeep
  <2>5. RowExclusion'
    BY <2>3 DEF UowInv, RowExclusion, Nothing
  <2>6. QED
    BY <2>2, <2>4, <2>5 DEF UowInv
<1>4. QED
  BY <1>1, <1>2, <1>3

(* The layer's invariant is preserved by its steps, whoever takes them.      *)
LEMMA UowStepHolds == UowInv /\ [UowNext]_uowVars => UowInv'
<1> SUFFICES ASSUME UowInv, [UowNext]_uowVars PROVE UowInv'
  OBVIOUS
<1>1. CASE UNCHANGED uowVars
  BY <1>1 DEF uowVars, UowInv, UowTypeOK, RowExclusion, GetsHold, NothingIsCreatedTwice,
     Dirty, View
<1>2. CASE UowNext
  BY <1>2, GetKeepsInv, FlushKeepsInv, IssueKeepsInv, OtherStepsKeepInv DEF UowNext
<1>3. QED
  BY <1>1, <1>2
=============================================================================
