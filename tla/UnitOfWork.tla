----------------------------- MODULE UnitOfWork -----------------------------
(***************************************************************************)
(* The persistence layer as its callers meet it: every request and every   *)
(* scheduler tick opens one AsyncSession (session.py), the repositories    *)
(* only flush through it, and leaving the session's context manager rolls  *)
(* back whatever nobody committed.  Two kinds of statement go to the       *)
(* database:                                                               *)
(*   - an upsert of a reference row (match, player, bookmaker), keyed by   *)
(*     its natural key: a get, and then, decided by what the get answered, *)
(*     an INSERT, an UPDATE or nothing.  Other sessions act in between;    *)
(*   - an insert of an append-only row (quote, player stats, bet).         *)
(* The database below is external.  Serialized is its granularity of write *)
(* locking: TRUE for SQLite (one writer), FALSE for Postgres (row locks    *)
(* and unique keys).  A write lock is kept until the session ends.         *)
(***************************************************************************)
EXTENDS Naturals, Sequences, FiniteSets

CONSTANTS
  Sessions,    \* the sessions that may be open at once
  Rows,        \* natural keys of reference rows
  Values,      \* what a reference row may hold
  NoRow,       \* the row is absent
  Entries,     \* append-only rows
  Serialized,  \* TRUE: one writer for the whole database
  Stores,      \* the committed reference rows a process may start from
  Archives     \* the committed append-only rows it may start from

ASSUME NoRowAssumption == NoRow \notin Values
ASSUME SerializedAssumption == Serialized \in BOOLEAN
ASSUME StoresAssumption == /\ Stores \subseteq [Rows -> Values \union {NoRow}]
                           /\ Archives \subseteq SUBSET Entries

VARIABLES
  stored,    \* committed reference rows
  disk,      \* committed append-only rows
  phase,     \* session -> closed, open, or failed: refused a lock, collided
  own,       \* session -> its uncommitted version of each row, NoRow if none
  ledger,    \* session -> the append-only rows it has inserted, in order
  writes     \* session -> statements issued by the repositories, not yet run

uowVars == <<stored, disk, phase, own, ledger, writes>>

-----------------------------------------------------------------------------
(* Statements *)

Upsert(row, value) == [op |-> "upsert", row |-> row, value |-> value]
Insert(entry) == [op |-> "insert", entry |-> entry]

(* What a repository asks for; and what that becomes once a get was answered. *)
Requests == [op : {"upsert"}, row : Rows, value : Values]
              \union [op : {"insert"}, entry : Entries]

Statements == [op : {"create", "update"}, row : Rows, value : Values] \union Requests

Nothing == [row \in Rows |-> NoRow]

(* What session s reads: its own version, else the committed one. *)
View(s, row) == IF own[s][row] # NoRow THEN own[s][row] ELSE stored[row]

Dirty(s) == own[s] # Nothing \/ ledger[s] # <<>>

(* A row that s has found absent is there after all. *)
Duplicate(s, w) == w.op = "create" /\ View(s, w.row) # NoRow

(* t holds the lock that statement w of s needs; a get needs none. *)
Blocks(t, s, w) ==
  /\ t # s
  /\ w.op # "upsert"
  /\ IF Serialized THEN Dirty(t) ELSE w.op # "insert" /\ own[t][w.row] # NoRow

WaitsFor(s, t) ==
  /\ phase[s] = "open"
  /\ writes[s] # <<>>
  /\ Blocks(t, s, Head(writes[s]))

(* Sessions that wait for each other, each for one and one for each. *)
Circle(group) ==
  \A t \in group : /\ \E u \in group : WaitsFor(t, u)
                   /\ \E u \in group : WaitsFor(u, t)

Deadlocked(s) == \E group \in SUBSET Sessions : s \in group /\ Circle(group)

-----------------------------------------------------------------------------
(* Actions *)

UowInit ==
  /\ stored \in Stores
  /\ disk \in Archives
  /\ phase = [s \in Sessions |-> "closed"]
  /\ own = [s \in Sessions |-> Nothing]
  /\ ledger = [s \in Sessions |-> <<>>]
  /\ writes = [s \in Sessions |-> <<>>]

(* async with session_factory() as session *)
Open(s) ==
  /\ phase[s] = "closed"
  /\ phase' = [phase EXCEPT ![s] = "open"]
  /\ UNCHANGED <<stored, disk, own, ledger, writes>>

(* A repository call: its statements, to be run in order before it returns. *)
Issue(s, batch) ==
  /\ phase[s] = "open"
  /\ writes[s] = <<>>
  /\ writes' = [writes EXCEPT ![s] = batch]
  /\ UNCHANGED <<stored, disk, phase, own, ledger>>

(* session.get of the next upsert: the object is added if there was none,  *)
(* else assigned to, which emits nothing if it has these values already.   *)
Decided(s, w) ==
  CASE View(s, w.row) = w.value -> <<>>
    [] View(s, w.row) = NoRow -> <<[w EXCEPT !.op = "create"]>>
    [] OTHER -> <<[w EXCEPT !.op = "update"]>>

Get(s) ==
  /\ phase[s] = "open"
  /\ writes[s] # <<>>
  /\ Head(writes[s]).op = "upsert"
  /\ writes' = [writes EXCEPT ![s] = Decided(s, Head(@)) \o Tail(@)]
  /\ UNCHANGED <<stored, disk, phase, own, ledger>>

(* The session is of no more use: its next statement would not be run. *)
Fail(s, how) ==
  /\ phase' = [phase EXCEPT ![s] = how]
  /\ writes' = [writes EXCEPT ![s] = <<>>]
  /\ UNCHANGED <<stored, disk, own, ledger>>

(* [mutant] The repositories commit where they flush. *)
RunCommitting(s, w) ==
  /\ stored' = IF w.op = "insert" THEN stored ELSE [stored EXCEPT ![w.row] = w.value]
  /\ disk' = IF w.op = "insert" THEN disk \union {w.entry} ELSE disk
  /\ writes' = [writes EXCEPT ![s] = Tail(@)]
  /\ UNCHANGED <<phase, own, ledger>>

Run(s, w) ==
  /\ own' = IF w.op = "insert" THEN own ELSE [own EXCEPT ![s] = [@ EXCEPT ![w.row] = w.value]]
  /\ ledger' = IF w.op = "insert" THEN [ledger EXCEPT ![s] = Append(@, w.entry)] ELSE ledger
  /\ writes' = [writes EXCEPT ![s] = Tail(@)]
  /\ UNCHANGED <<stored, disk, phase>>

(* The next statement is flushed, once nobody is in its way. *)
Flush(s) ==
  /\ phase[s] = "open"
  /\ writes[s] # <<>>
  /\ Head(writes[s]).op # "upsert"
  /\ \A t \in Sessions : ~Blocks(t, s, Head(writes[s]))
  /\ IF Duplicate(s, Head(writes[s])) THEN Fail(s, "collided") ELSE Run(s, Head(writes[s]))

(* SQLite gives up on a lock it waited too long for; Postgres picks a      *)
(* victim only among deadlocked transactions.  Either raises in the flush. *)
Refused(s) == IF Serialized THEN \E t \in Sessions : WaitsFor(s, t) ELSE Deadlocked(s)

Refuse(s) == Refused(s) /\ Fail(s, "refused")

(* Leaving the context manager: nothing was committed, so all of it goes. *)
Close(s) ==
  /\ phase[s] # "closed"
  /\ phase' = [phase EXCEPT ![s] = "closed"]
  /\ own' = [own EXCEPT ![s] = Nothing]
  /\ ledger' = [ledger EXCEPT ![s] = <<>>]
  /\ writes' = [writes EXCEPT ![s] = <<>>]
  /\ UNCHANGED <<stored, disk>>

(* The layer on its own: sessions that issue any statements, in any order.  *)
IssueSome(s) == \E batch \in Seq(Requests) : Issue(s, batch)

UowNext ==
  \E s \in Sessions :
    Open(s) \/ IssueSome(s) \/ Get(s) \/ Flush(s) \/ Refuse(s) \/ Close(s)

UowSpec == UowInit /\ [][UowNext]_uowVars

-----------------------------------------------------------------------------
(* Properties of every use of the layer *)

(* Types of the session table and of the pending statements (session.py,   *)
(* upserts.py): a row a session touched holds a value, never a statement.  *)
UowTypeOK ==
  /\ stored \in [Rows -> Values \union {NoRow}]
  /\ disk \subseteq Entries
  /\ phase \in [Sessions -> {"closed", "open", "refused", "collided"}]
  /\ own \in [Sessions -> [Rows -> Values \union {NoRow}]]
  /\ ledger \in [Sessions -> Seq(Entries)]
  /\ writes \in [Sessions -> Seq(Statements)]

(* Nobody creates a row that is there: between the get that found none and  *)
(* the INSERT it decided on, other sessions may create the same match,      *)
(* player or bookmaker, but never for good, and a session finds what it has *)
(* created itself when it saves the row again (upserts.py, get-then-add).   *)
NothingIsCreatedTwice == \A s \in Sessions : phase[s] # "collided"
=============================================================================
