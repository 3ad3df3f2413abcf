------------------------------ MODULE MCService ------------------------------
(* Instances of Service for TLC.  *)
EXTENDS Service

CONSTANTS m1, m2, p1, p2, past, sharp, local, c0, c1, reg, h2h, ou15, ou45

MCRows == {m1, m2, p1, p2, past, sharp, local}
MCValues == {0, 1, 2, 3, c0, c1, reg}
MCClub == [p \in {p1, p2} |-> c1]
MCEntries ==
  {Quote(m, k, b) : m \in Matches, k \in Markets, b \in {sharp, local}}
    \union {Stats(p) : p \in Players} \union Bets \union {Settled(bet) : bet \in Bets}

(* A committed database: matches not known, over, or at two kickoffs. *)
Store(k1, k2) == [row \in MCRows |-> CASE row = m1 -> k1 [] row = m2 -> k2 [] OTHER -> NoRow]

(* As above, with both bookmakers registered, so that runs only change matches. *)
Registering(k1, k2) == [Store(k1, k2) EXCEPT ![sharp] = reg, ![local] = reg]

(* One run at a time, every kind of answer: the flow. *)
FlowStores == {Store(2, 1), Store(1, 0), Store(0, NoRow)}
FlowArchives == {{MatchBet(m1, h2h)}}
FlowSharp == {[cover |-> "none", kickoff |-> 1], [cover |-> "partial", kickoff |-> 2],
              [cover |-> "full", kickoff |-> 3]}
FlowLocal == {<<h2h, ou15>>, <<ou45>>}
FlowProps == {<<[player |-> p1, lined |-> TRUE], [player |-> p2, lined |-> TRUE]>>,
              <<[player |-> p2, lined |-> FALSE]>>}
FlowLineups == {{}, {p1}}
FlowInjuries == {{p2}}
FlowRecent == {c0, NoRow}

(* Several sessions contending for the same rows: the interleavings. *)
BusyStores == {Store(1, 2)}
BusyArchives == {{MatchBet(m1, h2h)}}
BusySharp == {[cover |-> "full", kickoff |-> 3]}
BusyLocal == {<<h2h>>}
BusyProps == {<<>>}
BusyLineups == {{}}
BusyInjuries == {{}}
BusyRecent == {c0}

(* The same, where bookmakers are new, where both are known and only matches *)
(* are changed, and where these kick off at once.                            *)
RowLockStores == BusyStores \union {Registering(1, 2), Registering(1, 1)}

(* Bets insert rows of their own, which nobody waits for: a line without a   *)
(* sharp quote locks the same rows and is skipped.                           *)
RowLockLocal == {<<ou15>>}
=============================================================================
