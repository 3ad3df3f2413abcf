------------------------------ MODULE Service ------------------------------
(***************************************************************************)
(* The process: several pipeline runs (scheduler.py, routers/pipeline.py)  *)
(* and settlements (routers/calibration.py, settle_bet.py) at once, each   *)
(* in a session of its own over one database.  APScheduler keeps ticks     *)
(* apart from each other (max_instances is 1), and nothing keeps a tick    *)
(* apart from the requests or the requests from each other.                *)
(***************************************************************************)
EXTENDS Pipeline

CONSTANTS
  Kinds        \* the ways of starting that this instance exercises

ASSUME KindsAssumption == Kinds \subseteq {"tick", "run", "query"}

-----------------------------------------------------------------------------
(* A tick is only started when no other tick is under way.  *)
Admitted(k) == k = "tick" => \A t \in Sessions : kind[t] # "tick"

Start(s) == \E k \in Kinds : Admitted(k) /\ Begin(s, k)

(* POST /value-bets/settle: a session, no browser. *)
BeginSettle(s) ==
  /\ pc[s] = "idle"
  /\ Open(s)
  /\ Goto(s, "settle")
  /\ kind' = [kind EXCEPT ![s] = "settle"]
  /\ UNCHANGED <<mode, work, matchBets, propBets, reply>>

(* SettleBetUseCase: the value bet is looked up among those that this        *)
(* session can see, all of them committed; its result is inserted each time. *)
(* Saving also upserts the bet's match and bookmaker, as they were just read: *)
(* those emit nothing.                                                        *)
Settle(s, bet) ==
  /\ At(s, "settle")
  /\ bet \in disk
  /\ Issue(s, <<Insert(Settled(bet))>>)
  /\ Goto(s, "settled")
  /\ UNCHANGED <<mode, kind, work, matchBets, propBets, reply>>

BetNotFound(s, bet) ==
  /\ At(s, "settle")
  /\ bet \notin disk
  /\ Answer(s, Failure(kind[s], "notfound"))
  /\ UNCHANGED <<uowVars, mode, kind, work, matchBets, propBets>>

SettleDone(s) ==
  /\ At(s, "settled")
  /\ Answer(s, Success(kind[s]))
  /\ UNCHANGED <<uowVars, mode, kind, work, matchBets, propBets>>

SettleStep(s) ==
  \/ \E bet \in Bets : Settle(s, bet) \/ BetNotFound(s, bet)
  \/ SettleDone(s)

-----------------------------------------------------------------------------
Next == \E s \in Sessions : Start(s) \/ BeginSettle(s) \/ SettleStep(s) \/ RunStep(s)

(* A coroutine that can go on does, a provider call returns or times out,    *)
(* and the database hands a released lock to whoever has been waiting.  No   *)
(* fairness is assumed of the callers: Start and BeginSettle may never come. *)
Fairness ==
  \A s \in Sessions : /\ WF_vars(SettleStep(s) \/ RunStep(s))
                      /\ SF_vars(FlushNext(s))

Spec == Init /\ [][Next]_vars
FairSpec == Spec /\ Fairness

-----------------------------------------------------------------------------
(* Every request is answered and every tick ends, its session closed, even   *)
(* when sessions wait for each other's rows across provider calls.           *)
EveryRequestEnds == \A s \in Sessions : pc[s] # "idle" ~> pc[s] = "idle"

(* Runs take the rows of their matches in one order, so matches alone never  *)
(* make sessions wait in a circle: on every circle somebody waits for a row  *)
(* that matches share (a bookmaker, a player), or two of the matches waited  *)
(* for kick off at the same time, which list_upcoming leaves unordered.      *)
Wanted(s) == Head(writes[s]).row

CirclesNeedASharedRow ==
  \A group \in (SUBSET Sessions) \ {{}} :
    Circle(group) =>
      \/ \E s \in group : Wanted(s) \notin Matches
      \/ \E s, t \in group : /\ Wanted(s) # Wanted(t)
                             /\ stored[Wanted(s)] = stored[Wanted(t)]

(* The value bets that a successful run returned, and the settlement that a  *)
(* successful request confirmed, can be read once it is over (README.md:     *)
(* the pipeline "persists the resulting ValueBet").                          *)
SuccessPersists ==
  [][\A s \in Sessions : (Succeeded(s) /\ pc'[s] = "idle") => Rowset(s) \subseteq disk']_vars

-----------------------------------------------------------------------------
(* A run as its caller sees it: RunContract.  *)
CompletedBets(s) ==
  LET returned == {matchBets[s][i] : i \in DOMAIN matchBets[s]}
                    \union {propBets[s][i] : i \in DOMAIN propBets[s]}
  IN  {bet \in returned : work[s].slate = <<>> \/ bet.match # Current(s)}

(* Every slate a run can be given: a match is on it once. *)
AllSlates ==
  {slate \in UNION {[1..n -> Matches] : n \in 0..Cardinality(Matches)} :
     \A i, j \in DOMAIN slate : i < j => slate[i] # slate[j]}

RunState(s) ==
  CASE pc[s] \in {"idle", "browser"} \/ kind[s] = "settle" -> "ready"
    [] Succeeded(s) /\ kind[s] # "settle" -> "returned"
    [] pc[s] = "answered" /\ ~Succeeded(s) /\ kind[s] # "settle" -> "failed"
    [] OTHER -> "running"

Contract ==
  INSTANCE RunContract WITH
    Callers <- Sessions,
    Slates <- AllSlates,
    BetsOn <- [m \in Matches |-> {bet \in Bets : bet.match = m}],
    state <- [s \in Sessions |-> RunState(s)],
    left <- [s \in Sessions |-> IF RunState(s) = "running" THEN work[s].slate ELSE <<>>],
    bets <- [s \in Sessions |-> IF RunState(s) \in {"running", "returned"}
                                THEN CompletedBets(s) ELSE {}]

KeepsRunContract == Contract!ContractSpec
=============================================================================
