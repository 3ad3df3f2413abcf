----------------------------- MODULE RunContract -----------------------------
(***************************************************************************)
(* What the caller of a pipeline run may rely on, without its steps        *)
(* (run_pipeline.py, PipelineRunResult): the run takes a slate, completes  *)
(* its matches one at a time, first to last, each adding bets on that      *)
(* match only, and either answers with the bets of all of them or fails    *)
(* with none.                                                              *)
(***************************************************************************)
EXTENDS Sequences

CONSTANTS
  Callers,
  Slates,          \* the slates a run may be given
  BetsOn           \* match -> the bets there can be on it

VARIABLES
  state,           \* caller -> ready, running, returned or failed
  left,            \* caller -> the matches not completed yet
  bets             \* caller -> the bets on the completed ones

contractVars == <<state, left, bets>>

Start(c) ==
  /\ state[c] = "ready"
  /\ state' = [state EXCEPT ![c] = "running"]
  /\ \E slate \in Slates : left' = [left EXCEPT ![c] = slate]
  /\ UNCHANGED bets

CompleteMatch(c) ==
  /\ state[c] = "running" /\ left[c] # <<>>
  /\ \E new \in SUBSET BetsOn[Head(left[c])] : bets' = [bets EXCEPT ![c] = @ \union new]
  /\ left' = [left EXCEPT ![c] = Tail(@)]
  /\ UNCHANGED state

Return(c) ==
  /\ state[c] = "running" /\ left[c] = <<>>
  /\ state' = [state EXCEPT ![c] = "returned"]
  /\ UNCHANGED <<left, bets>>

Fail(c) ==
  /\ state[c] \in {"ready", "running"}
  /\ state' = [state EXCEPT ![c] = "failed"]
  /\ left' = [left EXCEPT ![c] = <<>>]
  /\ bets' = [bets EXCEPT ![c] = {}]

Again(c) ==
  /\ state[c] \in {"returned", "failed"}
  /\ state' = [state EXCEPT ![c] = "ready"]
  /\ bets' = [bets EXCEPT ![c] = {}]
  /\ UNCHANGED left

ContractInit ==
  /\ state = [c \in Callers |-> "ready"]
  /\ left = [c \in Callers |-> <<>>]
  /\ bets = [c \in Callers |-> {}]

ContractNext ==
  \E c \in Callers : Start(c) \/ CompleteMatch(c) \/ Return(c) \/ Fail(c) \/ Again(c)

ContractSpec == ContractInit /\ [][ContractNext]_contractVars
=============================================================================
