----------------------------- MODULE HttpClient -----------------------------
(***************************************************************************)
(* The two HTTP clients of the provider adapters and the calls made over   *)
(* them: api/client.py (The Odds API) and api/player_stats/client.py       *)
(* (Sportmonks), with the retries of tenacity and the extra requests of an *)
(* unconfirmed lineup.  A task makes one call at a time; the server may    *)
(* answer each request in any way.                                         *)
(***************************************************************************)
EXTENDS Naturals

CONSTANTS
  Tasks,        \* the coroutines that make calls
  MaxAttempts,  \* max_attempts of the clients, 4 in the code
  MaxEntries,   \* bound: unconfirmed players of a lineup
  MaxCalls      \* bound: provider calls of a run

ASSUME HttpAssumption ==
  MaxAttempts \in Nat \ {0} /\ MaxEntries \in Nat /\ MaxCalls \in Nat

VARIABLES
  call,    \* the request a task is waiting for, "none" between calls
  left,    \* attempts left for it
  todo,    \* players whose recent matches the lineup still needs
  quota    \* calls the run may still make

httpVars == <<call, left, todo, quota>>

Calls == {"odds", "lineup", "form"}

(* What a request meets: an answer that maps to entities; an httpx error; a  *)
(* 4xx; a 5xx; a 429 with its Retry-After in seconds or absent, or as an HTTP *)
(* date; a body that is not JSON, not of the DTO's shape or (Sportmonks) not  *)
(* in a data envelope; a payload that an entity rejects.                      *)
Responses == {"ok", "transport", "refused", "overloaded", "limited", "limited_until",
              "garbled", "shapeless", "bare", "rejected"}

HttpTypeOK ==
  /\ call \in [Tasks -> Calls \union {"none"}]
  /\ left \in [Tasks -> 0 .. MaxAttempts]
  /\ todo \in [Tasks -> 0 .. MaxEntries]
  /\ quota \in [Tasks -> 0 .. MaxCalls]

-----------------------------------------------------------------------------
Retried == {"overloaded", "limited", "limited_until"}

(* The last of the attempts decides; float() rejects the date of a           *)
(* Retry-After, in the very translation of the 429.                          *)
Exhausted(r) ==
  CASE r = "limited"       -> "RateLimitError"
    [] r = "limited_until" -> "ValueError"
    [] OTHER               -> "ProviderUnavailableError"

UntranslatedJson(r) == IF r = "garbled" THEN "ValueError" ELSE "none"  \* mutant: no except around .json()
Unreadable(r) == IF r \in {"garbled", "shapeless"} THEN "ProviderUnavailableError" ELSE "none"

OddsApiError(r) ==
  CASE r \in Retried                  -> Exhausted(r)
    [] r \in {"transport", "refused"} -> "ProviderUnavailableError"
    [] r = "rejected"                 -> "ValueError"
    [] OTHER                          -> Unreadable(r)

SportmonksError(r) ==
  CASE r \in Retried                          -> Exhausted(r)
    [] r \in {"transport", "refused", "bare"} -> "ProviderUnavailableError"
    [] r = "rejected"                         -> "ValueError"
    [] OTHER                                  -> Unreadable(r)

(* Only Sportmonks wraps its data. *)
Possible(c) == IF c = "odds" THEN Responses \ {"bare"} ELSE Responses

ErrorOf(c, r) == IF c = "odds" THEN OddsApiError(r) ELSE SportmonksError(r)

-----------------------------------------------------------------------------
HttpInit ==
  /\ call = [t \in Tasks |-> "none"]
  /\ left = [t \in Tasks |-> 0]
  /\ todo = [t \in Tasks |-> 0]
  /\ quota = [t \in Tasks |-> 0]

Request(t, c) ==
  /\ call' = [call EXCEPT ![t] = c]
  /\ left' = [left EXCEPT ![t] = MaxAttempts]

HangUp(t) ==
  /\ call' = [call EXCEPT ![t] = "none"]
  /\ left' = [left EXCEPT ![t] = 0]
  /\ todo' = [todo EXCEPT ![t] = 0]

Ask(t, c) ==
  /\ call[t] = "none" /\ quota[t] > 0
  /\ c \in {"odds", "lineup"}
  /\ Request(t, c)
  /\ quota' = [quota EXCEPT ![t] = @ - 1]
  /\ UNCHANGED todo

RetryForever(n) == IF n = 1 THEN MaxAttempts ELSE n - 1  \* mutant: no stop
Spent(n) == n - 1

(* The same request again, after a pause. *)
Retry(t, r) ==
  /\ call[t] # "none" /\ r \in Retried
  /\ Spent(left[t]) > 0
  /\ left' = [left EXCEPT ![t] = Spent(@)]
  /\ UNCHANGED <<call, todo, quota>>

FormOfOneMore(t, entries) ==  \* mutant: off by one
  /\ Request(t, "form")
  /\ todo' = [todo EXCEPT ![t] = entries + 1]

(* A lineup that is not confirmed takes one more request per entry, each     *)
(* with attempts of its own; they are made one after the other.              *)
FormOf(t, entries) ==
  /\ Request(t, "form")
  /\ todo' = [todo EXCEPT ![t] = entries]

Accept(t) ==
  /\ call[t] # "none"
  /\ \/ call[t] = "odds" /\ HangUp(t)
     \/ /\ call[t] = "lineup"
        /\ \/ HangUp(t)
           \/ \E entries \in 1 .. MaxEntries : FormOf(t, entries)
     \/ call[t] = "form" /\ IF todo[t] > 1 THEN FormOf(t, todo[t] - 1) ELSE HangUp(t)
  /\ UNCHANGED quota

(* The call fails as a whole, with the error that reaches the use case. *)
Fail(t, r) ==
  /\ call[t] # "none" /\ r \in Possible(call[t])
  /\ r \in Retried => Spent(left[t]) = 0
  /\ ErrorOf(call[t], r) # "none"
  /\ HangUp(t)
  /\ UNCHANGED quota
=============================================================================
