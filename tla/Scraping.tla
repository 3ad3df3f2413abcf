------------------------------ MODULE Scraping ------------------------------
(***************************************************************************)
(* The browser that a run scrapes its local bookmaker with: one            *)
(* PlaywrightBrowserSession (browser.py) from `async with` to its end, and *)
(* the calls that PlaywrightLocalOddsProvider (provider.py) makes in it,   *)
(* each on a page of its own.  A call goes through stages, and every stage *)
(* is retried by tenacity (base.py).                                       *)
(*                                                                         *)
(* Playwright is external: any operation on it can raise, and the browser  *)
(* process can die at any moment.  Reading HTML is abstracted to whether   *)
(* the fragment parses (betano.py, betplay.py, stake.py).                  *)
(***************************************************************************)
EXTENDS Naturals, Sequences

CONSTANT MaxAttempts  \* stop_after_attempt, 3 by default

ASSUME MaxAttemptsAssumption == MaxAttempts \in Nat \ {0}

VARIABLES
  supported,  \* LOCAL_BOOKMAKER has a registered scraper: fixed for the process
  pc,         \* where the session, or the call in it, is
  call,       \* the method being called: "odds" or "props"
  tries,      \* failed attempts of the present stage
  raising,    \* the exception under way
  fields,     \* the session's attributes that are not None
  todo,       \* what close() has yet to release
  alive,      \* what exists outside of the process
  refused,    \* history: what could not be released, its close raised
  faults      \* history: failed attempts of the present call, in all stages

vars == <<supported, pc, call, tries, raising, fields, todo, alive, refused, faults>>

-----------------------------------------------------------------------------
(* What a session holds outside of the process, each inside the one before. *)
Layers == {"driver", "browser", "context", "page"}

(* Whatever dies with a layer. *)
Within == [driver |-> Layers, browser |-> Layers \ {"driver"}, context |-> {"context", "page"}]

Stages == {"navigate", "click", "read"}

(* get_odds reads the page as it is, get_player_props opens the players tab first. *)
Path ==
  IF call = "props" THEN <<"navigate", "click", "read", "parse">>
  ELSE <<"navigate", "read", "parse">>

Position(step) == CHOOSE i \in DOMAIN Path : Path[i] = step

(* [mutant] Only timeouts are translated. *)
TranslatedTimeouts(error) == IF error = "timeout" THEN "selector" ELSE "playwright"

(* The exception of the last attempt decides (reraise=True).  *)
Translated(error) == IF error = "timeout" THEN "selector" ELSE "scraping"

Goto(step) == pc' = step
Raise(error) == raising' = error

-----------------------------------------------------------------------------
(* The session *)

(* start(): the driver comes up before the try block of the method does. *)
StartDriver ==
  /\ pc = "created"
  /\ Goto("launch")
  /\ alive' = {"driver"}
  /\ fields' = {"driver"}
  /\ UNCHANGED <<supported, call, tries, raising, todo, refused, faults>>

StartDriverRaises ==
  /\ pc = "created"
  /\ Raise("playwright")
  /\ Goto("over")
  /\ UNCHANGED <<supported, call, tries, fields, todo, alive, refused, faults>>

(* chromium.launch, then new_context. *)
Launch ==
  /\ pc = "launch"
  /\ "driver" \in alive
  /\ alive' = alive \union {"browser"}
  /\ fields' = fields \union {"browser"}
  /\ Goto("context")
  /\ UNCHANGED <<supported, call, tries, raising, todo, refused, faults>>

NewContext ==
  /\ pc = "context"
  /\ "browser" \in alive
  /\ alive' = alive \union {"context"}
  /\ fields' = fields \union {"context"}
  /\ Goto("open")
  /\ UNCHANGED <<supported, call, tries, raising, todo, refused, faults>>

(* close() takes the attributes and sets them to None, then releases them. *)
BeginClose ==
  /\ todo' = fields
  /\ fields' = {}

(* A half-started session closes itself, and raises a ScrapingError. *)
StartRaises ==
  /\ pc \in {"launch", "context"}
  /\ Raise("scraping")
  /\ BeginClose
  /\ Goto("closing")
  /\ UNCHANGED <<supported, call, tries, alive, refused, faults>>

(* __aexit__: the run is over, or the exception of a call goes through it. *)
Leave ==
  /\ pc \in {"open", "failed"}
  /\ BeginClose
  /\ Goto("closing")
  /\ UNCHANGED <<supported, call, tries, raising, alive, refused, faults>>

(* What it releases next: the context before the browser before the driver. *)
Innermost(layer) == layer \in todo /\ Within[layer] \intersect todo = {layer}

Release(layer) ==
  /\ pc = "closing" /\ Innermost(layer)
  /\ alive' = alive \ Within[layer]
  /\ todo' = todo \ {layer}
  /\ UNCHANGED <<supported, pc, call, tries, raising, fields, refused, faults>>

(* [mutant] No finally: the first close that raises is the last one. *)
ReleaseRaisesOut(layer) ==
  /\ pc = "closing" /\ Innermost(layer)
  /\ refused' = refused \union {layer}
  /\ Raise("playwright")
  /\ todo' = {}
  /\ UNCHANGED <<supported, pc, call, tries, fields, alive, faults>>

(* The next layer is released all the same, and the new exception takes the *)
(* place of the one under way.                                              *)
ReleaseRaises(layer) ==
  /\ pc = "closing" /\ Innermost(layer)
  /\ refused' = refused \union {layer}
  /\ Raise("playwright")
  /\ todo' = todo \ {layer}
  /\ UNCHANGED <<supported, pc, call, tries, fields, alive, faults>>

Closed ==
  /\ pc = "closing"
  /\ todo = {}
  /\ Goto("over")
  /\ UNCHANGED <<supported, call, tries, raising, fields, todo, alive, refused, faults>>

-----------------------------------------------------------------------------
(* A call *)

(* new_page, and the scraper for it: a name without one is a ValueError.  *)
NewPage(k) ==
  /\ pc = "open"
  /\ "context" \in alive
  /\ alive' = alive \union {"page"}
  /\ call' = k
  /\ tries' = 0
  /\ faults' = 0
  /\ \/ supported /\ Goto("navigate") /\ UNCHANGED raising
     \/ ~supported /\ Goto("cleanup") /\ Raise("value")
  /\ UNCHANGED <<supported, fields, todo, refused>>

(* Outside of any translation, and before the try block that closes the page. *)
NewPageRaises(k) ==
  /\ pc = "open"
  /\ call' = k
  /\ tries' = 0
  /\ faults' = 0
  /\ Raise("playwright")
  /\ Goto("failed")
  /\ UNCHANGED <<supported, fields, todo, alive, refused>>

(* _goto_and_wait, _raw_click or _wait_and_read. *)
StageWorks(stage) ==
  /\ pc = stage
  /\ "page" \in alive
  /\ tries' = 0
  /\ Goto(Path[Position(stage) + 1])
  /\ UNCHANGED <<supported, call, raising, fields, todo, alive, refused, faults>>

(* [mutant] One attempt fewer, and one too many. *)
LastAttemptEarly == tries + 2 >= MaxAttempts
LastAttemptLate == tries = MaxAttempts

LastAttempt == tries + 1 = MaxAttempts

(* A page whose browser is gone raises at once, it does not time out.  *)
Faults == IF "page" \in alive THEN {"timeout", "error"} ELSE {"error"}

(* [mutant] The attempts are not counted. *)
RetryUncounted(stage) ==
  /\ pc = stage
  /\ ~LastAttempt
  /\ UNCHANGED vars

Retry(stage) ==
  /\ pc = stage
  /\ ~LastAttempt
  /\ tries' = tries + 1
  /\ faults' = faults + 1
  /\ UNCHANGED <<supported, pc, call, raising, fields, todo, alive, refused>>

GiveUp(stage, error) ==
  /\ pc = stage
  /\ LastAttempt
  /\ error \in Faults
  /\ faults' = faults + 1
  /\ Raise(Translated(error))
  /\ Goto("cleanup")
  /\ UNCHANGED <<supported, call, tries, fields, todo, alive, refused>>

(* The fragment parses, lacks what a scraper needs (a ScrapingError), or   *)
(* holds what an entity rejects (a ValueError).  No page is needed for it. *)
Parse(outcome) ==
  /\ pc = "parse"
  /\ outcome \in {"none", "scraping", "selector", "value"}
  /\ Raise(outcome)
  /\ Goto("cleanup")
  /\ UNCHANGED <<supported, call, tries, fields, todo, alive, refused, faults>>

(* [mutant] No finally: the page is only closed after a call that worked. *)
ClosePageOnSuccess ==
  /\ pc = "cleanup"
  /\ alive' = IF raising = "none" THEN alive \ {"page"} ELSE alive
  /\ Goto(IF raising = "none" THEN "open" ELSE "failed")
  /\ UNCHANGED <<supported, call, tries, raising, fields, todo, refused, faults>>

(* The finally block of the call. *)
ClosePage ==
  /\ pc = "cleanup"
  /\ alive' = alive \ {"page"}
  /\ Goto(IF raising = "none" THEN "open" ELSE "failed")
  /\ UNCHANGED <<supported, call, tries, raising, fields, todo, refused, faults>>

ClosePageRaises ==
  /\ pc = "cleanup"
  /\ refused' = refused \union {"page"}
  /\ Raise("playwright")
  /\ Goto("failed")
  /\ UNCHANGED <<supported, call, tries, fields, todo, alive, faults>>

(* The browser process dies. *)
Crash ==
  /\ "browser" \in alive
  /\ alive' = alive \ Within["browser"]
  /\ UNCHANGED <<supported, pc, call, tries, raising, fields, todo, refused, faults>>

-----------------------------------------------------------------------------
Init ==
  /\ supported \in BOOLEAN
  /\ pc = "created"
  /\ call = "odds"
  /\ tries = 0
  /\ raising = "none"
  /\ fields = {}
  /\ todo = {}
  /\ alive = {}
  /\ refused = {}
  /\ faults = 0

(* The next request, or tick, has a session of its own. *)
NextSession ==
  /\ pc = "over"
  /\ UNCHANGED supported
  /\ pc' = "created"
  /\ call' = "odds"
  /\ tries' = 0
  /\ raising' = "none"
  /\ fields' = {}
  /\ todo' = {}
  /\ alive' = {}
  /\ refused' = {}
  /\ faults' = 0

Starting == StartDriver \/ StartDriverRaises \/ Launch \/ NewContext \/ StartRaises
Closing == (\E layer \in todo : Release(layer) \/ ReleaseRaises(layer)) \/ Closed
InCall ==
  \/ \E stage \in Stages :
       \/ StageWorks(stage)
       \/ Retry(stage)
       \/ \E error \in {"timeout", "error"} : GiveUp(stage, error)
  \/ \E outcome \in {"none", "scraping", "selector", "value"} : Parse(outcome)
  \/ ClosePage
  \/ ClosePageRaises

Next ==
  \/ Starting
  \/ \E k \in {"odds", "props"} : NewPage(k) \/ NewPageRaises(k)
  \/ InCall
  \/ Leave
  \/ Closing
  \/ Crash
  \/ NextSession

(* Every Playwright operation returns, raises or times out, and an exception *)
(* goes on to __aexit__; nobody has to call, to leave or to come back.        *)
Fairness == WF_vars(Starting) /\ WF_vars(InCall) /\ WF_vars(Closing)
              /\ WF_vars(pc = "failed" /\ Leave)

Spec == Init /\ [][Next]_vars
FairSpec == Spec /\ Fairness

-----------------------------------------------------------------------------
(* Types: among others, a stage never fails more often than it is tried.  *)
TypeOK ==
  /\ supported \in BOOLEAN
  /\ pc \in {"created", "launch", "context", "open", "parse", "cleanup", "failed",
             "closing", "over"} \union Stages
  /\ call \in {"odds", "props"}
  /\ tries \in 0..(MaxAttempts - 1)
  /\ raising \in {"none", "scraping", "selector", "value", "playwright"}
  /\ fields \subseteq {"driver", "browser", "context"}
  /\ todo \subseteq {"driver", "browser", "context"}
  /\ alive \subseteq Layers
  /\ refused \subseteq Layers
  /\ faults \in Nat

(* browser.py, close: "each step running even if the previous one failed".  *)
(* However the session ends - a half start, a failed call, a dead browser -  *)
(* what outlives it is only what it tried to release and could not.           *)
NothingIsAbandoned == pc = "over" => alive \subseteq refused

(* provider.py: each call "gets a fresh Page that is always closed, even     *)
(* when scraping fails mid-flight": no call starts, and no exception leaves  *)
(* one, while an earlier page is open that nobody failed to close.            *)
PagesAreClosed == pc \in {"open", "failed"} => ("page" \in alive => "page" \in refused)

(* The retries of base.py: each stage has MaxAttempts attempts of its own, so *)
(* a call that gives up on a page saw at least that many faults, and the n-th  *)
(* stage is only reached, or given up, within n stages' worth of them.         *)
RetryBudget ==
  [][\A n \in 1..Len(Path) :
       (pc \in Stages /\ pc = Path[n])
         => /\ faults <= n * (MaxAttempts - 1)
            /\ pc' = "cleanup" => /\ faults' >= MaxAttempts
                                  /\ faults' <= n * (MaxAttempts - 1) + 1]_vars

(* exceptions.py: what goes wrong on a page leaves it as a ProviderError; a  *)
(* Playwright error gets out of a call that reached its page only if closing *)
(* something raised it.                                                       *)
OnlyClosingLeaks == raising = "playwright" /\ refused = {} => faults = 0

(* Every call comes back and every session that starts, or fails, ends: a run *)
(* that holds row locks never waits for a page for ever.                       *)
EveryCallEnds == pc \notin {"open", "over"} ~> pc \in {"open", "over"}

(* base.py:13-14: "no Playwright exception may leak past this package", so a *)
(* call of the provider never fails with one.                                  *)
NoPlaywrightErrorLeaks == pc = "failed" => raising # "playwright"
=============================================================================
