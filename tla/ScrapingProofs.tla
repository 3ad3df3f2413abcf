--------------------------- MODULE ScrapingProofs ---------------------------
(***************************************************************************)
(* Proofs about the browser session, for any number of attempts per stage. *)
(***************************************************************************)
EXTENDS Scraping, TLAPS

-----------------------------------------------------------------------------
(* The inductive invariant *)

InPage == Stages \union {"parse", "cleanup"}

(* What a session has attributes for, as it starts and closes.               *)
Held ==
  CASE pc \in {"created", "closing", "over"} -> {}
    [] pc = "launch" -> {"driver"}
    [] pc = "context" -> {"driver", "browser"}
    [] OTHER -> {"driver", "browser", "context"}

(* What is alive is still referred to, or could not be released; a page is   *)
(* only alive within a call, or because it could not be closed.              *)
Accounted ==
  /\ fields = Held
  /\ alive \ {"page"} \subseteq fields \union todo \union refused
  /\ pc \notin InPage => ("page" \in alive => "page" \in refused)
  /\ pc # "closing" => todo = {}

(* Where no exception is under way, and what the faults of a call add up to. *)
Faultless ==
  /\ pc \in {"created", "launch", "context"} => raising = "none" /\ faults = 0
  /\ pc \in Stages \union {"open", "parse"} => raising = "none"
  /\ pc = "click" => call = "props"
  /\ raising = "playwright" /\ refused = {} => faults = 0

(* The stages of a call before the present one, and the step after it.       *)
Passed(k, stage) ==
  CASE stage = "navigate" -> 0
    [] stage = "click" -> 1
    [] stage = "read" -> (IF k = "props" THEN 2 ELSE 1)

Following(k, stage) ==
  CASE stage = "navigate" -> (IF k = "props" THEN "click" ELSE "read")
    [] stage = "click" -> "read"
    [] stage = "read" -> "parse"

(* Each of the stages before cost MaxAttempts - 1 faults at most.            *)
Budgeted ==
  pc \in Stages => /\ tries <= faults
                   /\ faults <= Passed(call, pc) * (MaxAttempts - 1) + tries

ScrapingInv == TypeOK /\ Accounted /\ Faultless /\ Budgeted

-----------------------------------------------------------------------------
(* A stage has one place in the path of its call.                            *)
LEMMA Order ==
  ASSUME call \in {"odds", "props"}, NEW stage \in Stages, stage = "click" => call = "props"
  PROVE  /\ \A n \in 1..Len(Path) : Path[n] = stage <=> n = Passed(call, stage) + 1
         /\ Path[Position(stage) + 1] = Following(call, stage)
<1>1. CASE call = "odds"
  <2>1. Path = <<"navigate", "read", "parse">>
    BY <1>1 DEF Path
  <2>2. /\ DOMAIN Path = 1..3 /\ Len(Path) = 3
        /\ Path[1] = "navigate" /\ Path[2] = "read" /\ Path[3] = "parse"
    BY <2>1
  <2>3. stage = "navigate" \/ stage = "read"
    BY <1>1 DEF Stages
  <2>4. \A n \in 1..3 : Path[n] = stage <=> n = Passed(call, stage) + 1
    BY <1>1, <2>2, <2>3 DEF Passed
  <2>5. Passed(call, stage) + 1 \in 1..3
    BY <1>1, <2>3 DEF Passed
  <2>6. Position(stage) = Passed(call, stage) + 1
    BY <2>2, <2>4, <2>5 DEF Position
  <2>7. Path[Position(stage) + 1] = Following(call, stage)
    BY <1>1, <2>2, <2>3, <2>6 DEF Passed, Following
  <2>8. QED
    BY <2>2, <2>4, <2>7
<1>2. CASE call = "props"
  <2>1. Path = <<"navigate", "click", "read", "parse">>
    BY <1>2 DEF Path
  <2>2. /\ DOMAIN Path = 1..4 /\ Len(Path) = 4
        /\ Path[1] = "navigate" /\ Path[2] = "click" /\ Path[3] = "read" /\ Path[4] = "parse"
    BY <2>1
  <2>3. stage = "navigate" \/ stage = "click" \/ stage = "read"
    BY DEF Stages
  <2>4. \A n \in 1..4 : Path[n] = stage <=> n = Passed(call, stage) + 1
    BY <1>2, <2>2, <2>3 DEF Passed
  <2>5. Passed(call, stage) + 1 \in 1..4
    BY <1>2, <2>3 DEF Passed
  <2>6. Position(stage) = Passed(call, stage) + 1
    BY <2>2, <2>4, <2>5 DEF Position
  <2>7. Path[Position(stage) + 1] = Following(call, stage)
    BY <1>2, <2>2, <2>3, <2>6 DEF Passed, Following
  <2>8. QED
    BY <2>2, <2>4, <2>7
<1>3. QED
  BY <1>1, <1>2


-----------------------------------------------------------------------------
(* The invariant is inductive *)

LEMMA InitEstablishes == Init => ScrapingInv
BY MaxAttemptsAssumption
   DEF Init, ScrapingInv, TypeOK, Accounted, Held, Faultless, Budgeted, Stages, InPage

(* Starting and leaving a session.                                           *)
LEMMA SessionPreserves ==
  ASSUME ScrapingInv, Starting \/ Leave \/ NextSession
  PROVE  ScrapingInv'
<1> USE MaxAttemptsAssumption DEF ScrapingInv
<1>1. CASE StartDriver
  BY <1>1 DEF StartDriver, TypeOK, Accounted, Held, Faultless, Budgeted, Stages, InPage, Layers, Goto, Raise
<1>2. CASE StartDriverRaises
  BY <1>2 DEF StartDriverRaises, TypeOK, Accounted, Held, Faultless, Budgeted, Stages, InPage, Layers, Goto, Raise
<1>3. CASE Launch
  BY <1>3 DEF Launch, TypeOK, Accounted, Held, Faultless, Budgeted, Stages, InPage, Layers, Goto, Raise
<1>4. CASE NewContext
  BY <1>4 DEF NewContext, TypeOK, Accounted, Held, Faultless, Budgeted, Stages, InPage, Layers, Goto, Raise
<1>5. CASE StartRaises
  BY <1>5 DEF StartRaises, BeginClose, TypeOK, Accounted, Held, Faultless, Budgeted, Stages, InPage, Layers, Goto, Raise
<1>6. CASE Leave
  BY <1>6 DEF Leave, BeginClose, TypeOK, Accounted, Held, Faultless, Budgeted, Stages, InPage, Layers, Goto, Raise
<1>7. CASE NextSession
  BY <1>7 DEF NextSession, TypeOK, Accounted, Held, Faultless, Budgeted, Stages, InPage, Layers, Goto, Raise
<1>8. QED
  BY <1>1, <1>2, <1>3, <1>4, <1>5, <1>6, <1>7 DEF Starting

(* close() and a dying browser.                                              *)
LEMMA ClosePreserves ==
  ASSUME ScrapingInv, Closing \/ Crash
  PROVE  ScrapingInv'
<1> USE MaxAttemptsAssumption DEF ScrapingInv
<1>1. ASSUME NEW layer \in todo, Release(layer)
      PROVE  ScrapingInv'
  BY <1>1 DEF Release, Innermost, Within, TypeOK, Accounted, Held, Faultless, Budgeted, Stages, InPage, Layers, Goto, Raise
<1>2. ASSUME NEW layer \in todo, ReleaseRaises(layer)
      PROVE  ScrapingInv'
  BY <1>2 DEF ReleaseRaises, Innermost, TypeOK, Accounted, Held, Faultless, Budgeted, Stages, InPage, Layers, Goto, Raise
<1>3. CASE Closed
  BY <1>3 DEF Closed, TypeOK, Accounted, Held, Faultless, Budgeted, Stages, InPage, Layers, Goto, Raise
<1>4. CASE Crash
  BY <1>4 DEF Crash, Within, TypeOK, Accounted, Held, Faultless, Budgeted, Stages, InPage, Layers, Goto, Raise
<1>5. QED
  BY <1>1, <1>2, <1>3, <1>4 DEF Closing

(* A call.                                                                   *)
LEMMA CallPreserves ==
  ASSUME ScrapingInv, InCall \/ \E k \in {"odds", "props"} : NewPage(k) \/ NewPageRaises(k)
  PROVE  ScrapingInv'
<1> USE MaxAttemptsAssumption DEF ScrapingInv
<1>1. ASSUME NEW k \in {"odds", "props"}, NewPage(k)
      PROVE  ScrapingInv'
  BY <1>1 DEF NewPage, Passed, TypeOK, Accounted, Held, Faultless, Budgeted, Stages, InPage, Layers, Goto, Raise
<1>2. ASSUME NEW k \in {"odds", "props"}, NewPageRaises(k)
      PROVE  ScrapingInv'
  BY <1>2 DEF NewPageRaises, TypeOK, Accounted, Held, Faultless, Budgeted, Stages, InPage, Layers, Goto, Raise
<1>3. ASSUME NEW stage \in Stages, StageWorks(stage)
      PROVE  ScrapingInv'
  <2>1. pc' = Following(call, stage)
    BY <1>3, Order DEF StageWorks, Goto, Faultless, TypeOK
  <2>2. QED
    BY <1>3, <2>1 DEF StageWorks, Following, Passed, TypeOK, Accounted, Held, Faultless, Budgeted, Stages, InPage, Layers, Goto, Raise
<1>4. ASSUME NEW stage \in Stages, Retry(stage)
      PROVE  ScrapingInv'
  BY <1>4 DEF Retry, LastAttempt, Passed, TypeOK, Accounted, Held, Faultless, Budgeted, Stages, InPage, Layers, Goto, Raise
<1>5. ASSUME NEW stage \in Stages, NEW error \in {"timeout", "error"}, GiveUp(stage, error)
      PROVE  ScrapingInv'
  BY <1>5 DEF GiveUp, LastAttempt, Translated, TypeOK, Accounted, Held, Faultless, Budgeted, Stages, InPage, Layers, Goto, Raise
<1>6. ASSUME NEW outcome \in {"none", "scraping", "selector", "value"}, Parse(outcome)
      PROVE  ScrapingInv'
  BY <1>6 DEF Parse, TypeOK, Accounted, Held, Faultless, Budgeted, Stages, InPage, Layers, Goto, Raise
<1>7. CASE ClosePage
  BY <1>7 DEF ClosePage, TypeOK, Accounted, Held, Faultless, Budgeted, Stages, InPage, Layers, Goto, Raise
<1>8. CASE ClosePageRaises
  BY <1>8 DEF ClosePageRaises, TypeOK, Accounted, Held, Faultless, Budgeted, Stages, InPage, Layers, Goto, Raise
<1>9. QED
  BY <1>1, <1>2, <1>3, <1>4, <1>5, <1>6, <1>7, <1>8 DEF InCall

(* A step that changes nothing.                                              *)
LEMMA StutterPreserves == ScrapingInv /\ UNCHANGED vars => ScrapingInv'
BY DEF vars, ScrapingInv, TypeOK, Accounted, Held, Faultless, Budgeted

LEMMA Inductive == Spec => []ScrapingInv
<1>1. ScrapingInv /\ [Next]_vars => ScrapingInv'
  BY SessionPreserves, ClosePreserves, CallPreserves, StutterPreserves DEF Next
<1>2. QED
  BY InitEstablishes, <1>1, PTL DEF Spec

-----------------------------------------------------------------------------
(* Theorems *)

(* Types of a session and of its calls (browser.py, base.py), for any number *)
(* of attempts.                                                              *)
THEOREM TypeCorrect == Spec => []TypeOK
BY Inductive, PTL DEF ScrapingInv

(* Whatever fails, raises or dies, in any order, a session that is over has  *)
(* tried to release all that it opened (browser.py, start and close).        *)
THEOREM NothingOutlives == Spec => []NothingIsAbandoned
<1>1. ScrapingInv => NothingIsAbandoned
  BY DEF ScrapingInv, Accounted, Held, InPage, Stages, NothingIsAbandoned
<1>2. QED
  BY Inductive, <1>1, PTL

(* No call leaves its page open (provider.py, the finally of each method).   *)
THEOREM PagesClose == Spec => []PagesAreClosed
<1>1. ScrapingInv => PagesAreClosed
  BY DEF ScrapingInv, Accounted, InPage, Stages, PagesAreClosed
<1>2. QED
  BY Inductive, <1>1, PTL

(* Past new_page, only a close raises what is not a ProviderError (base.py). *)
THEOREM PageErrorsAreTranslated == Spec => []OnlyClosingLeaks
<1>1. ScrapingInv => OnlyClosingLeaks
  BY DEF ScrapingInv, Faultless, OnlyClosingLeaks
<1>2. QED
  BY Inductive, <1>1, PTL

(* The retries of a call stay within their budget, however many attempts are *)
(* configured (base.py, AsyncRetrying per stage).                             *)
THEOREM RetriesAreBounded == Spec => RetryBudget
<1> DEFINE Budget(n) ==
      (pc \in Stages /\ pc = Path[n])
        => /\ faults <= n * (MaxAttempts - 1)
           /\ pc' = "cleanup" => /\ faults' >= MaxAttempts
                                 /\ faults' <= n * (MaxAttempts - 1) + 1
<1>1. ASSUME ScrapingInv, Next, NEW n \in 1..Len(Path)
      PROVE  Budget(n)
  <2> SUFFICES ASSUME pc \in Stages, pc = Path[n]
               PROVE  /\ faults <= n * (MaxAttempts - 1)
                      /\ pc' = "cleanup" => /\ faults' >= MaxAttempts
                                            /\ faults' <= n * (MaxAttempts - 1) + 1
    OBVIOUS
  <2>1. n = Passed(call, pc) + 1
    BY <1>1, Order DEF ScrapingInv, TypeOK, Faultless
  <2>2. Passed(call, pc) \in {0, 1, 2}
    BY DEF Passed, Stages
  <2>3. faults \in Nat /\ tries \in 0..(MaxAttempts - 1) /\ tries <= faults
    BY <1>1 DEF ScrapingInv, TypeOK, Budgeted
  <2>4. faults <= Passed(call, pc) * (MaxAttempts - 1) + tries
    BY <1>1 DEF ScrapingInv, Budgeted
  <2>5. n * (MaxAttempts - 1) = Passed(call, pc) * (MaxAttempts - 1) + (MaxAttempts - 1)
    BY <2>1, <2>2, MaxAttemptsAssumption
  <2>6. Passed(call, pc) * (MaxAttempts - 1) \in Nat
    BY <2>2, MaxAttemptsAssumption
  <2>7. ASSUME pc' = "cleanup"
        PROVE  faults' = faults + 1 /\ tries + 1 = MaxAttempts
    <3>1. InCall
      BY <1>1, <2>7 DEF Next, Starting, Closing, StartDriver, StartDriverRaises, Launch,
         NewContext, StartRaises, Leave, Release, ReleaseRaises, Closed, NewPage,
         NewPageRaises, Crash, NextSession, Goto, Stages
    <3>2. ASSUME NEW stage \in Stages, StageWorks(stage)
          PROVE  FALSE
      <4>1. pc' = Following(call, stage)
        BY <1>1, <3>2, Order DEF StageWorks, Goto, ScrapingInv, Faultless, TypeOK
      <4>2. QED
        BY <2>7, <4>1 DEF Following, Stages
    <3>3. ASSUME NEW stage \in Stages, Retry(stage)
          PROVE  FALSE
      BY <2>7, <3>3 DEF Retry, Stages
    <3>4. \E stage \in Stages, error \in {"timeout", "error"} : GiveUp(stage, error)
      BY <3>1, <3>2, <3>3 DEF InCall, Parse, ClosePage, ClosePageRaises, Stages
    <3>5. QED
      BY <3>4 DEF GiveUp, LastAttempt
  <2>8. QED
    BY <2>3, <2>4, <2>5, <2>6, <2>7, MaxAttemptsAssumption
<1>2. ScrapingInv /\ [Next]_vars => [\A n \in 1..Len(Path) : Budget(n)]_vars
  BY <1>1
<1>3. QED
  BY Inductive, <1>2, PTL DEF Spec, RetryBudget
=============================================================================
