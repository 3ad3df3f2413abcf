----------------------------- MODULE Lifecycle -----------------------------
(***************************************************************************)
(* The process from startup to shutdown: the lifespan of app.py, the cached *)
(* engine of session.py, the scheduler with its ticks (scheduler.py), and   *)
(* the requests with the resources that dependencies.py gives them.  What a *)
(* run does with the database is Service's subject; here it makes provider  *)
(* calls and ends.  APScheduler and uvicorn are external.                   *)
(***************************************************************************)
EXTENDS HttpClient, FiniteSets

CONSTANTS
  Tick     \* the one instance of the scheduled job; the other tasks are requests

ASSUME LifecycleAssumption == Tick \in Tasks

VARIABLES
  app,       \* where the server and its lifespan are
  sched,     \* the scheduler: "off", "on", or "stopping" once shutdown() is queued
  factory,   \* the engine that session.py holds, 0 for None
  made,      \* engines created so far
  disposed,  \* those that were disposed
  pc,        \* where each task is
  kind,      \* what each task is: a tick, a run, a query or another request
  bound,     \* the engine of the task's session, 0 without one
  raised     \* what ended the task, with the response behind it

serverVars == <<app, sched, factory, made, disposed>>
taskVars == <<pc, kind, bound, raised>>
vars == <<serverVars, taskVars, httpVars>>

Requests == Tasks \ {Tick}
Kinds == {"tick", "run", "query", "plain"}
Errors == {"none", "ProviderUnavailableError", "RateLimitError", "ScrapingError", "ValueError",
           "NotFound", "Exception"}
NoError == [error |-> "none", cause |-> "none"]

(* The handlers of exception_handlers.py. *)
Status(error) ==
  CASE error = "none"       -> 200
    [] error = "NotFound"   -> 404
    [] error = "ValueError" -> 400
    [] error \in {"ProviderUnavailableError", "RateLimitError", "ScrapingError"} -> 502
    [] OTHER                -> 500

TypeOK ==
  /\ HttpTypeOK
  /\ app \in {"down", "up", "draining", "closing", "disposing", "disposed", "stopped"}
  /\ sched \in {"off", "on", "stopping"}
  /\ made \in Nat /\ factory \in 0 .. made /\ disposed \subseteq 1 .. made
  /\ pc \in [Tasks -> {"idle", "begun", "open", "ready", "leaving"}]
  /\ kind \in [Tasks -> Kinds]
  /\ bound \in [Tasks -> 0 .. made]
  /\ raised \in [Tasks -> [error : Errors, cause : Responses \union {"none"}]]

Init ==
  /\ app = "down" /\ sched = "off"
  /\ factory = 0 /\ made = 0 /\ disposed = {}
  /\ pc = [t \in Tasks |-> "idle"]
  /\ kind = [t \in Tasks |-> "plain"]
  /\ bound = [t \in Tasks |-> 0]
  /\ raised = [t \in Tasks |-> NoError]
  /\ HttpInit

-----------------------------------------------------------------------------
(* The engine that get_session_factory() answers with: the one it holds, or  *)
(* a new one that it holds from now on.                                      *)
Engine == IF factory = 0 THEN made + 1 ELSE factory

GetSessionFactory ==
  /\ factory' = Engine
  /\ made' = IF factory = 0 THEN made + 1 ELSE made
  /\ UNCHANGED disposed

(* lifespan() up to its yield: nothing of it awaits. *)
Startup ==
  /\ app = "down"
  /\ GetSessionFactory
  /\ app' = "up" /\ sched' = "on"
  /\ UNCHANGED <<taskVars, httpVars>>

(* uvicorn is told to stop: it takes no more requests, waits for those under *)
(* way, and then resumes the lifespan.                                       *)
Signal ==
  /\ app = "up"
  /\ app' = "draining"
  /\ UNCHANGED <<sched, factory, made, disposed, taskVars, httpVars>>

Drained ==
  /\ app = "draining"
  /\ \A t \in Requests : pc[t] = "idle"
  /\ app' = "closing"
  /\ UNCHANGED <<sched, factory, made, disposed, taskVars, httpVars>>

StopWithoutScheduler ==  \* mutant: no scheduler.shutdown()
  /\ app = "closing"
  /\ app' = "disposing"
  /\ UNCHANGED <<sched, factory, made, disposed, taskVars, httpVars>>

(* scheduler.shutdown(wait=False) only queues the scheduler's own shutdown. *)
Stop ==
  /\ app = "closing"
  /\ app' = "disposing" /\ sched' = "stopping"
  /\ UNCHANGED <<factory, made, disposed, taskVars, httpVars>>

ForgetUndisposed ==  \* mutant: the engine is forgotten and never disposed
  /\ app = "disposing"
  /\ app' = "disposed"
  /\ UNCHANGED <<sched, factory, made, disposed, taskVars, httpVars>>

(* reset_session_factory() awaits the dispose, while other tasks go on. *)
Dispose ==
  /\ app = "disposing"
  /\ disposed' = IF factory = 0 THEN disposed ELSE disposed \union {factory}
  /\ app' = "disposed"
  /\ UNCHANGED <<sched, factory, made, taskVars, httpVars>>

Forget ==
  /\ app = "disposed"
  /\ factory' = 0
  /\ app' = "stopped"
  /\ UNCHANGED <<sched, made, disposed, taskVars, httpVars>>

-----------------------------------------------------------------------------
Goto(t, place) == pc' = [pc EXCEPT ![t] = place]
Raise(t, error, cause) == raised' = [raised EXCEPT ![t] = [error |-> error, cause |-> cause]]

(* The interval has passed: the job is submitted unless its one instance is  *)
(* still under way; the coroutine starts later.                              *)
Due ==
  /\ sched \in {"on", "stopping"}
  /\ pc[Tick] = "idle"
  /\ Goto(Tick, "begun")
  /\ kind' = [kind EXCEPT ![Tick] = "tick"]
  /\ UNCHANGED <<serverVars, bound, raised, httpVars>>

Accepted(t) ==
  /\ t \in Requests /\ app = "up" /\ pc[t] = "idle"
  /\ Goto(t, "begun")
  /\ \E k \in Kinds \ {"tick"} : kind' = [kind EXCEPT ![t] = k]
  /\ UNCHANGED <<serverVars, bound, raised, httpVars>>

(* The first await-free stretch of a tick or of get_session(). *)
OpenSession(t) ==
  /\ pc[t] = "begun"
  /\ GetSessionFactory
  /\ bound' = [bound EXCEPT ![t] = Engine]
  /\ Goto(t, "open")
  /\ UNCHANGED <<app, sched, kind, raised, httpVars>>

(* A tick, a run and a query launch a browser and build a run with two HTTP  *)
(* clients of its own.                                                       *)
BuildRun(t) ==
  /\ pc[t] = "open" /\ kind[t] # "plain"
  /\ Goto(t, "ready")
  /\ quota' = [quota EXCEPT ![t] = MaxCalls]
  /\ UNCHANGED <<serverVars, kind, bound, raised, call, left, todo>>

(* The browser does not come up: an error of Playwright's launch is          *)
(* translated, one of its driver or of anything else raises as it is.        *)
LaunchFails(t) ==
  /\ pc[t] = "open" /\ kind[t] # "plain"
  /\ Goto(t, "leaving")
  /\ \E e \in {"ScrapingError", "Exception"} : Raise(t, e, "none")
  /\ UNCHANGED <<serverVars, kind, bound, httpVars>>

(* The other requests need only their session. *)
BuildPlain(t) ==
  /\ pc[t] = "open" /\ kind[t] = "plain"
  /\ Goto(t, "ready")
  /\ UNCHANGED <<serverVars, kind, bound, raised, httpVars>>

-----------------------------------------------------------------------------
Calling(t) ==
  /\ pc[t] = "ready"
  /\ \/ \E c \in Calls : Ask(t, c)
     \/ \E r \in Responses : Retry(t, r)
     \/ Accept(t)
  /\ UNCHANGED <<serverVars, taskVars>>

(* A provider's error is caught nowhere: it ends the run.  A tick logs and   *)
(* raises it again, and the scheduler lives on.                              *)
CallFails(t) ==
  /\ pc[t] = "ready"
  /\ \E r \in Responses : Fail(t, r) /\ Raise(t, ErrorOf(call[t], r), r)
  /\ Goto(t, "leaving")
  /\ UNCHANGED <<serverVars, kind, bound>>

(* The work ends, or fails of itself. *)
Finish(t) ==
  /\ pc[t] = "ready" /\ call[t] = "none"
  /\ \E e \in {"none", "NotFound", "ValueError", "Exception"} :
       (e = "NotFound" => kind[t] \in {"query", "plain"}) /\ Raise(t, e, "none")
  /\ Goto(t, "leaving")
  /\ UNCHANGED <<serverVars, kind, bound, httpVars>>

(* The browser and the session are closed, on every path. *)
Leave(t) ==
  /\ pc[t] = "leaving"
  /\ Goto(t, "idle")
  /\ bound' = [bound EXCEPT ![t] = 0]
  /\ kind' = [kind EXCEPT ![t] = "plain"]
  /\ raised' = [raised EXCEPT ![t] = NoError]
  /\ quota' = [quota EXCEPT ![t] = 0]
  /\ UNCHANGED <<serverVars, call, left, todo>>

(* The queued shutdown of the scheduler: no tick from now on, and the one    *)
(* under way is cancelled where it awaits, or before it began.               *)
SchedulerStops ==
  /\ sched = "stopping"
  /\ sched' = "off"
  /\ IF pc[Tick] \in {"idle", "begun"} THEN Goto(Tick, "idle") ELSE Goto(Tick, "leaving")
  /\ HangUp(Tick)
  /\ UNCHANGED <<app, factory, made, disposed, kind, bound, raised, quota>>

-----------------------------------------------------------------------------
TaskStep(t) ==
  \/ OpenSession(t) \/ BuildRun(t) \/ LaunchFails(t) \/ BuildPlain(t)
  \/ Calling(t) \/ CallFails(t) \/ Finish(t) \/ Leave(t)

ServerStep == Drained \/ Stop \/ Dispose \/ Forget

Next ==
  \/ Startup \/ Signal \/ ServerStep \/ SchedulerStops \/ Due
  \/ \E t \in Tasks : Accepted(t) \/ TaskStep(t)

(* The event loop runs what can run, a request is answered, fails or times   *)
(* out, and the interval timer of a running scheduler fires.  The server may *)
(* run for ever, and no request need come.                                   *)
Fairness ==
  /\ WF_vars(Startup) /\ WF_vars(ServerStep) /\ WF_vars(SchedulerStops)
  /\ WF_vars(sched = "on" /\ Due)
  /\ \A t \in Tasks : WF_vars(TaskStep(t))

Spec == Init /\ [][Next]_vars
FairSpec == Spec /\ Fairness

-----------------------------------------------------------------------------
(* Of the engines, at most one is ever left undisposed, even when a tick     *)
(* asks for the factory while reset_session_factory() awaits or after it has *)
(* forgotten the engine; and no request works on a disposed engine.          *)
EnginesAreAccountedFor ==
  /\ Cardinality((1 .. made) \ disposed) <= 1
  /\ \A t \in Requests : bound[t] \notin disposed

(* exceptions.py: adapters translate every failure of the transport.  What   *)
(* the code lets through, answered as the caller's fault, is a 429 with a    *)
(* date for Retry-After and a payload that an entity rejects.                *)
TransportFailuresAre502 ==
  \A t \in Tasks :
    raised[t].cause \notin {"none", "limited_until", "rejected"} => Status(raised[t].error) = 502

(* While the server is up there is always another tick: no failure, and no   *)
(* provider that answers nothing but 429, takes the one instance of the job  *)
(* (max_instances is 1) away from the later ones.                            *)
TicksKeepComing == app = "up" ~> (pc[Tick] = "begun" \/ app # "up")

(* Once it is told to stop, the process comes to rest: every request is      *)
(* answered, the tick under way ends and none comes after it.                *)
WindsDown == (app = "draining") ~> [](app = "stopped" /\ \A t \in Tasks : pc[t] = "idle")
=============================================================================
