-------------------------- MODULE LifecycleProofs --------------------------
(***************************************************************************)
(* Proofs about the process and its provider calls, for any tasks, attempts *)
(* and lengths of a lineup.                                                *)
(***************************************************************************)
EXTENDS Lifecycle, FiniteSetTheorems, TLAPS

-----------------------------------------------------------------------------
(* The inductive invariant *)

Past == {"closing", "disposing", "disposed", "stopped"}

(* What is not disposed is what session.py holds; nothing is disposed before *)
(* the lifespan gets there, and what is held then is not used after it.      *)
OneEngine ==
  /\ (1 .. made) \ disposed \subseteq {factory}
  /\ app \in {"down", "stopped"} \/ factory # 0
  /\ app = "disposed" => factory \in disposed
  /\ app \in {"disposed", "stopped"} \/ disposed = {}

(* The lifespan goes on when no request is under way, and none comes then.   *)
RequestsAreOver ==
  \A t \in Requests :
    /\ pc[t] \in {"idle", "begun"} => bound[t] = 0
    /\ app \in Past => pc[t] = "idle"

LifecycleInv == TypeOK /\ OneEngine /\ RequestsAreOver /\ TransportFailuresAre502

-----------------------------------------------------------------------------
(* The provider calls *)

LEMMA ErrorsHaveTypes ==
  ASSUME NEW c \in Calls, NEW r \in Responses
  PROVE  ErrorOf(c, r) \in Errors
BY DEF ErrorOf, OddsApiError, SportmonksError, Exhausted, Unreadable, Retried, Calls, Responses, Errors

(* Of all that can end a call, only the date of a Retry-After and the        *)
(* payload that an entity rejects are answered with something else than 502. *)
LEMMA FailuresAre502 ==
  ASSUME NEW c \in Calls, NEW r \in Possible(c), ErrorOf(c, r) # "none",
         r \notin {"limited_until", "rejected"}
  PROVE  Status(ErrorOf(c, r)) = 502
<1>1. CASE c = "odds"
  BY <1>1 DEF ErrorOf, OddsApiError, Exhausted, Unreadable, Retried, Possible, Responses, Status
<1>2. CASE c # "odds"
  BY <1>2 DEF ErrorOf, SportmonksError, Exhausted, Unreadable, Retried, Possible, Responses, Status
<1> QED BY <1>1, <1>2

LEMMA CallsHaveTypes ==
  ASSUME TypeOK, NEW t \in Tasks, Calling(t)
  PROVE  TypeOK'
<1> USE HttpAssumption
<1>1. UNCHANGED <<serverVars, taskVars>>
  BY DEF Calling
<1>2. ASSUME NEW c \in Calls, Ask(t, c)  PROVE HttpTypeOK'
  BY <1>2 DEF TypeOK, HttpTypeOK, Ask, Request, Calls
<1>3. ASSUME NEW r \in Responses, Retry(t, r)  PROVE HttpTypeOK'
  BY <1>3 DEF TypeOK, HttpTypeOK, Retry, Spent
<1>4. ASSUME Accept(t)  PROVE HttpTypeOK'
  <2>1. CASE HangUp(t) /\ UNCHANGED quota
    BY <2>1 DEF TypeOK, HttpTypeOK, HangUp
  <2>2. ASSUME NEW entries \in 1 .. MaxEntries, FormOf(t, entries), UNCHANGED quota
        PROVE  HttpTypeOK'
    BY <2>2 DEF TypeOK, HttpTypeOK, FormOf, Request, Calls
  <2>3. todo[t] > 1 => todo[t] - 1 \in 1 .. MaxEntries
    BY DEF TypeOK, HttpTypeOK
  <2> QED BY <1>4, <2>1, <2>2, <2>3 DEF Accept
<1>5. HttpTypeOK'
  BY <1>2, <1>3, <1>4 DEF Calling
<1> QED BY <1>1, <1>5 DEF TypeOK, serverVars, taskVars

-----------------------------------------------------------------------------
(* The engine *)

(* Whoever asks for the factory: it is the one undisposed engine, unless the *)
(* lifespan is between the dispose and the forgetting of it.                 *)
LEMMA FactoryIsHeld ==
  ASSUME TypeOK, OneEngine, GetSessionFactory
  PROVE  /\ made' \in Nat /\ made <= made' /\ factory' \in 0 .. made' /\ factory' # 0
         /\ Engine = factory' /\ disposed' = disposed /\ disposed \subseteq 1 .. made'
         /\ (1 .. made') \ disposed \subseteq {factory'}
         /\ app = "disposed" => factory' \in disposed
<1>1. CASE factory = 0
  <2>1. factory' = made + 1 /\ made' = made + 1 /\ disposed' = disposed
    BY <1>1 DEF GetSessionFactory, Engine
  <2>2. made \in Nat /\ (1 .. made) \subseteq disposed \union {0} /\ disposed \subseteq 1 .. made
    BY <1>1 DEF OneEngine, TypeOK
  <2>3. (1 .. made') \ disposed \subseteq {factory'}
    BY <2>1, <2>2
  <2>4. app # "disposed"
    BY <1>1 DEF OneEngine
  <2> QED BY <1>1, <2>1, <2>2, <2>3, <2>4 DEF Engine
<1>2. CASE factory # 0
  <2>1. factory' = factory /\ made' = made /\ disposed' = disposed
    BY <1>2 DEF GetSessionFactory, Engine
  <2> QED BY <1>2, <2>1 DEF Engine, OneEngine, TypeOK
<1> QED BY <1>1, <1>2

-----------------------------------------------------------------------------
(* Every step keeps the invariant *)

LEMMA InitKeeps == Init => LifecycleInv
<1> SUFFICES ASSUME Init PROVE LifecycleInv
  OBVIOUS
<1> USE DEF Init, HttpInit
<1>1. TypeOK
  BY HttpAssumption DEF TypeOK, HttpTypeOK, Kinds, Errors, NoError
<1>2. OneEngine
  <2>1. 1 .. made = {}
    OBVIOUS
  <2> QED BY <2>1 DEF OneEngine
<1>3. RequestsAreOver
  BY DEF RequestsAreOver, Past, Requests
<1>4. TransportFailuresAre502
  BY DEF TransportFailuresAre502, NoError
<1> QED BY <1>1, <1>2, <1>3, <1>4 DEF LifecycleInv

LEMMA StartupKeeps ==
  ASSUME LifecycleInv, Startup
  PROVE  LifecycleInv'
<1> USE DEF LifecycleInv
<1>1. GetSessionFactory /\ app = "down" /\ app' = "up" /\ sched' = "on" /\ UNCHANGED <<taskVars, httpVars>>
  BY DEF Startup
<1>2. TypeOK'
  <2>1. UNCHANGED <<pc, kind, bound, raised>> /\ HttpTypeOK'
    BY <1>1 DEF TypeOK, HttpTypeOK, taskVars, httpVars
  <2>2. bound' \in [Tasks -> 0 .. made']
    BY <1>1, <2>1, FactoryIsHeld DEF TypeOK
  <2> QED BY <1>1, <2>1, <2>2, FactoryIsHeld DEF TypeOK
<1>3. OneEngine'
  BY <1>1, FactoryIsHeld DEF OneEngine
<1>4. RequestsAreOver' /\ TransportFailuresAre502'
  BY <1>1 DEF RequestsAreOver, TransportFailuresAre502, Past, taskVars
<1> QED BY <1>2, <1>3, <1>4

LEMMA ServerKeeps ==
  ASSUME LifecycleInv, Signal \/ ServerStep
  PROVE  LifecycleInv'
<1> USE DEF LifecycleInv
<1>1. CASE Signal \/ Drained \/ Stop
  <2>1. UNCHANGED <<factory, made, disposed, taskVars, httpVars>>
    BY <1>1 DEF Signal, Drained, Stop
  <2>2. TypeOK' /\ OneEngine' /\ TransportFailuresAre502'
    BY <1>1, <2>1 DEF Signal, Drained, Stop, TypeOK, HttpTypeOK, OneEngine, TransportFailuresAre502, taskVars, httpVars
  <2>3. RequestsAreOver'
    BY <1>1, <2>1 DEF Signal, Drained, Stop, RequestsAreOver, Past, taskVars
  <2> QED BY <2>2, <2>3
<1>2. CASE Dispose
  <2>1. factory # 0 /\ disposed = {}
    BY <1>2 DEF Dispose, OneEngine
  <2>2. disposed' = {factory}
    BY <1>2, <2>1 DEF Dispose
  <2>3. TypeOK' /\ TransportFailuresAre502'
    BY <1>2, <2>1, <2>2 DEF Dispose, TypeOK, HttpTypeOK, TransportFailuresAre502, taskVars, httpVars
  <2>4. OneEngine'
    BY <1>2, <2>1, <2>2 DEF Dispose, OneEngine
  <2>5. RequestsAreOver'
    BY <1>2 DEF Dispose, RequestsAreOver, Past, taskVars
  <2> QED BY <2>3, <2>4, <2>5
<1>3. CASE Forget
  <2>1. TypeOK' /\ TransportFailuresAre502' /\ RequestsAreOver'
    BY <1>3 DEF Forget, TypeOK, HttpTypeOK, TransportFailuresAre502, RequestsAreOver, Past, taskVars, httpVars
  <2>2. OneEngine'
    BY <1>3 DEF Forget, OneEngine
  <2> QED BY <2>1, <2>2
<1> QED BY <1>1, <1>2, <1>3 DEF ServerStep

LEMMA SchedulerStopKeeps ==
  ASSUME LifecycleInv, SchedulerStops
  PROVE  LifecycleInv'
<1> USE DEF LifecycleInv
<1>1. TypeOK'
  BY HttpAssumption, LifecycleAssumption DEF SchedulerStops, HangUp, Goto, TypeOK, HttpTypeOK
<1>2. OneEngine' /\ TransportFailuresAre502'
  BY DEF SchedulerStops, OneEngine, TransportFailuresAre502
<1>3. RequestsAreOver'
  BY DEF SchedulerStops, Goto, RequestsAreOver, Requests, Past, TypeOK
<1> QED BY <1>1, <1>2, <1>3

LEMMA BeginKeeps ==
  ASSUME LifecycleInv, NEW t \in Tasks, Accepted(t) \/ (t = Tick /\ Due)
  PROVE  LifecycleInv'
<1> USE DEF LifecycleInv
<1>1. UNCHANGED <<serverVars, bound, raised, httpVars>> /\ pc' = [pc EXCEPT ![t] = "begun"] /\ pc[t] = "idle"
  BY DEF Accepted, Due, Goto
<1>2. TypeOK'
  BY <1>1 DEF Accepted, Due, Kinds, TypeOK, HttpTypeOK, serverVars, httpVars
<1>3. OneEngine' /\ TransportFailuresAre502'
  BY <1>1 DEF OneEngine, TransportFailuresAre502, serverVars
<1>4. t \in Requests => app = "up"
  BY DEF Accepted, Due, Requests
<1>5. RequestsAreOver'
  BY <1>1, <1>4 DEF RequestsAreOver, Requests, Past, TypeOK, serverVars
<1> QED BY <1>2, <1>3, <1>5

LEMMA OpenSessionKeeps ==
  ASSUME LifecycleInv, NEW t \in Tasks, OpenSession(t)
  PROVE  LifecycleInv'
<1> USE DEF LifecycleInv
<1>1. /\ GetSessionFactory /\ UNCHANGED <<app, sched, kind, raised, httpVars>>
      /\ bound' = [bound EXCEPT ![t] = Engine] /\ pc' = [pc EXCEPT ![t] = "open"] /\ pc[t] = "begun"
  BY DEF OpenSession, Goto
<1>2. bound' \in [Tasks -> 0 .. made']
  BY <1>1, FactoryIsHeld DEF TypeOK
<1>3. TypeOK'
  BY <1>1, <1>2, FactoryIsHeld DEF TypeOK, HttpTypeOK, httpVars
<1>4. OneEngine'
  BY <1>1, FactoryIsHeld DEF OneEngine
<1>5. RequestsAreOver'
  BY <1>1 DEF RequestsAreOver, Requests, TypeOK
<1>6. TransportFailuresAre502'
  BY <1>1 DEF TransportFailuresAre502
<1> QED BY <1>3, <1>4, <1>5, <1>6

(* The rest of a task's steps leave the server and its engines alone.        *)
LEMMA TaskKeeps ==
  ASSUME LifecycleInv, NEW t \in Tasks, TaskStep(t), ~ OpenSession(t)
  PROVE  LifecycleInv'
<1> USE HttpAssumption DEF LifecycleInv
<1>1. UNCHANGED serverVars
  BY DEF TaskStep, BuildRun, LaunchFails, BuildPlain, Calling, CallFails, Finish, Leave
<1>2. OneEngine'
  BY <1>1 DEF OneEngine, serverVars
<1>3. CASE BuildRun(t) \/ BuildPlain(t)
  <2>1. TypeOK'
    <3>1. UNCHANGED <<serverVars, kind, bound, raised, call, left, todo>> /\ pc' = [pc EXCEPT ![t] = "ready"]
      BY <1>3 DEF BuildRun, BuildPlain, Goto, httpVars
    <3>2. quota' \in [Tasks -> 0 .. MaxCalls]
      BY <1>3 DEF BuildRun, BuildPlain, TypeOK, HttpTypeOK, httpVars
    <3> QED BY <3>1, <3>2 DEF TypeOK, HttpTypeOK, serverVars
  <2>2. RequestsAreOver' /\ TransportFailuresAre502'
    BY <1>1, <1>3 DEF BuildRun, BuildPlain, Goto, RequestsAreOver, TransportFailuresAre502, TypeOK, serverVars, Requests
  <2> QED BY <1>2, <2>1, <2>2
<1>4. CASE LaunchFails(t) \/ Finish(t)
  <2>1. /\ pc[t] \in {"open", "ready"} /\ pc' = [pc EXCEPT ![t] = "leaving"]
        /\ UNCHANGED <<kind, bound, httpVars>>
    BY <1>4 DEF LaunchFails, Finish, Goto
  <2>2. PICK e \in {"none", "NotFound", "ValueError", "ScrapingError", "Exception"} :
             raised' = [raised EXCEPT ![t] = [error |-> e, cause |-> "none"]]
    BY <1>4 DEF LaunchFails, Finish, Raise
  <2>3. TypeOK'
    BY <1>1, <2>1, <2>2 DEF TypeOK, HttpTypeOK, Errors, serverVars, httpVars
  <2>4. RequestsAreOver'
    BY <1>1, <2>1 DEF RequestsAreOver, TypeOK, serverVars, Requests
  <2>5. TransportFailuresAre502'
    BY <2>2 DEF TransportFailuresAre502, TypeOK
  <2> QED BY <1>2, <2>3, <2>4, <2>5
<1>5. CASE Calling(t)
  BY <1>2, <1>5, CallsHaveTypes DEF Calling, RequestsAreOver, TransportFailuresAre502, serverVars, taskVars
<1>6. CASE CallFails(t)
  <2>1. PICK r \in Responses : Fail(t, r) /\ Raise(t, ErrorOf(call[t], r), r)
    BY <1>6 DEF CallFails
  <2>2. /\ pc[t] = "ready" /\ pc' = [pc EXCEPT ![t] = "leaving"] /\ UNCHANGED <<kind, bound, quota>>
        /\ raised' = [raised EXCEPT ![t] = [error |-> ErrorOf(call[t], r), cause |-> r]]
    BY <1>6, <2>1 DEF CallFails, Goto, Raise, Fail
  <2>3. call[t] \in Calls /\ r \in Possible(call[t]) /\ ErrorOf(call[t], r) # "none"
    BY <2>1 DEF Fail, TypeOK, HttpTypeOK
  <2>4. HttpTypeOK'
    BY <2>1 DEF Fail, HangUp, TypeOK, HttpTypeOK
  <2>5. TypeOK'
    BY <1>1, <2>2, <2>3, <2>4, ErrorsHaveTypes DEF TypeOK, serverVars
  <2>6. RequestsAreOver'
    BY <1>1, <2>2 DEF RequestsAreOver, TypeOK, serverVars, Requests
  <2>7. TransportFailuresAre502'
    BY <2>2, <2>3, FailuresAre502 DEF TransportFailuresAre502, TypeOK
  <2> QED BY <1>2, <2>5, <2>6, <2>7
<1>7. CASE Leave(t)
  <2>1. TypeOK'
    BY <1>1, <1>7 DEF Leave, Goto, TypeOK, HttpTypeOK, Kinds, Errors, NoError, serverVars
  <2>2. RequestsAreOver' /\ TransportFailuresAre502'
    BY <1>1, <1>7 DEF Leave, Goto, RequestsAreOver, TransportFailuresAre502, NoError, TypeOK, serverVars, Requests
  <2> QED BY <1>2, <2>1, <2>2
<1> QED BY <1>3, <1>4, <1>5, <1>6, <1>7 DEF TaskStep

LEMMA NextKeeps ==
  ASSUME LifecycleInv, [Next]_vars
  PROVE  LifecycleInv'
<1>1. CASE Due
  BY <1>1, BeginKeeps, LifecycleAssumption
<1>2. ASSUME NEW t \in Tasks, Accepted(t) \/ TaskStep(t)  PROVE LifecycleInv'
  BY <1>2, BeginKeeps, OpenSessionKeeps, TaskKeeps
<1>3. CASE UNCHANGED vars
  BY <1>3 DEF vars, serverVars, taskVars, httpVars, LifecycleInv, TypeOK, HttpTypeOK, OneEngine, RequestsAreOver,
              TransportFailuresAre502
<1> QED BY <1>1, <1>2, <1>3, StartupKeeps, ServerKeeps, SchedulerStopKeeps DEF Next

LEMMA Inductive == Spec => []LifecycleInv
<1>1. LifecycleInv /\ [Next]_vars => LifecycleInv'
  BY NextKeeps
<1> QED BY <1>1, InitKeeps, PTL DEF Spec

-----------------------------------------------------------------------------
(* What follows from it *)

(* The types of the process, whatever the tasks do and in which order.       *)
THEOREM TypeCorrect == Spec => []TypeOK
<1>1. LifecycleInv => TypeOK
  BY DEF LifecycleInv
<1> QED BY <1>1, Inductive, PTL

(* The adapters translate every failure of the transport: any number of      *)
(* tasks, retries and requests of a lineup.                                  *)
THEOREM TransportIsTranslated == Spec => []TransportFailuresAre502
<1>1. LifecycleInv => TransportFailuresAre502
  BY DEF LifecycleInv
<1> QED BY <1>1, Inductive, PTL

(* Startup, shutdown and any number of requests beside the tick: one engine  *)
(* at most is left undisposed, and no request has a disposed one.            *)
THEOREM OneEngineLeft == Spec => []EnginesAreAccountedFor
<1>1. LifecycleInv => EnginesAreAccountedFor
  <2> SUFFICES ASSUME LifecycleInv PROVE EnginesAreAccountedFor
    OBVIOUS
  <2>1. Cardinality((1 .. made) \ disposed) <= 1
    <3>1. (1 .. made) \ disposed \in {{}, {factory}}
      BY DEF LifecycleInv, OneEngine
    <3>2. Cardinality({}) = 0 /\ Cardinality({factory}) = 1
      BY FS_EmptySet, FS_Singleton
    <3> QED BY <3>1, <3>2
  <2>2. ASSUME NEW t \in Requests  PROVE bound[t] \notin disposed
    <3>1. CASE app \in {"disposed", "stopped"}
      <4>1. bound[t] = 0 /\ disposed \subseteq 1 .. made
        BY <3>1, <2>2 DEF LifecycleInv, RequestsAreOver, Past, TypeOK
      <4> QED BY <4>1 DEF LifecycleInv, TypeOK
    <3>2. CASE app \notin {"disposed", "stopped"}
      BY <3>2 DEF LifecycleInv, OneEngine
    <3> QED BY <3>1, <3>2
  <2> QED BY <2>1, <2>2 DEF EnginesAreAccountedFor
<1> QED BY <1>1, Inductive, PTL
=============================================================================
