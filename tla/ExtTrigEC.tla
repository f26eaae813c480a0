------------------------------ MODULE ExtTrigEC ------------------------------
(***************************************************************************)
(* The externally triggered execution context:                             *)
(* src/src/lib/rtm/ExtTrigExecutionContext.cpp, with what                  *)
(* ExecutionContextBase and ExecutionContextWorker do around its hooks.    *)
(*                                                                         *)
(* The thread of the context waits until ticked_ is set, makes one pass    *)
(* over its components, and clears ticked_.  tick() sets it, so does every *)
(* round of a client that waits for a request to be served, and the        *)
(* destructor.  The states of the components are module                    *)
(* RTObjectStateMachine; here a component has a request or has none.  Each *)
(* component has a client of its own, which makes one call at a time.      *)
(***************************************************************************)
EXTENDS Naturals, FiniteSets

CONSTANT Comps        \* the components, each with its client

VARIABLES
  running,      \* m_running of the worker
  m_svc,        \* m_svc
  ticked_,      \* m_worker.ticked_
  body,         \* where the thread is
  todo,         \* the components that the loop of the pass has before it
  members, added, removed,  \* m_comps, m_addedComps, m_removedComps
  wanted,       \* the components whose request flag is set
  request,      \* the call of each client
  ticker,       \* the call of tick()
  control,      \* the call of start()
  destruction   \* the destructor: how far it is

memberVars == <<members, added, removed>>
threadVars == <<m_svc, ticked_, body, todo>>
callVars == <<request, ticker, control, destruction>>
trigVars == <<running, threadVars, memberVars, wanted, callVars>>

InPass == {"preDo", "do", "update"}

TrigTypeOK ==
  /\ {running, m_svc, ticked_} \subseteq BOOLEAN
  /\ body \in InPass \cup {"none", "wait", "clear", "test", "end"}
  /\ {todo, members, added} \subseteq SUBSET Comps
  /\ removed \cup wanted \subseteq members /\ added \cap members = {}
  /\ request \in [Comps -> {"idle", "update", "hook", "asked", "poll"}]
  /\ ticker \in {"idle", "tick"} /\ control \in {"idle", "started"}
  /\ destruction \in {"no", "cleared", "ticked"}

TrigInit ==
  /\ running = FALSE /\ m_svc = FALSE /\ ticked_ = FALSE
  /\ body = "none" /\ todo = {}
  /\ members = {} /\ added = {} /\ removed = {} /\ wanted = {}
  /\ request = [c \in Comps |-> "idle"]
  /\ ticker = "idle" /\ control = "idle" /\ destruction = "no"

-----------------------------------------------------------------------------
(* The thread: svc *)

SetsTick == ticked_' = TRUE

UpdateMembers ==
  /\ members' = (members \cup added) \ removed
  /\ wanted' = wanted \ removed
  /\ added' = {} /\ removed' = {}

\* A faulty variant: the tick is cleared when it is seen.
WaitForTickClears ==
  /\ body = "wait" /\ ticked_
  /\ ticked_' = FALSE
  /\ body' = "preDo" /\ todo' = members
  /\ UNCHANGED <<running, m_svc, memberVars, wanted, callVars>>

WaitForTick ==
  /\ body = "wait" /\ ticked_
  /\ body' = "preDo" /\ todo' = members
  /\ UNCHANGED <<running, m_svc, ticked_, memberVars, wanted, callVars>>

\* invokeWorkerPreDo(), one component after the other.
PreDo ==
  /\ body = "preDo"
  /\ \/ \E c \in todo : /\ todo' = todo \ {c}
                        /\ wanted' = wanted \ {c}
                        /\ UNCHANGED body
     \/ /\ todo = {}
        /\ body' = "do"
        /\ UNCHANGED <<todo, wanted>>
  /\ UNCHANGED <<running, m_svc, ticked_, memberVars, callVars>>

\* invokeWorkerDo() and the loop of invokeWorkerPostDo()
DoAndPostDo ==
  /\ body = "do"
  /\ body' = "update"
  /\ UNCHANGED <<running, m_svc, ticked_, todo, memberVars, wanted, callVars>>

\* ... which ends with updateComponentList().
UpdateAfterPass ==
  /\ body = "update"
  /\ UpdateMembers
  /\ body' = "clear"
  /\ UNCHANGED <<running, m_svc, ticked_, todo, callVars>>

ClearTick ==
  /\ body = "clear"
  /\ ticked_' = FALSE
  /\ body' = "test"
  /\ UNCHANGED <<running, m_svc, todo, memberVars, wanted, callVars>>

\* After the sleep: threadRunning().
ThreadRunning ==
  /\ body = "test"
  /\ body' = IF m_svc THEN "wait" ELSE "end"
  /\ UNCHANGED <<running, m_svc, ticked_, todo, memberVars, wanted, callVars>>

TrigThread == WaitForTick \/ PreDo \/ DoAndPostDo \/ UpdateAfterPass
                \/ ClearTick \/ ThreadRunning

-----------------------------------------------------------------------------
(* start(), stop() and tick() *)

Start ==
  /\ destruction = "no" /\ control = "idle" /\ ~running
  /\ running' = TRUE
  /\ control' = "started"
  /\ UNCHANGED <<threadVars, memberVars, wanted, request, ticker, destruction>>

\* onStarted(): the first time, the thread is started.
OnStarted ==
  /\ control = "started"
  /\ control' = "idle"
  /\ m_svc' = TRUE
  /\ body' = IF m_svc THEN body ELSE "wait"
  /\ UNCHANGED <<running, ticked_, todo, memberVars, wanted, request, ticker,
                 destruction>>

Stop ==
  /\ destruction = "no" /\ control = "idle" /\ running
  /\ running' = FALSE
  /\ UNCHANGED <<threadVars, memberVars, wanted, callVars>>

\* tick() asks isRunning() first.
EnterTick ==
  /\ destruction = "no" /\ ticker = "idle" /\ running
  /\ ticker' = "tick"
  /\ UNCHANGED <<running, threadVars, memberVars, wanted, request, control,
                 destruction>>

Tick ==
  /\ ticker = "tick"
  /\ SetsTick
  /\ ticker' = "idle"
  /\ UNCHANGED <<running, m_svc, body, todo, memberVars, wanted, request,
                 control, destruction>>

-----------------------------------------------------------------------------
(* The client of a component *)

Goes(c, where) == request' = [request EXCEPT ![c] = where]

MayCall(c) == destruction = "no" /\ request[c] = "idle"

AddComponent(c) ==
  /\ MayCall(c) /\ c \notin members \cup added
  /\ added' = added \cup {c}
  /\ Goes(c, "update")
  /\ UNCHANGED <<running, threadVars, members, removed, wanted, ticker,
                 control, destruction>>

RemoveComponent(c) ==
  /\ MayCall(c) /\ c \in members \ removed
  /\ removed' = removed \cup {c}
  /\ Goes(c, "update")
  /\ UNCHANGED <<running, threadVars, members, added, wanted, ticker, control,
                 destruction>>

\* The worker brings the lists up to date when it is not running.
UpdateUnlessRunning(c) ==
  /\ request[c] = "update"
  /\ IF running THEN UNCHANGED <<memberVars, wanted>> ELSE UpdateMembers
  /\ Goes(c, "hook")
  /\ UNCHANGED <<running, threadVars, ticker, control, destruction>>

\* onAddedComponent(), onRemovedComponent(): unless the context is ticked.
Hook(c) ==
  /\ request[c] = "hook"
  /\ IF ticked_ THEN UNCHANGED <<memberVars, wanted>> ELSE UpdateMembers
  /\ Goes(c, "idle")
  /\ UNCHANGED <<running, threadVars, ticker, control, destruction>>

\* activate_component() and the other two: the flag is raised, and the
\* client waits or, when the requests are asynchronous, does not.
Request(c) ==
  /\ MayCall(c) /\ c \in members \ removed
  /\ wanted' = wanted \cup {c}
  /\ Goes(c, "asked") \/ UNCHANGED request
  /\ UNCHANGED <<running, threadVars, memberVars, ticker, control, destruction>>

\* onWaitingActivated() before the first look at the state ...
FirstTick(c) ==
  /\ request[c] = "asked"
  /\ SetsTick
  /\ Goes(c, "poll")
  /\ UNCHANGED <<running, m_svc, body, todo, memberVars, wanted, ticker,
                 control, destruction>>

\* A faulty variant: only the first round ticks.
PollWithoutTick(c) ==
  /\ request[c] = "poll"
  /\ IF c \in wanted THEN UNCHANGED request ELSE Goes(c, "idle")
  /\ UNCHANGED <<running, threadVars, memberVars, wanted, ticker, control,
                 destruction>>

\* ... and at each round as long as it has not changed.
Poll(c) ==
  /\ request[c] = "poll"
  /\ IF c \in wanted THEN SetsTick /\ UNCHANGED request
                     ELSE Goes(c, "idle") /\ UNCHANGED ticked_
  /\ UNCHANGED <<running, m_svc, body, todo, memberVars, wanted, ticker,
                 control, destruction>>

\* The timeout of the request.
GiveUp(c) ==
  /\ request[c] = "poll"
  /\ Goes(c, "idle")
  /\ UNCHANGED <<running, threadVars, memberVars, wanted, ticker, control,
                 destruction>>

ClientStep(c) == UpdateUnlessRunning(c) \/ Hook(c) \/ FirstTick(c) \/ Poll(c)

-----------------------------------------------------------------------------
(* The destructor: no call is under way, and none comes any more.          *)

\* A faulty variant: the tick is given first.
TickThenClear ==
  \/ /\ destruction = "no" /\ ticker = "idle" /\ control = "idle"
     /\ \A c \in Comps : request[c] = "idle"
     /\ destruction' = "cleared"
     /\ SetsTick
     /\ UNCHANGED <<running, m_svc, body, todo, memberVars, wanted, request,
                    ticker, control>>
  \/ /\ destruction = "cleared"
     /\ destruction' = "ticked"
     /\ m_svc' = FALSE
     /\ UNCHANGED <<running, ticked_, body, todo, memberVars, wanted, request,
                    ticker, control>>

Destroy ==
  \/ /\ destruction = "no" /\ ticker = "idle" /\ control = "idle"
     /\ \A c \in Comps : request[c] = "idle"
     /\ destruction' = "cleared"
     /\ m_svc' = FALSE
     /\ UNCHANGED <<running, ticked_, body, todo, memberVars, wanted, request,
                    ticker, control>>
  \/ /\ destruction = "cleared"
     /\ destruction' = "ticked"
     /\ SetsTick
     /\ UNCHANGED <<running, m_svc, body, todo, memberVars, wanted, request,
                    ticker, control>>

TrigNext ==
  \/ TrigThread \/ Start \/ OnStarted \/ Stop \/ EnterTick \/ Tick \/ Destroy
  \/ \E c \in Comps : \/ AddComponent(c) \/ RemoveComponent(c) \/ Request(c)
                      \/ ClientStep(c) \/ GiveUp(c)

TrigSpec == TrigInit /\ [][TrigNext]_trigVars

-----------------------------------------------------------------------------
(***************************************************************************)
(* Properties.                                                             *)
(***************************************************************************)

(***************************************************************************)
(* The hooks do not change the list of components while the thread makes a *)
(* pass over it without a lock: ticked_ is cleared at the end of the pass, *)
(* not at its beginning (ExtTrigExecutionContext.cpp:117, 370).            *)
(***************************************************************************)
HookLeavesPassAlone ==
  [][(body \in InPass /\ \E c \in Comps : Hook(c)) => UNCHANGED members]_trigVars

(***************************************************************************)
(* The destructor's tick is there when the thread waits for it, although   *)
(* the end of a pass may clear it (ExtTrigExecutionContext.cpp:67, 106).   *)
(***************************************************************************)
LastTickKept == (destruction = "ticked" /\ body = "wait") => ticked_

(***************************************************************************)
(* A client that waits is answered, although its tick is lost when it is   *)
(* given during a pass, as every round gives another one, and whether the  *)
(* context runs or is stopped; unless start() was never called             *)
(* (ExtTrigExecutionContext.cpp:117, 410).                                 *)
(***************************************************************************)
RequestServed ==
  \A c \in Comps :
    (request[c] = "poll" /\ body # "none") ~> request[c] # "poll"
=============================================================================
