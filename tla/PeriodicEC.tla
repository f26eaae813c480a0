----------------------------- MODULE PeriodicEC -----------------------------
(***************************************************************************)
(* A periodic execution context: the thread of                             *)
(* PeriodicExecutionContext::svc() drives the state machines of the        *)
(* participating components while clients call start, stop, set_rate,      *)
(* activate_component, deactivate_component and reset_component.           *)
(*                                                                         *)
(* The thread updates the states of all components, waits at the gate      *)
(* while running_ is FALSE, executes them, and starts over.  The gate is   *)
(* opened and closed by the clients, each through its own test-then-set.   *)
(*                                                                         *)
(* Membership is fixed here (module ECWorker models its changes).  Sleeps  *)
(* and the rate are left out: a wait that polls may give up at any round   *)
(* when Timeouts is TRUE.  Each callback is one step.                      *)
(***************************************************************************)
EXTENDS RTObjectStateMachine

CONSTANTS Clients,   \* threads that call the ExecutionContext interface
          Ops,       \* the operations they call
          SyncOps,   \* requests in synchronous mode (m_syncActivation, ...)
          Timeouts   \* may a synchronous wait expire?

Operations == Requests \cup {"start", "stop", "set_rate", "destroy"}

ASSUME OpsAssumption == /\ Ops \subseteq Operations
                        /\ SyncOps \subseteq Requests
                        /\ Timeouts \in BOOLEAN

VARIABLES
  m_running,  \* the context is in the Running state (ExecutionContextWorker)
  m_svc,      \* the thread is to go on (PeriodicExecutionContext)
  running_,   \* m_workerthread.running_: the gate is open
  pc, i, flag, go,              \* the thread: step, component, flag, verdict
  cpc, op, comp, bad, ret   \* the clients: step, call, target,
                            \* a timeout expired or a callback failed,
                            \* and what the last call returned

ecVars == <<m_running, m_svc, running_>>
threadVars == <<pc, i, flag, go>>
clientVars == <<cpc, op, comp, bad, ret>>
vars == <<smVars, ecVars, threadVars, clientVars>>

ThreadSteps == {"none", "load", "serve", "exit", "entry", "gate", "do", "post",
                "loop", "done"}

ClientSteps ==
  {"idle", "store", "wait", "waitLock", "poll", "final", "final2", "notify",
   "notifyLock", "opening", "started", "open", "close", "stopping",
   "rate", "closing", "joining", "destroyed"}

Codes == {"none", "RTC_OK", "RTC_ERROR", "PRECONDITION_NOT_MET"}

(* Every variable has its type.                                            *)
TypeOK ==
  /\ StateMachineTypeOK
  /\ m_running \in BOOLEAN /\ m_svc \in BOOLEAN /\ running_ \in BOOLEAN
  /\ pc \in ThreadSteps /\ i \in Comps /\ flag \in Requests /\ go \in BOOLEAN
  /\ cpc \in [Clients -> ClientSteps]
  /\ op \in [Clients -> Operations \cup {"none"}]
  /\ comp \in [Clients -> Comps]
  /\ bad \in [Clients -> BOOLEAN]
  /\ ret \in [Clients -> Codes]

Init ==
  /\ StateMachineInit
  /\ m_running = FALSE /\ m_svc = FALSE /\ running_ = FALSE
  /\ pc = "none" /\ i = 1 /\ flag = "activation" /\ go = FALSE
  /\ cpc = [k \in Clients |-> "idle"]
  /\ op = [k \in Clients |-> "none"]
  /\ comp = [k \in Clients |-> 1]
  /\ bad = [k \in Clients |-> FALSE]
  /\ ret = [k \in Clients |-> "none"]

-----------------------------------------------------------------------------
(* The thread: svc().                                                      *)

At(step, c) == pc' = step /\ i' = c

(* The next component of the loop over m_comps, or the step after it.      *)
Advance(step, after) == IF i < N THEN At(step, i + 1) ELSE At(after, 1)

NextFlag ==
  /\ go' = FALSE
  /\ \/ flag = "activation" /\ flag' = "deactivation" /\ At("load", i)
     \/ flag = "deactivation" /\ flag' = "reset" /\ At("load", i)
     \/ flag = "reset" /\ flag' = "activation" /\ At("exit", i)

LoadFlag ==
  /\ pc = "load"
  /\ \/ flag \notin request[i] /\ NextFlag
     \/ /\ flag \in request[i]
        /\ go' = mayGoTo(i, flag)
        /\ At("serve", i)
        /\ UNCHANGED flag
  /\ UNCHANGED <<smVars, ecVars, clientVars>>

Serve ==
  /\ pc = "serve"
  /\ ServeFlag(i, flag, go)
  /\ NextFlag
  /\ UNCHANGED <<ecVars, clientVars>>

Exit ==
  /\ pc = "exit"
  /\ \/ /\ curr[i] = next[i]
        /\ Advance("load", "gate")
        /\ UNCHANGED smVars
     \/ /\ curr[i] # next[i]
        /\ ExitAction(i)
        /\ At("entry", i)
  /\ UNCHANGED <<flag, go, ecVars, clientVars>>

Entry ==
  /\ pc = "entry"
  /\ EntryAction(i)
  /\ Advance("load", "gate")
  /\ UNCHANGED <<flag, go, ecVars, clientVars>>

(* while (!m_workerthread.running_) cond_.wait(guard): whoever sets        *)
(* running_ also notifies.                                                 *)
Gate ==
  /\ pc = "gate"
  /\ running_
  /\ At("do", 1)
  /\ UNCHANGED <<flag, go, smVars, ecVars, clientVars>>

Do ==
  /\ pc = "do"
  /\ DoAction(i)
  /\ Advance("do", "post")
  /\ UNCHANGED <<flag, go, ecVars, clientVars>>

PostDo ==
  /\ pc = "post"
  /\ PostDoAction(i)
  /\ Advance("post", "loop")
  /\ UNCHANGED <<flag, go, ecVars, clientVars>>

Loop ==
  /\ pc = "loop"
  /\ At(IF m_svc THEN "load" ELSE "done", 1)
  /\ UNCHANGED <<flag, go, smVars, ecVars, clientVars>>

Thread == LoadFlag \/ Serve \/ Exit \/ Entry \/ Gate \/ Do \/ PostDo \/ Loop

-----------------------------------------------------------------------------
(* The clients.                                                            *)

GoOn(k, step) == cpc' = [cpc EXCEPT ![k] = step]

Return(k, code) ==
  /\ cpc' = [cpc EXCEPT ![k] = "idle"]
  /\ op' = [op EXCEPT ![k] = "none"]
  /\ comp' = [comp EXCEPT ![k] = 1]
  /\ bad' = [bad EXCEPT ![k] = FALSE]
  /\ ret' = [ret EXCEPT ![k] = code]

Enter(k, o, c, step) ==
  /\ GoOn(k, step)
  /\ op' = [op EXCEPT ![k] = o]
  /\ comp' = [comp EXCEPT ![k] = c]
  /\ ret' = [ret EXCEPT ![k] = "none"]
  /\ UNCHANGED bad

(* A call starts: the context has not been destroyed meanwhile.            *)
MayCall(k, o) ==
  /\ cpc[k] = "idle"
  /\ o \in Ops
  /\ \A j \in Clients : cpc[j] \notin {"closing", "joining", "destroyed"}

(* activateComponent, deactivateComponent, resetComponent, up to the test  *)
(* of the current state.                                                   *)
CallRequest(k) ==
  \E c \in Comps, r \in Requests :
    /\ MayCall(k, r)
    /\ \/ curr[c] = From(r) /\ Enter(k, r, c, "store")
       \/ curr[c] # From(r) /\ Return(k, "PRECONDITION_NOT_MET")
    /\ UNCHANGED <<smVars, ecVars, threadVars>>

(* Mutant: the call returns without waiting, whatever the mode.            *)
StoreAsync(k) ==
  /\ cpc[k] = "store"
  /\ RaiseFlag(comp[k], op[k])
  /\ GoOn(k, "notify")
  /\ UNCHANGED <<op, comp, bad, ret, ecVars, threadVars>>

Store(k) ==
  /\ cpc[k] = "store"
  /\ RaiseFlag(comp[k], op[k])
  /\ GoOn(k, IF op[k] \in SyncOps THEN "wait" ELSE "notify")
  /\ UNCHANGED <<op, comp, bad, ret, ecVars, threadVars>>

(* What follows onWaitingXxx() and onXxx().                                *)
AfterHook(k) ==
  \/ /\ cpc[k] \in {"wait", "waitLock"}
     /\ GoOn(k, IF bad[k] THEN "final" ELSE "poll")
     /\ UNCHANGED <<op, comp, bad, ret>>
  \/ cpc[k] \in {"notify", "notifyLock"} /\ Return(k, "RTC_OK")

(* onWaitingActivated, onActivated: the gate is opened if the context is   *)
(* running.  onWaitingDeactivated, onDeactivated, onWaitingReset, onReset: *)
(* it is closed if the next state of every component is INACTIVE.  The     *)
(* test is made first, m_workerthread.mutex_ is taken afterwards.          *)
(* Mutants: only the component of the call is looked at; an activation     *)
(* never opens the gate.                                                   *)
HookAppliesToOwn(k) ==
  IF op[k] = "activation" THEN m_running ELSE next[comp[k]] = "INACTIVE"

HookNeverOpens(k) == op[k] # "activation" /\ isAllNextState("INACTIVE")

HookApplies(k) ==
  IF op[k] = "activation" THEN m_running ELSE isAllNextState("INACTIVE")

HookTest(k) ==
  /\ cpc[k] \in {"wait", "notify"}
  /\ \/ /\ HookApplies(k)
        /\ GoOn(k, IF cpc[k] = "wait" THEN "waitLock" ELSE "notifyLock")
        /\ UNCHANGED <<op, comp, bad, ret>>
     \/ ~HookApplies(k) /\ AfterHook(k)
  /\ UNCHANGED <<smVars, ecVars, threadVars>>

HookLock(k) ==
  /\ cpc[k] \in {"waitLock", "notifyLock"}
  /\ running_' = (op[k] = "activation")
  /\ AfterHook(k)
  /\ UNCHANGED <<m_running, m_svc, smVars, threadVars>>

(* One round of waitForActivated, waitForDeactivated, waitForReset: the    *)
(* last one, when the timeout expires after it.                            *)
Poll(k) ==
  /\ cpc[k] = "poll"
  /\ \/ /\ curr[comp[k]] = From(op[k])
        /\ \E late \in IF Timeouts THEN BOOLEAN ELSE {FALSE} :
             bad' = [bad EXCEPT ![k] = late]
        /\ GoOn(k, "wait")
     \/ curr[comp[k]] # From(op[k]) /\ GoOn(k, "final") /\ UNCHANGED bad
  /\ UNCHANGED <<op, comp, ret, smVars, ecVars, threadVars>>

(* The two readings of the state that decide on the return code.           *)
Final(k) ==
  /\ cpc[k] = "final"
  /\ LET answered == IF op[k] = "reset" THEN curr[comp[k]] = "INACTIVE"
                     ELSE curr[comp[k]] # From(op[k])
     IN  \/ ~answered /\ Return(k, "RTC_ERROR")
         \/ /\ answered
            /\ GoOn(k, IF op[k] = "reset" THEN "notify" ELSE "final2")
            /\ UNCHANGED <<op, comp, bad, ret>>
  /\ UNCHANGED <<smVars, ecVars, threadVars>>

(* Mutant: an error that came meanwhile is not reported.                   *)
Final2Unread(k) ==
  /\ cpc[k] = "final2"
  /\ GoOn(k, "notify")
  /\ UNCHANGED <<op, comp, bad, ret, smVars, ecVars, threadVars>>

Final2(k) ==
  /\ cpc[k] = "final2"
  /\ \/ curr[comp[k]] = "ERROR" /\ Return(k, "PRECONDITION_NOT_MET")
     \/ /\ curr[comp[k]] # "ERROR"
        /\ GoOn(k, "notify")
        /\ UNCHANGED <<op, comp, bad, ret>>
  /\ UNCHANGED <<smVars, ecVars, threadVars>>

(* start(): ExecutionContextWorker::start, under m_mutex, then onStarted.  *)
CallStart(k) ==
  /\ MayCall(k, "start")
  /\ \/ m_running /\ Return(k, "PRECONDITION_NOT_MET") /\ UNCHANGED m_running
     \/ ~m_running /\ m_running' = TRUE /\ Enter(k, "start", 1, "opening")
  /\ UNCHANGED <<m_svc, running_, smVars, threadVars>>

OpenThread(k) ==
  /\ cpc[k] = "opening"
  /\ m_svc' = TRUE
  /\ IF m_svc THEN UNCHANGED pc ELSE pc' = "load"
  /\ GoOn(k, "started")
  /\ UNCHANGED <<m_running, running_, i, flag, go, op, comp, bad, ret, smVars>>

OnStarted(k) ==
  /\ cpc[k] = "started"
  /\ GoOn(k, IF isAllNextState("INACTIVE") THEN "close" ELSE "open")
  /\ UNCHANGED <<op, comp, bad, ret, smVars, ecVars, threadVars>>

SetGate(k) ==
  /\ cpc[k] \in {"open", "close"}
  /\ running_' = (cpc[k] = "open")
  /\ Return(k, "RTC_OK")
  /\ UNCHANGED <<m_running, m_svc, smVars, threadVars>>

(* stop(): onStopping closes the gate, then ExecutionContextWorker::stop.  *)
CallStop(k) ==
  /\ MayCall(k, "stop")
  /\ running_' = FALSE
  /\ Enter(k, "stop", 1, "stopping")
  /\ UNCHANGED <<m_running, m_svc, smVars, threadVars>>

Stopping(k) ==
  /\ cpc[k] = "stopping"
  /\ m_running' = FALSE
  /\ Return(k, IF m_running THEN "RTC_OK" ELSE "PRECONDITION_NOT_MET")
  /\ UNCHANGED <<m_svc, running_, smVars, threadVars>>

(* set_rate(): rateChanged() calls every component, without any lock.      *)
CallSetRate(k) ==
  /\ MayCall(k, "set_rate")
  /\ Enter(k, "set_rate", 1, "rate")
  /\ UNCHANGED <<smVars, ecVars, threadVars>>

RateLoop(k) ==
  /\ cpc[k] = "rate"
  /\ \E failed \in Outcomes("on_rate_changed") :
       /\ RateChanged(comp[k], failed)
       /\ \/ /\ comp[k] < N
             /\ comp' = [comp EXCEPT ![k] = @ + 1]
             /\ bad' = [bad EXCEPT ![k] = @ \/ failed]
             /\ UNCHANGED <<cpc, op, ret>>
          \/ /\ comp[k] = N
             /\ Return(k, IF bad[k] \/ failed THEN "RTC_ERROR" ELSE "RTC_OK")
  /\ UNCHANGED <<ecVars, threadVars>>

(* The destructor, called when no other call is in progress: m_svc is      *)
(* cleared, the gate opened, and the thread joined.                        *)
CallDestroy(k) ==
  /\ MayCall(k, "destroy")
  /\ \A j \in Clients : cpc[j] = "idle"
  /\ m_svc' = FALSE
  /\ Enter(k, "destroy", 1, "closing")
  /\ UNCHANGED <<m_running, running_, smVars, threadVars>>

Closing(k) ==
  /\ cpc[k] = "closing"
  /\ running_' = TRUE
  /\ GoOn(k, "joining")
  /\ UNCHANGED <<m_running, m_svc, op, comp, bad, ret, smVars, threadVars>>

Join(k) ==
  /\ cpc[k] = "joining"
  /\ pc \in {"none", "done"}
  /\ GoOn(k, "destroyed")
  /\ UNCHANGED <<op, comp, bad, ret, smVars, ecVars, threadVars>>

Call(k) == \/ CallRequest(k) \/ CallStart(k) \/ CallStop(k)
           \/ CallSetRate(k) \/ CallDestroy(k)

Progress(k) ==
  \/ Store(k) \/ HookTest(k) \/ HookLock(k) \/ Poll(k) \/ Final(k) \/ Final2(k)
  \/ OpenThread(k) \/ OnStarted(k) \/ SetGate(k) \/ Stopping(k)
  \/ RateLoop(k) \/ Closing(k) \/ Join(k)

Next == Thread \/ \E k \in Clients : Call(k) \/ Progress(k)

Spec == Init /\ [][Next]_vars

(* The operating system runs every thread that can take a step; nothing    *)
(* makes a client call.                                                    *)
Fairness == WF_vars(Thread) /\ \A k \in Clients : WF_vars(Progress(k))

FairSpec == Spec /\ Fairness

-----------------------------------------------------------------------------
(* Properties.                                                             *)

(* The callbacks of every component come in the order of the life cycle.   *)
LC == INSTANCE RTCLifeCycle WITH Components <- Comps

LifeCycle == LC!Spec

AllIdle == \A k \in Clients : cpc[k] = "idle"

Stopped == m_running /\ pc = "gate" /\ ~running_ /\ AllIdle

(* PeriodicExecutionContext.cpp:154, "Thread will stopped when all RTCs    *)
(* are INACTIVE": once every call has returned, the gate of a running      *)
(* context is not closed on a component that is active or in error.        *)
StoppedOnlyWhenInactive == Stopped => \A c \in Comps : curr[c] = "INACTIVE"

(* Nor is it closed on a request that was accepted, that the state of the  *)
(* component still allows, and that is not served yet.                     *)
NoStrandedRequest ==
  Stopped => \A c \in Comps : \A r \in request[c] : curr[c] # From(r)

Returns(k, o) ==
  cpc[k] # "idle" /\ cpc'[k] = "idle" /\ op[k] = o /\ ret'[k] = "RTC_OK"

(* Synchronous calls that return RTC_OK have been served: an activated     *)
(* component has got on_activated and is active or went to error since; a  *)
(* deactivated one has got on_deactivated, a reset one an on_reset that    *)
(* succeeded, and nothing after it.                                        *)
SyncCallsAnswered ==
  [][\A k \in Clients :
       LET c == comp[k] IN
       /\ Returns(k, "activation") => curr[c] # "INACTIVE"
       /\ Returns(k, "deactivation") =>
            curr[c] = "INACTIVE" /\ action[c].cb = "on_deactivated"
       /\ Returns(k, "reset") =>
            /\ curr[c] = "INACTIVE"
            /\ action[c] = [cb |-> "on_reset", failed |-> FALSE]]_vars

(* PeriodicExecutionContext.h:383, of deactivate_component: the component  *)
(* "will not be subsequently invoked from the context unless and until it  *)
(* is activated again".  When the call returns RTC_OK no activation that   *)
(* was asked for by an earlier call is still to be served.                 *)
DeactivationIsFinal ==
  [][\A k \in Clients :
       Returns(k, "deactivation") /\ "activation" \in request[comp[k]] =>
         \E j \in Clients : op[j] = "activation" /\ comp[j] = comp[k]]_vars

(* Once the context runs, every call returns, the destructor included.     *)
CallsReturn ==
  \A k \in Clients :
    m_running /\ cpc[k] # "idle" ~> cpc[k] \in {"idle", "destroyed"}

(* As long as its thread is wanted (m_svc),                                *)
(* PeriodicExecutionContext.h:210: "While the context is Running, all      *)
(* Active RTCs participating in the context shall be executed".            *)
ActiveAreExecuted ==
  \A c \in Comps :
    []<>(m_running /\ m_svc /\ curr[c] = "ACTIVE" => action[c].cb = "on_execute")
=============================================================================
