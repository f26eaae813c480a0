-------------------------- MODULE PeriodicECProofs --------------------------
(***************************************************************************)
(* Proofs about PeriodicEC.  The life cycle: for any number of components  *)
(* and clients, any set of operations, any failing callbacks, synchronous  *)
(* or not.  What synchronous calls are answered, and when the context      *)
(* stops: for any number of components and one client (SyncSetting).       *)
(***************************************************************************)
EXTENDS PeriodicEC, TLAPS

(* Where component c stands in the thread's pass: waiting to be updated,   *)
(* between its exit and its entry callback, waiting to be executed, or     *)
(* executed and waiting for its state update.                              *)
PreDoSteps == {"load", "serve", "exit"}

Awaiting(c) == \/ pc = "loop"
               \/ pc = "post" /\ c < i
               \/ pc \in PreDoSteps /\ i <= c
               \/ pc = "entry" /\ i < c
Moving(c)   == pc = "entry" /\ i = c
Ready(c)    == \/ pc = "gate"
               \/ pc \in PreDoSteps \cup {"entry"} /\ c < i
               \/ pc = "do" /\ i <= c
Executed(c) == \/ pc = "do" /\ c < i
               \/ pc = "post" /\ i <= c

InactiveInv(c) ==
  curr[c] = "INACTIVE" =>
    /\ action[c].cb \in {"none", "on_deactivated", "on_reset"}
    /\ ~action[c].failed

ActiveInv(c) ==
  curr[c] = "ACTIVE" =>
    /\ (action[c].failed => next[c] = "ERROR")
    /\ IF Moving(c) THEN action[c].cb = "on_deactivated" /\ next[c] # "ACTIVE"
                    ELSE action[c].cb \in LC!Working
    /\ next[c] # "ERROR" =>
         /\ (Awaiting(c) => action[c].cb = "on_state_update")
         /\ (Ready(c) => action[c].cb # "on_execute")
         /\ (Executed(c) => action[c].cb = "on_execute")

ErrorInv(c) ==
  curr[c] = "ERROR" =>
    /\ next[c] # "ACTIVE"
    /\ IF Moving(c)
         THEN action[c].cb = "on_reset" /\ (action[c].failed => next[c] = "ERROR")
         ELSE action[c].cb \in {"on_aborting", "on_error", "on_reset"}
    /\ Awaiting(c) \/ Executed(c) => action[c].cb = "on_error"

(* The transition decided on is still the one the current state asks for.  *)
ServeInv ==
  pc = "serve" /\ go => /\ curr[i] = From(flag)
                        /\ curr[i] = "ACTIVE" =>
                             /\ action[i].cb = "on_state_update"
                             /\ ~action[i].failed

ThreadInv == /\ pc = "none" => \A c \in Comps : curr[c] = "INACTIVE"
             /\ ServeInv

ComponentInv(c) == InactiveInv(c) /\ ActiveInv(c) /\ ErrorInv(c)

Inv == TypeOK /\ ThreadInv /\ \A c \in Comps : ComponentInv(c)

(* The destructor runs alone, and but for it m_svc tells whether there is  *)
(* a thread: so open() never starts a second one.                          *)
Dying == {"closing", "joining", "destroyed"}

DestroyInv ==
  /\ (\E k \in Clients : cpc[k] \in Dying)
       => \A j \in Clients : cpc[j] \in {"idle"} \cup Dying
  /\ ~m_svc => pc = "none" \/ \E k \in Clients : cpc[k] \in Dying

-----------------------------------------------------------------------------
(* Type correctness.                                                       *)

(* A call that is to raise a flag is a request.                            *)
CallInv == \A k \in Clients : cpc[k] = "store" => op[k] \in Requests

(* A callback leaves a typed record of itself.                             *)
LEMMA CalledType ==
  ASSUME StateMachineTypeOK, NEW c \in Comps, NEW cb \in Callbacks,
         NEW f \in BOOLEAN, Called(c, cb, f)
  PROVE  action' \in [Comps -> [cb : Callbacks, failed : BOOLEAN]]
BY DEF StateMachineTypeOK, Called

(* goTo moves next to a state.                                             *)
LEMMA GoToType ==
  ASSUME StateMachineTypeOK, NEW c \in Comps, NEW s \in LifeCycleStates,
         goTo(c, s)
  PROVE  next' \in [Comps -> LifeCycleStates]
BY DEF StateMachineTypeOK, goTo

(* So does a callback whose failure sends the component to ERROR.          *)
LEMMA CheckedType ==
  ASSUME StateMachineTypeOK, NEW c \in Comps, NEW cb \in Callbacks,
         Checked(c, cb)
  PROVE  /\ next' \in [Comps -> LifeCycleStates]
         /\ action' \in [Comps -> [cb : Callbacks, failed : BOOLEAN]]
<1>1. PICK f \in Outcomes(cb) : /\ Called(c, cb, f)
                                /\ IF f THEN goTo(c, "ERROR") ELSE UNCHANGED next
  BY DEF Checked
<1>2. f \in BOOLEAN
  BY DEF Outcomes
<1>3. "ERROR" \in LifeCycleStates
  BY DEF LifeCycleStates
<1> QED
  BY <1>1, <1>2, <1>3, CalledType, GoToType DEF StateMachineTypeOK

(* What the thread does to a component keeps the type of its states.       *)
LEMMA ComponentStepType ==
  ASSUME StateMachineTypeOK, NEW c \in Comps,
         ExitAction(c) \/ EntryAction(c) \/ DoAction(c) \/ PostDoAction(c)
  PROVE  StateMachineTypeOK'
<1>1. {"on_deactivated", "on_reset", "on_activated", "on_aborting",
       "on_execute", "on_error", "on_state_update"} \subseteq Callbacks
  BY DEF Callbacks
<1>2. action[c].failed \in BOOLEAN
  BY DEF StateMachineTypeOK
<1>3. CASE ExitAction(c)
  BY <1>1, <1>2, <1>3, CalledType, CheckedType
     DEF ExitAction, StateMachineTypeOK
<1>4. CASE EntryAction(c)
  BY <1>1, <1>4, CalledType, CheckedType DEF EntryAction, StateMachineTypeOK
<1>5. CASE DoAction(c)
  BY <1>1, <1>5, CalledType, CheckedType DEF DoAction, StateMachineTypeOK
<1>6. CASE PostDoAction(c)
  BY <1>1, <1>6, CheckedType DEF PostDoAction, StateMachineTypeOK
<1> QED
  BY <1>3, <1>4, <1>5, <1>6

(* At the start the variables have their types, and no client is in a call.*)
LEMMA InitType == Init => TypeOK /\ CallInv
<1> SUFFICES ASSUME Init PROVE TypeOK /\ CallInv
  OBVIOUS
<1>1. StateMachineTypeOK
  BY DEF Init, StateMachineInit, StateMachineTypeOK, LifeCycleStates, Callbacks
<1>2. 1 \in Comps
  BY NAssumption DEF Comps
<1>3. TypeOK
  BY <1>1, <1>2 DEF Init, TypeOK, Requests, ThreadSteps, ClientSteps, Codes
<1>4. CallInv
  BY DEF Init, CallInv
<1> QED
  BY <1>3, <1>4

(* A step of the thread keeps the types and leaves the calls alone.        *)
LEMMA ThreadType ==
  ASSUME TypeOK, CallInv, Thread PROVE TypeOK' /\ CallInv'
<1> USE DEF ThreadSteps, At
<1>1. UNCHANGED clientVars
  BY DEF Thread, LoadFlag, Serve, Exit, Entry, Gate, Do, PostDo, Loop
<1>2. UNCHANGED ecVars
  BY DEF Thread, LoadFlag, Serve, Exit, Entry, Gate, Do, PostDo, Loop
<1>3. StateMachineTypeOK'
  <2>1. CASE Serve
    <3>1. flag \in Requests /\ i \in Comps /\ StateMachineTypeOK
      BY DEF TypeOK
    <3>2. To(flag) \in LifeCycleStates
      BY DEF To, LifeCycleStates
    <3> QED
      BY <2>1, <3>1, <3>2, GoToType DEF Serve, ServeFlag, StateMachineTypeOK
  <2>2. CASE Exit \/ Entry \/ Do \/ PostDo
    BY <2>2, ComponentStepType
       DEF Exit, Entry, Do, PostDo, TypeOK, StateMachineTypeOK, smVars
  <2>3. CASE LoadFlag \/ Gate \/ Loop
    BY <2>3 DEF LoadFlag, Gate, Loop, TypeOK, StateMachineTypeOK, smVars
  <2> QED
    BY <2>1, <2>2, <2>3 DEF Thread
<1>4. /\ pc' \in ThreadSteps /\ i' \in Comps
      /\ flag' \in Requests /\ go' \in BOOLEAN
  <2>1. CASE LoadFlag
    BY <2>1 DEF LoadFlag, NextFlag, TypeOK, mayGoTo, Requests
  <2>2. CASE Serve
    BY <2>2 DEF Serve, NextFlag, TypeOK, Requests
  <2>3. CASE Exit \/ Entry \/ Do \/ PostDo
    BY <2>3, NAssumption DEF Exit, Entry, Do, PostDo, Advance, TypeOK, Comps
  <2>4. CASE Gate \/ Loop
    BY <2>4, NAssumption DEF Gate, Loop, TypeOK, Comps
  <2> QED
    BY <2>1, <2>2, <2>3, <2>4 DEF Thread
<1> QED
  BY <1>1, <1>2, <1>3, <1>4 DEF TypeOK, CallInv, clientVars, ecVars

(* A step of a client keeps the types, and what a call's place says of it. *)
LEMMA ClientType ==
  ASSUME TypeOK, CallInv, NEW k \in Clients, Call(k) \/ Progress(k)
  PROVE  TypeOK' /\ CallInv'
<1> USE DEF GoOn, Enter, Return
<1>1. StateMachineTypeOK'
  <2>1. CASE Store(k)
    BY <2>1 DEF Store, RaiseFlag, TypeOK, StateMachineTypeOK, CallInv
  <2>2. CASE RateLoop(k)
    <3>1. comp[k] \in Comps /\ StateMachineTypeOK /\ "ERROR" \in LifeCycleStates
      BY DEF TypeOK, LifeCycleStates
    <3> QED
      BY <2>2, <3>1, GoToType DEF RateLoop, RateChanged, StateMachineTypeOK
  <2>3. CASE ~Store(k) /\ ~RateLoop(k)
    <3>1. UNCHANGED smVars
      BY <2>3
         DEF Call, Progress, CallRequest, CallStart, CallStop, CallSetRate,
         CallDestroy, HookTest, HookLock, Poll, Final, Final2, OpenThread,
         OnStarted, SetGate, Stopping, Closing, Join
    <3> QED
      BY <3>1 DEF smVars, TypeOK, StateMachineTypeOK
  <2> QED
    BY <2>1, <2>2, <2>3
<1>2. /\ m_running' \in BOOLEAN /\ m_svc' \in BOOLEAN /\ running_' \in BOOLEAN
      /\ pc' \in ThreadSteps /\ i' \in Comps
      /\ flag' \in Requests /\ go' \in BOOLEAN
  BY ZenonT(60) DEF TypeOK, ThreadSteps, ecVars, threadVars, Call, Progress, CallRequest,
         CallStart, CallStop, CallSetRate, CallDestroy, Store, HookTest,
         HookLock,
         Poll, Final, Final2, OpenThread, OnStarted, SetGate, Stopping,
         RateLoop,
         Closing, Join
<1>3. /\ cpc' \in [Clients -> ClientSteps]
      /\ op' \in [Clients -> Operations \cup {"none"}]
      /\ comp' \in [Clients -> Comps]
      /\ bad' \in [Clients -> BOOLEAN]
      /\ ret' \in [Clients -> Codes]
      /\ CallInv'
  <2> USE DEF TypeOK, CallInv, ClientSteps, Codes
  <2>1. 1 \in Comps
    BY NAssumption DEF Comps
  <2>2. CASE CallRequest(k)
    <3>1. PICK c \in Comps, r \in Requests :
            \/ Enter(k, r, c, "store")
            \/ Return(k, "PRECONDITION_NOT_MET")
      BY <2>2 DEF CallRequest
    <3>2. CASE Enter(k, r, c, "store")
      BY <3>2 DEF Operations
    <3>3. CASE Return(k, "PRECONDITION_NOT_MET")
      BY <2>1, <3>3
    <3> QED
      BY <3>1, <3>2, <3>3
  <2>3. CASE CallStart(k) \/ CallStop(k) \/ CallSetRate(k) \/ CallDestroy(k)
    BY <2>1, <2>3, ZenonT(60) DEF CallStart, CallStop, CallSetRate, CallDestroy, Operations
  <2>4. CASE Store(k) \/ OpenThread(k) \/ OnStarted(k) \/ Closing(k) \/ Join(k)
    BY <2>4 DEF Store, OpenThread, OnStarted, Closing, Join
  <2>5. CASE HookTest(k) \/ HookLock(k)
    BY <2>1, <2>5 DEF HookTest, HookLock, AfterHook
  <2>6. CASE Poll(k)
    BY <2>6, ZenonT(60) DEF Poll
  <2>7. CASE Final(k) \/ Final2(k) \/ SetGate(k) \/ Stopping(k)
    BY <2>1, <2>7, ZenonT(40) DEF Final, Final2, SetGate, Stopping
  <2>8. CASE RateLoop(k)
    <3>1. PICK f \in BOOLEAN :
            \/ /\ comp[k] < N
               /\ comp' = [comp EXCEPT ![k] = @ + 1]
               /\ bad' = [bad EXCEPT ![k] = @ \/ f]
               /\ UNCHANGED <<cpc, op, ret>>
            \/ Return(k, "RTC_ERROR")
            \/ Return(k, "RTC_OK")
      BY <2>8 DEF RateLoop, Outcomes
    <3>2. CASE /\ comp[k] < N
               /\ comp' = [comp EXCEPT ![k] = @ + 1]
               /\ bad' = [bad EXCEPT ![k] = @ \/ f]
               /\ UNCHANGED <<cpc, op, ret>>
      <4>1. comp' \in [Clients -> Comps]
        BY <3>2, NAssumption DEF Comps
      <4>2. bad' \in [Clients -> BOOLEAN]
        BY <3>2
      <4> QED
        BY <3>2, <4>1, <4>2
    <3>3. CASE Return(k, "RTC_ERROR") \/ Return(k, "RTC_OK")
      BY <2>1, <3>3
    <3> QED
      BY <3>1, <3>2, <3>3
  <2> QED
    BY <2>2, <2>3, <2>4, <2>5, <2>6, <2>7, <2>8 DEF Call, Progress
<1> QED
  BY <1>1, <1>2, <1>3 DEF TypeOK

(* Every variable keeps its type, whatever the clients call and whichever  *)
(* callbacks fail (PeriodicExecutionContext, RTObjectStateMachine).        *)
THEOREM TypeCorrect == Spec => []TypeOK
<1>1. Init => TypeOK /\ CallInv
  BY InitType
<1>2. TypeOK /\ CallInv /\ [Next]_vars => TypeOK' /\ CallInv'
  <2>1. ASSUME TypeOK, CallInv, UNCHANGED vars PROVE TypeOK' /\ CallInv'
    BY <2>1 DEF vars, smVars, ecVars, threadVars, clientVars, TypeOK,
                StateMachineTypeOK, CallInv
  <2> QED
    BY <2>1, ThreadType, ClientType DEF Next
<1> QED
  BY <1>1, <1>2, PTL DEF Spec
-----------------------------------------------------------------------------
(* The callbacks come in the order of the life cycle.                      *)

(* A step of the thread at component i leaves the others where they are.   *)
LEMMA Position ==
  ASSUME TypeOK, NEW c \in Comps, c # i,
         \/ pc \in {"load", "serve"} /\ pc' \in PreDoSteps /\ i' = i
         \/ pc = "exit" /\ At("entry", i)
         \/ pc \in {"exit", "entry"} /\ Advance("load", "gate")
         \/ pc = "do" /\ Advance("do", "post")
         \/ pc = "post" /\ Advance("post", "loop")
  PROVE  /\ Awaiting(c)' <=> Awaiting(c)
         /\ Ready(c)' <=> Ready(c)
         /\ Executed(c)' <=> Executed(c)
         /\ ~Moving(c) /\ ~Moving(c)'
BY NAssumption DEF TypeOK, Comps, At, Advance, PreDoSteps, Awaiting, Ready,
                   Executed, Moving

(* A component whose states, last callback and place stay keeps its        *)
(* invariant.                                                              *)
LEMMA Untouched ==
  ASSUME NEW c \in Comps, ComponentInv(c),
         curr'[c] = curr[c], next'[c] = next[c], action'[c] = action[c],
         Awaiting(c)' <=> Awaiting(c), Ready(c)' <=> Ready(c),
         Executed(c)' <=> Executed(c), Moving(c)' <=> Moving(c)
  PROVE  ComponentInv(c)'
BY DEF ComponentInv, InactiveInv, ActiveInv, ErrorInv

(* Reading a request flag keeps the inductive invariant.                   *)
LEMMA LoadInv ==
  ASSUME Inv, LoadFlag PROVE ThreadInv' /\ \A c \in Comps : ComponentInv(c)'
<1>1. pc = "load" /\ pc' \in PreDoSteps /\ i' = i /\ UNCHANGED smVars
  BY DEF LoadFlag, NextFlag, At, PreDoSteps
<1>2. ASSUME NEW c \in Comps PROVE ComponentInv(c)'
  <2>1. /\ Awaiting(c)' <=> Awaiting(c)
        /\ Ready(c)' <=> Ready(c)
        /\ Executed(c)' <=> Executed(c)
        /\ Moving(c)' <=> Moving(c)
    BY <1>1 DEF PreDoSteps, Awaiting, Ready, Executed, Moving
  <2> QED
    BY <1>1, <2>1, Untouched DEF Inv, smVars
<1>3. ServeInv'
  <2>1. CASE pc' # "serve" \/ ~go'
    BY <2>1 DEF ServeInv
  <2>2. CASE pc' = "serve" /\ go'
    <3>1. mayGoTo(i, flag) /\ flag' = flag
      BY <2>2 DEF LoadFlag, NextFlag, At
    <3>2. i \in Comps /\ Awaiting(i) /\ ComponentInv(i) /\ flag \in Requests
      BY <1>1 DEF Inv, TypeOK, Awaiting, PreDoSteps, Comps
    <3> QED
      BY <1>1, <3>1, <3>2
         DEF ServeInv, mayGoTo, From, smVars, ComponentInv, ActiveInv
  <2> QED
    BY <2>1, <2>2
<1> QED
  BY <1>1, <1>2, <1>3 DEF ThreadInv, PreDoSteps

(* Serving one keeps it: the flag read may be stale, the test was not.     *)
LEMMA ServeStepInv ==
  ASSUME Inv, Serve PROVE ThreadInv' /\ \A c \in Comps : ComponentInv(c)'
<1>1. /\ pc = "serve" /\ pc' \in {"load", "exit"} /\ i' = i
      /\ ServeFlag(i, flag, go)
  BY DEF Serve, NextFlag, At
<1>2. i \in Comps /\ flag \in Requests /\ StateMachineTypeOK
  BY DEF Inv, TypeOK
<1>3. ASSUME NEW c \in Comps PROVE ComponentInv(c)'
  <2>1. /\ Awaiting(c)' <=> Awaiting(c)
        /\ Ready(c)' <=> Ready(c)
        /\ Executed(c)' <=> Executed(c)
        /\ Moving(c)' <=> Moving(c)
    BY <1>1 DEF PreDoSteps, Awaiting, Ready, Executed, Moving
  <2>2. CASE c # i \/ ~go
    <3>1. curr'[c] = curr[c] /\ next'[c] = next[c] /\ action'[c] = action[c]
      BY <1>1, <1>2, <2>2 DEF ServeFlag, goTo, StateMachineTypeOK
    <3> QED
      BY <2>1, <3>1, Untouched DEF Inv
  <2>3. CASE c = i /\ go
    <3>1. /\ next'[c] = To(flag) /\ curr'[c] = curr[c]
          /\ action'[c] = action[c] /\ curr[c] = From(flag)
          /\ ServeInv /\ ComponentInv(c)
      BY <1>1, <1>2, <2>3
         DEF ServeFlag, goTo, StateMachineTypeOK, ServeInv, Inv, ThreadInv
    <3>2. ~Moving(c) /\ ~Ready(c) /\ ~Executed(c)
      BY <1>1, <2>3, <1>2 DEF Moving, Ready, Executed, PreDoSteps, Comps
    <3> QED
      BY <1>1, <2>1, <2>3, <3>1, <3>2, <1>2
         DEF ComponentInv, InactiveInv, ActiveInv, ErrorInv, ServeInv, From,
             To,
             LC!Working, Requests
  <2> QED
    BY <2>2, <2>3
<1> QED
  BY <1>1, <1>3 DEF ThreadInv, ServeInv

(* worker_pre(): a component whose states agree goes on to be executed; of *)
(* the others the exit callback runs.                                      *)
LEMMA ExitInv ==
  ASSUME Inv, Exit PROVE ThreadInv' /\ \A c \in Comps : ComponentInv(c)'
<1> USE DEF Inv
<1>1. i \in Comps /\ StateMachineTypeOK /\ pc = "exit"
  BY DEF TypeOK, Exit
<1>2. /\ Awaiting(i)
      /\ ~Moving(i) /\ ~Ready(i) /\ ~Executed(i)
  BY <1>1 DEF Awaiting, Moving, Ready, Executed, PreDoSteps, Comps
<1>3. ASSUME NEW c \in Comps PROVE ComponentInv(c)'
  <2>1. CASE c # i
    <3>1. curr'[c] = curr[c] /\ next'[c] = next[c] /\ action'[c] = action[c]
      BY <1>1, <2>1 DEF Exit, ExitAction, Checked, Called, goTo, smVars,
                        StateMachineTypeOK
    <3>2. /\ Awaiting(c)' <=> Awaiting(c)
          /\ Ready(c)' <=> Ready(c)
          /\ Executed(c)' <=> Executed(c)
          /\ ~Moving(c) /\ ~Moving(c)'
      BY <1>1, <2>1, Position DEF Exit
    <3> QED
      BY <3>1, <3>2, Untouched
  <2>2. CASE c = i /\ curr[i] = next[i]
    <3>1. UNCHANGED smVars /\ Advance("load", "gate")
      BY <2>2 DEF Exit
    <3>2. ~Awaiting(c)' /\ ~Moving(c)' /\ ~Executed(c)'
      BY <1>1, <2>2, <3>1, NAssumption
         DEF Advance, At, Awaiting, Moving, Executed, PreDoSteps, Comps
    <3> QED
      BY <1>2, <2>2, <3>1, <3>2
         DEF ComponentInv, InactiveInv, ActiveInv, ErrorInv, smVars
  <2>3. CASE c = i /\ curr[i] # next[i]
    <3>1. ExitAction(i) /\ pc' = "entry" /\ i' = i /\ curr' = curr
      BY <2>3 DEF Exit, At, ExitAction
    <3>2. Moving(c)' /\ ~Awaiting(c)' /\ ~Ready(c)' /\ ~Executed(c)'
      BY <1>1, <2>3, <3>1
         DEF Moving, Awaiting, Ready, Executed, PreDoSteps, Comps
    <3>3. CASE curr[i] = "INACTIVE"
      BY <2>3, <3>1, <3>3
         DEF ExitAction, ComponentInv, InactiveInv, ActiveInv, ErrorInv
    <3>4. CASE curr[i] = "ACTIVE"
      <4>1. next' = next /\ action'[i] = [cb |-> "on_deactivated",
                                          failed |-> action[i].failed]
        BY <1>1, <3>1, <3>4 DEF ExitAction, Called, StateMachineTypeOK
      <4> QED
        BY <1>2, <2>3, <3>1, <3>2, <3>4, <4>1
           DEF ComponentInv, InactiveInv, ActiveInv, ErrorInv
    <3>5. CASE curr[i] = "ERROR"
      <4>1. PICK f \in BOOLEAN :
              /\ action'[i] = [cb |-> "on_reset", failed |-> f]
              /\ next'[i] = IF f THEN "ERROR" ELSE next[i]
        BY <1>1, <3>1, <3>5
           DEF ExitAction, Checked, Called, Outcomes, goTo, StateMachineTypeOK
      <4> QED
        BY <1>2, <2>3, <3>1, <3>2, <3>5, <4>1
           DEF ComponentInv, InactiveInv, ActiveInv, ErrorInv
    <3> QED
      BY <1>1, <3>3, <3>4, <3>5 DEF StateMachineTypeOK, LifeCycleStates
  <2> QED
    BY <2>1, <2>2, <2>3
<1>4. pc' # "none" /\ pc' # "serve"
  BY DEF Exit, Advance, At
<1> QED
  BY <1>3, <1>4 DEF ThreadInv, ServeInv

(* worker_pre(), after the exit callback: the entry callback runs and the  *)
(* current state follows.                                                  *)
LEMMA EntryInv ==
  ASSUME Inv, Entry PROVE ThreadInv' /\ \A c \in Comps : ComponentInv(c)'
<1> USE DEF Inv
<1>1. i \in Comps /\ StateMachineTypeOK /\ pc = "entry" /\ EntryAction(i)
  BY DEF TypeOK, Entry
<1>2. Moving(i)
  BY <1>1 DEF Moving
<1>3. ASSUME NEW c \in Comps PROVE ComponentInv(c)'
  <2>1. CASE c # i
    <3>1. curr'[c] = curr[c] /\ next'[c] = next[c] /\ action'[c] = action[c]
      BY <1>1, <2>1 DEF EntryAction, Checked, Called, goTo, StateMachineTypeOK
    <3>2. /\ Awaiting(c)' <=> Awaiting(c)
          /\ Ready(c)' <=> Ready(c)
          /\ Executed(c)' <=> Executed(c)
          /\ ~Moving(c) /\ ~Moving(c)'
      BY <1>1, <2>1, Position DEF Entry
    <3> QED
      BY <3>1, <3>2, Untouched
  <2>2. CASE c = i
    <3>1. ~Awaiting(c)' /\ ~Moving(c)' /\ ~Executed(c)'
      BY <1>1, <2>2, NAssumption
         DEF Entry, Advance, At, Awaiting, Moving, Executed, PreDoSteps, Comps
    <3>2. CASE next[i] = curr[i]
      BY <1>1, <1>2, <2>2, <3>1, <3>2
         DEF EntryAction, ComponentInv, InactiveInv, ActiveInv, ErrorInv
    <3>3. CASE next[i] # curr[i] /\ next[i] = "INACTIVE"
      <4>1. curr'[i] = "INACTIVE" /\ next' = next /\ action' = action
        BY <1>1, <3>3 DEF EntryAction, StateMachineTypeOK
      <4> QED
        BY <1>1, <1>2, <2>2, <3>3, <4>1
           DEF ComponentInv, InactiveInv, ActiveInv, ErrorInv,
               StateMachineTypeOK, LifeCycleStates
    <3>4. CASE next[i] # curr[i] /\ next[i] = "ACTIVE"
      <4>1. PICK f \in BOOLEAN :
              /\ action'[i] = [cb |-> "on_activated", failed |-> f]
              /\ next'[i] = IF f THEN "ERROR" ELSE next[i]
        BY <1>1, <3>4, ZenonT(40)
           DEF EntryAction, Checked, Called, Outcomes, goTo, StateMachineTypeOK
      <4>2. curr'[i] = "ACTIVE"
        BY <1>1, <3>4 DEF EntryAction, StateMachineTypeOK
      <4> QED
        BY <2>2, <3>1, <3>4, <4>1, <4>2
           DEF ComponentInv, InactiveInv, ActiveInv, ErrorInv, LC!Working
    <3>5. CASE next[i] # curr[i] /\ next[i] = "ERROR"
      <4>1. /\ curr'[i] = "ERROR" /\ next'[i] = "ERROR"
            /\ action'[i].cb = "on_aborting"
        BY <1>1, <3>5 DEF EntryAction, Called, StateMachineTypeOK
      <4> QED
        BY <2>2, <3>1, <4>1
           DEF ComponentInv, InactiveInv, ActiveInv, ErrorInv
    <3> QED
      BY <1>1, <3>2, <3>3, <3>4, <3>5 DEF StateMachineTypeOK, LifeCycleStates
  <2> QED
    BY <2>1, <2>2
<1>4. pc' # "none" /\ pc' # "serve"
  BY DEF Entry, Advance, At
<1> QED
  BY <1>3, <1>4 DEF ThreadInv, ServeInv

(* The gate: every component has been updated and none is executed yet.    *)
LEMMA GateInv ==
  ASSUME Inv, Gate PROVE ThreadInv' /\ \A c \in Comps : ComponentInv(c)'
<1>1. pc = "gate" /\ pc' = "do" /\ i' = 1 /\ UNCHANGED smVars
  BY DEF Gate, At
<1>2. ASSUME NEW c \in Comps PROVE ComponentInv(c)'
  <2>1. /\ Awaiting(c)' <=> Awaiting(c)
        /\ Ready(c)' <=> Ready(c)
        /\ Executed(c)' <=> Executed(c)
        /\ Moving(c)' <=> Moving(c)
    BY <1>1 DEF PreDoSteps, Awaiting, Ready, Executed, Moving, Comps
  <2> QED
    BY <1>1, <2>1, Untouched DEF Inv, smVars
<1> QED
  BY <1>1, <1>2 DEF ThreadInv, ServeInv

(* worker_do(): on_execute of a component that is active and has no error  *)
(* pending, on_error of one in error.                                      *)
LEMMA DoInv ==
  ASSUME Inv, Do PROVE ThreadInv' /\ \A c \in Comps : ComponentInv(c)'
<1> USE DEF Inv
<1>1. i \in Comps /\ StateMachineTypeOK /\ pc = "do" /\ DoAction(i)
  BY DEF TypeOK, Do
<1>2. Ready(i) /\ ~Moving(i)
  BY <1>1 DEF Ready, Moving, Comps
<1>3. ASSUME NEW c \in Comps PROVE ComponentInv(c)'
  <2>1. CASE c # i
    <3>1. curr'[c] = curr[c] /\ next'[c] = next[c] /\ action'[c] = action[c]
      BY <1>1, <2>1 DEF DoAction, Checked, Called, goTo, StateMachineTypeOK
    <3>2. /\ Awaiting(c)' <=> Awaiting(c)
          /\ Ready(c)' <=> Ready(c)
          /\ Executed(c)' <=> Executed(c)
          /\ ~Moving(c) /\ ~Moving(c)'
      BY <1>1, <2>1, Position DEF Do
    <3> QED
      BY <3>1, <3>2, Untouched
  <2>2. CASE c = i
    <3>1. ~Awaiting(c)' /\ ~Moving(c)' /\ ~Ready(c)'
      BY <1>1, <2>2, NAssumption
         DEF Do, Advance, At, Awaiting, Moving, Ready, PreDoSteps, Comps
    <3>2. CASE curr[i] = "INACTIVE" \/ (curr[i] = "ACTIVE" /\ next[i] = "ERROR")
      BY <1>1, <1>2, <2>2, <3>1, <3>2
         DEF DoAction, ComponentInv, InactiveInv, ActiveInv, ErrorInv
    <3>3. CASE curr[i] = "ACTIVE" /\ next[i] # "ERROR"
      <4>1. PICK f \in BOOLEAN :
              /\ action'[i] = [cb |-> "on_execute", failed |-> f]
              /\ next'[i] = IF f THEN "ERROR" ELSE next[i]
        BY <1>1, <3>3
           DEF DoAction, Checked, Called, Outcomes, goTo, StateMachineTypeOK
      <4>2. curr'[i] = "ACTIVE"
        BY <1>1, <3>3 DEF DoAction
      <4> QED
        BY <2>2, <3>1, <4>1, <4>2
           DEF ComponentInv, InactiveInv, ActiveInv, ErrorInv, LC!Working
    <3>4. CASE curr[i] = "ERROR"
      <4>1. curr' = curr /\ next' = next /\ action'[i].cb = "on_error"
        BY <1>1, <3>4 DEF DoAction, Called, StateMachineTypeOK
      <4> QED
        BY <2>2, <3>1, <3>4, <4>1
           DEF ComponentInv, InactiveInv, ActiveInv, ErrorInv
    <3> QED
      BY <1>1, <3>2, <3>3, <3>4 DEF StateMachineTypeOK, LifeCycleStates
  <2> QED
    BY <2>1, <2>2
<1>4. pc' # "none" /\ pc' # "serve"
  BY DEF Do, Advance, At
<1> QED
  BY <1>3, <1>4 DEF ThreadInv, ServeInv

(* worker_post(): on_state_update of a component that was executed and has *)
(* no error pending.                                                       *)
LEMMA PostDoInv ==
  ASSUME Inv, PostDo PROVE ThreadInv' /\ \A c \in Comps : ComponentInv(c)'
<1> USE DEF Inv
<1>1. i \in Comps /\ StateMachineTypeOK /\ pc = "post" /\ PostDoAction(i)
  BY DEF TypeOK, PostDo
<1>2. Executed(i) /\ ~Moving(i)
  BY <1>1 DEF Executed, Moving, Comps
<1>3. ASSUME NEW c \in Comps PROVE ComponentInv(c)'
  <2>1. CASE c # i
    <3>1. curr'[c] = curr[c] /\ next'[c] = next[c] /\ action'[c] = action[c]
      BY <1>1, <2>1 DEF PostDoAction, Checked, Called, goTo, StateMachineTypeOK
    <3>2. /\ Awaiting(c)' <=> Awaiting(c)
          /\ Ready(c)' <=> Ready(c)
          /\ Executed(c)' <=> Executed(c)
          /\ ~Moving(c) /\ ~Moving(c)'
      BY <1>1, <2>1, Position DEF PostDo
    <3> QED
      BY <3>1, <3>2, Untouched
  <2>2. CASE c = i
    <3>1. ~Executed(c)' /\ ~Moving(c)' /\ ~Ready(c)'
      BY <1>1, <2>2, NAssumption
         DEF PostDo, Advance, At, Executed, Moving, Ready, PreDoSteps, Comps
    <3>2. CASE curr[i] # "ACTIVE" \/ next[i] = "ERROR"
      BY <1>1, <1>2, <2>2, <3>1, <3>2
         DEF PostDoAction, ComponentInv, InactiveInv, ActiveInv, ErrorInv
    <3>3. CASE curr[i] = "ACTIVE" /\ next[i] # "ERROR"
      <4>1. PICK f \in BOOLEAN :
              /\ action'[i] = [cb |-> "on_state_update", failed |-> f]
              /\ next'[i] = IF f THEN "ERROR" ELSE next[i]
        BY <1>1, <3>3
           DEF PostDoAction, Checked, Called, Outcomes, goTo,
               StateMachineTypeOK
      <4>2. curr'[i] = "ACTIVE"
        BY <1>1, <3>3 DEF PostDoAction
      <4> QED
        BY <2>2, <3>1, <4>1, <4>2
           DEF ComponentInv, InactiveInv, ActiveInv, ErrorInv, LC!Working
    <3> QED
      BY <3>2, <3>3
  <2> QED
    BY <2>1, <2>2
<1>4. pc' # "none" /\ pc' # "serve"
  BY DEF PostDo, Advance, At
<1> QED
  BY <1>3, <1>4 DEF ThreadInv, ServeInv

(* The end of a pass: every component awaits its next update, or the       *)
(* thread ends.                                                            *)
LEMMA LoopInv ==
  ASSUME Inv, Loop PROVE ThreadInv' /\ \A c \in Comps : ComponentInv(c)'
<1>1. pc = "loop" /\ pc' \in {"load", "done"} /\ i' = 1 /\ UNCHANGED smVars
  BY DEF Loop, At
<1>2. ASSUME NEW c \in Comps PROVE ComponentInv(c)'
  <2>1. /\ Awaiting(c) /\ ~Moving(c)
        /\ ~Ready(c)' /\ ~Executed(c)' /\ ~Moving(c)'
    BY <1>1 DEF PreDoSteps, Awaiting, Ready, Executed, Moving, Comps
  <2> QED
    BY <1>1, <2>1
       DEF Inv, smVars, ComponentInv, InactiveInv, ActiveInv, ErrorInv
<1> QED
  BY <1>1, <1>2 DEF ThreadInv, ServeInv

(* A call of a client leaves the thread where it is, and starts it at most *)
(* once.  Of the state machines it changes flags, and next only to ERROR.  *)
LEMMA ClientInv ==
  ASSUME Inv, DestroyInv, NEW k \in Clients, Call(k) \/ Progress(k)
  PROVE  ThreadInv' /\ \A c \in Comps : ComponentInv(c)'
<1> USE DEF Inv, GoOn, Enter, Return
<1>1. CASE OpenThread(k) /\ ~m_svc
  <2>1. pc = "none"
    BY <1>1 DEF OpenThread, DestroyInv, Dying
  <2>2. /\ \A c \in Comps : curr[c] = "INACTIVE"
        /\ UNCHANGED smVars /\ pc' = "load"
    BY <1>1, <2>1 DEF OpenThread, ThreadInv
  <2> QED
    BY <2>2 DEF smVars, ThreadInv, ServeInv, ComponentInv, InactiveInv,
                ActiveInv, ErrorInv
<1>2. CASE ~(OpenThread(k) /\ ~m_svc)
  <2>1. UNCHANGED <<pc, i, flag, go, curr, action>>
    BY <1>2 DEF Call, Progress, CallRequest, CallStart, CallStop, CallSetRate,
       CallDestroy, Store, HookTest, HookLock, Poll, Final, Final2, OpenThread,
       OnStarted, SetGate, Stopping, RateLoop, Closing, Join, smVars, ecVars,
       threadVars, RaiseFlag, RateChanged
  <2>2. \A c \in Comps : next'[c] = next[c] \/ next'[c] = "ERROR"
    <3>1. CASE RateLoop(k)
      BY <3>1 DEF RateLoop, RateChanged, goTo, TypeOK, StateMachineTypeOK
    <3>2. CASE ~RateLoop(k)
      BY <3>2
         DEF Call, Progress, CallRequest, CallStart, CallStop, CallSetRate,
         CallDestroy, Store, HookTest, HookLock, Poll, Final, Final2,
         OpenThread,
         OnStarted, SetGate, Stopping, Closing, Join, smVars, RaiseFlag
    <3> QED
      BY <3>1, <3>2
  <2>3. ASSUME NEW c \in Comps PROVE ComponentInv(c)'
    BY <2>1, <2>2
       DEF ComponentInv, InactiveInv, ActiveInv, ErrorInv, Awaiting, Moving,
           Ready, Executed
  <2>4. ThreadInv'
    BY <2>1 DEF ThreadInv, ServeInv
  <2> QED
    BY <2>3, <2>4
<1> QED
  BY <1>1, <1>2

(* A client's step keeps what the destructor's place says of the context.  *)
LEMMA ClientDestroyInv ==
  ASSUME TypeOK, DestroyInv, NEW k \in Clients, Call(k) \/ Progress(k)
  PROVE  DestroyInv'
<1> USE DEF GoOn, Enter, Return, TypeOK, DestroyInv, Dying, ClientSteps
<1>1. CASE CallRequest(k) \/ CallStart(k) \/ CallStop(k) \/ CallSetRate(k)
  <2>1. /\ cpc[k] = "idle" /\ \A j \in Clients : cpc[j] \notin Dying
        /\ UNCHANGED <<m_svc, pc>>
    BY <1>1 DEF CallRequest, CallStart, CallStop, CallSetRate, MayCall, ecVars,
                threadVars
  <2>2. cpc'[k] \notin Dying /\ \A j \in Clients : j # k => cpc'[j] = cpc[j]
    BY <1>1 DEF CallRequest, CallStart, CallStop, CallSetRate
  <2> QED
    BY <2>1, <2>2
<1>2. CASE CallDestroy(k) \/ Closing(k) \/ Join(k)
  BY <1>2 DEF CallDestroy, Closing, Join, threadVars, ecVars
<1>3. CASE OpenThread(k)
  BY <1>3 DEF OpenThread
<1>4. CASE Store(k) \/ HookTest(k) \/ HookLock(k) \/ Poll(k) \/ Final(k)
        \/ Final2(k) \/ OnStarted(k) \/ SetGate(k) \/ Stopping(k) \/ RateLoop(k)
  <2>1. cpc[k] \notin {"idle"} \cup Dying /\ UNCHANGED <<m_svc, pc>>
    BY <1>4 DEF Store, HookTest, HookLock, Poll, Final, Final2, OnStarted,
                SetGate, Stopping, RateLoop, ecVars, threadVars
  <2>2. cpc'[k] \notin Dying /\ \A j \in Clients : j # k => cpc'[j] = cpc[j]
    BY <1>4, <2>1
       DEF Store, HookTest, HookLock, Poll, Final, Final2, OnStarted,
                SetGate, Stopping, RateLoop, AfterHook
  <2> QED
    BY <2>1, <2>2
<1> QED
  BY <1>1, <1>2, <1>3, <1>4 DEF Call, Progress

(* The whole invariant survives every step of the thread.                  *)
LEMMA ThreadStepInv ==
  ASSUME Inv, CallInv, DestroyInv, Thread PROVE Inv' /\ CallInv' /\ DestroyInv'
<1>1. TypeOK' /\ CallInv'
  BY ThreadType DEF Inv
<1>2. ThreadInv' /\ \A c \in Comps : ComponentInv(c)'
  BY LoadInv, ServeStepInv, ExitInv, EntryInv, GateInv, DoInv, PostDoInv,
     LoopInv
     DEF Thread
<1>3. DestroyInv'
  <2>1. UNCHANGED <<m_svc, cpc>> /\ pc # "none"
    BY DEF Thread, LoadFlag, Serve, Exit, Entry, Gate, Do, PostDo, Loop,
           ecVars,
           clientVars
  <2> QED
    BY <2>1 DEF DestroyInv
<1> QED
  BY <1>1, <1>2, <1>3 DEF Inv

(* It holds at the start.                                                  *)
LEMMA InitInv == Init => Inv /\ CallInv /\ DestroyInv
<1> SUFFICES ASSUME Init PROVE Inv /\ CallInv /\ DestroyInv
  OBVIOUS
<1>1. TypeOK /\ CallInv
  BY InitType
<1>2. DestroyInv
  BY DEF Init, DestroyInv, Dying
<1>3. ThreadInv /\ \A c \in Comps : ComponentInv(c)
  BY DEF Init, StateMachineInit, ThreadInv, ServeInv, ComponentInv,
         InactiveInv,
         ActiveInv, ErrorInv
<1> QED
  BY <1>1, <1>2, <1>3 DEF Inv

(* It survives steps that change nothing.                                  *)
LEMMA StutterInv ==
  ASSUME Inv, CallInv, DestroyInv, UNCHANGED vars
  PROVE  Inv' /\ CallInv' /\ DestroyInv'
BY DEF vars, smVars, ecVars, threadVars, clientVars, Inv, TypeOK,
       StateMachineTypeOK, ThreadInv, ServeInv, ComponentInv, InactiveInv,
       ActiveInv, ErrorInv, Awaiting, Moving, Ready, Executed, CallInv,
       DestroyInv

(* What holds of every component in every state: an inactive one was last  *)
(* told so, an active one with no error pending is at the callback its     *)
(* place in the pass calls for, and one in error is being aborted,         *)
(* answering for its error or being reset (svc() over worker_pre,          *)
(* worker_do and worker_post).                                             *)
THEOREM Invariance == Spec => []Inv
<1>1. Init => Inv /\ CallInv /\ DestroyInv
  BY InitInv
<1>2. Inv /\ CallInv /\ DestroyInv /\ [Next]_vars
        => Inv' /\ CallInv' /\ DestroyInv'
  <2>1. ASSUME Inv, CallInv, DestroyInv, NEW k \in Clients, Call(k) \/ Progress(k)
        PROVE  Inv' /\ CallInv' /\ DestroyInv'
    BY <2>1, ClientType, ClientInv, ClientDestroyInv DEF Inv
  <2> QED
    BY <2>1, ThreadStepInv, StutterInv DEF Next
<1> QED
  BY <1>1, <1>2, PTL DEF Spec

-----------------------------------------------------------------------------
(* PeriodicEC implements RTCLifeCycle.                                     *)

(* A callback that the protocol allows next is a step of the protocol.     *)
LEMMA Allowed ==
  ASSUME NEW c \in Comps, NEW cb, NEW f, Called(c, cb, f),
         cb \in LC!Successors(action[c].cb, action[c].failed),
         f \in LC!Outcome(cb, action[c].failed)
  PROVE  LC!Next
BY DEF Called, LC!Next, LC!Invoke

(* A checked callback that the life cycle allows is a step of RTCLifeCycle.*)
LEMMA CheckedAllowed ==
  ASSUME NEW c \in Comps,
         NEW cb \in {"on_activated", "on_execute", "on_state_update", "on_reset"},
         Checked(c, cb), cb \in LC!Successors(action[c].cb, action[c].failed)
  PROVE  LC!Next
<1>1. PICK f \in BOOLEAN : Called(c, cb, f)
  BY DEF Checked, Outcomes
<1>2. f \in LC!Outcome(cb, action[c].failed)
  BY DEF LC!Outcome
<1> QED
  BY <1>1, <1>2, Allowed

(* The exit action of a transition is a step of RTCLifeCycle, or none.     *)
LEMMA ExitAllowed == ASSUME Inv, Exit PROVE [LC!Next]_action
<1>0. i \in Comps /\ StateMachineTypeOK
  BY DEF Inv, TypeOK
<1>1. /\ i \in Comps /\ ComponentInv(i) /\ curr[i] \in LifeCycleStates
      /\ Awaiting(i) /\ ~Moving(i)
  <2>1. ComponentInv(i) /\ curr[i] \in LifeCycleStates
    BY <1>0 DEF Inv, StateMachineTypeOK
  <2>2. Awaiting(i) /\ ~Moving(i)
    BY <1>0 DEF Exit, Awaiting, Moving, PreDoSteps, Comps
  <2> QED
    BY <1>0, <2>1, <2>2
<1>2. CASE curr[i] = next[i] \/ curr[i] = "INACTIVE"
  BY <1>2 DEF Exit, ExitAction, smVars
<1>3. CASE curr[i] # next[i] /\ curr[i] = "ACTIVE"
  <2>1. Called(i, "on_deactivated", action[i].failed)
    BY <1>3 DEF Exit, ExitAction
  <2>2. action[i].cb \in LC!Working
    BY <1>1, <1>3 DEF ComponentInv, ActiveInv
  <2>3. /\ "on_deactivated" \in LC!Successors(action[i].cb, action[i].failed)
        /\ action[i].failed \in LC!Outcome("on_deactivated", action[i].failed)
    BY <2>2 DEF LC!Successors, LC!Working, LC!Outcome
  <2> QED
    BY <1>1, <2>1, <2>3, Allowed
<1>4. CASE curr[i] # next[i] /\ curr[i] = "ERROR"
  <2>1. Checked(i, "on_reset")
    BY <1>4 DEF Exit, ExitAction
  <2>2. action[i].cb = "on_error"
    BY <1>1, <1>4 DEF ComponentInv, ErrorInv
  <2>3. "on_reset" \in LC!Successors(action[i].cb, action[i].failed)
    BY <2>2 DEF LC!Successors, LC!Working
  <2> QED
    BY <1>1, <2>1, <2>3, CheckedAllowed
<1> QED
  BY <1>1, <1>2, <1>3, <1>4 DEF LifeCycleStates

(* So is its entry action.                                                 *)
LEMMA EntryAllowed == ASSUME Inv, Entry PROVE [LC!Next]_action
<1>1. /\ i \in Comps /\ Moving(i) /\ ComponentInv(i) /\ EntryAction(i)
      /\ curr[i] \in LifeCycleStates /\ next[i] \in LifeCycleStates
  BY DEF Inv, TypeOK, StateMachineTypeOK, Entry, Moving
<1>2. CASE next[i] = curr[i] \/ next[i] = "INACTIVE"
  BY <1>1, <1>2 DEF EntryAction
<1>3. CASE next[i] # curr[i] /\ next[i] = "ACTIVE"
  <2>1. Checked(i, "on_activated")
    BY <1>1, <1>3 DEF EntryAction
  <2>2. /\ action[i].cb \in {"none", "on_deactivated", "on_reset"}
        /\ ~action[i].failed
    BY <1>1, <1>3
       DEF ComponentInv, InactiveInv, ErrorInv, LifeCycleStates
  <2>3. "on_activated" \in LC!Successors(action[i].cb, action[i].failed)
    BY <2>2 DEF LC!Successors, LC!Working
  <2> QED
    BY <1>1, <2>1, <2>3, CheckedAllowed
<1>4. CASE next[i] # curr[i] /\ next[i] = "ERROR"
  <2>1. Called(i, "on_aborting", FALSE)
    BY <1>1, <1>4 DEF EntryAction
  <2>2. \/ /\ action[i].cb \in {"none", "on_deactivated", "on_reset"}
           /\ ~action[i].failed
        \/ action[i].cb = "on_deactivated"
    BY <1>1, <1>4 DEF ComponentInv, InactiveInv, ActiveInv, LifeCycleStates
  <2>3. /\ "on_aborting" \in LC!Successors(action[i].cb, action[i].failed)
        /\ FALSE \in LC!Outcome("on_aborting", action[i].failed)
    BY <2>2 DEF LC!Successors, LC!Working, LC!Outcome
  <2> QED
    BY <1>1, <2>1, <2>3, Allowed
<1> QED
  BY <1>1, <1>2, <1>3, <1>4 DEF LifeCycleStates

(* So is the action of the current state, called behind the gate.          *)
LEMMA DoAllowed == ASSUME Inv, Do PROVE [LC!Next]_action
<1>0. i \in Comps /\ StateMachineTypeOK
  BY DEF Inv, TypeOK
<1>1. /\ i \in Comps /\ Ready(i) /\ ~Moving(i) /\ ComponentInv(i) /\ DoAction(i)
      /\ curr[i] \in LifeCycleStates /\ action[i].failed \in BOOLEAN
  <2>1. /\ ComponentInv(i) /\ DoAction(i)
        /\ curr[i] \in LifeCycleStates /\ action[i].failed \in BOOLEAN
    BY <1>0 DEF Inv, StateMachineTypeOK, Do
  <2>2. Ready(i) /\ ~Moving(i)
    BY <1>0 DEF Do, Ready, Moving, Comps
  <2> QED
    BY <1>0, <2>1, <2>2
<1>2. CASE curr[i] = "INACTIVE" \/ (curr[i] = "ACTIVE" /\ next[i] = "ERROR")
  BY <1>1, <1>2 DEF DoAction
<1>3. CASE curr[i] = "ACTIVE" /\ next[i] # "ERROR"
  <2>1. Checked(i, "on_execute")
    BY <1>1, <1>3 DEF DoAction
  <2>2. /\ action[i].cb \in LC!Working /\ action[i].cb # "on_execute"
        /\ ~action[i].failed
    BY <1>1, <1>3 DEF ComponentInv, ActiveInv
  <2>3. "on_execute" \in LC!Successors(action[i].cb, action[i].failed)
    BY <2>2 DEF LC!Successors, LC!Working
  <2> QED
    BY <1>1, <2>1, <2>3, CheckedAllowed
<1>4. CASE curr[i] = "ERROR"
  <2>1. Called(i, "on_error", FALSE)
    BY <1>1, <1>4 DEF DoAction
  <2>2. action[i].cb \in {"on_aborting", "on_error", "on_reset"}
    BY <1>1, <1>4 DEF ComponentInv, ErrorInv
  <2>3. /\ "on_error" \in LC!Successors(action[i].cb, action[i].failed)
        /\ FALSE \in LC!Outcome("on_error", action[i].failed)
    BY <2>2 DEF LC!Successors, LC!Working, LC!Outcome
  <2> QED
    BY <1>1, <2>1, <2>3, Allowed
<1> QED
  BY <1>1, <1>2, <1>3, <1>4 DEF LifeCycleStates

(* So is the action after it, on_state_update.                             *)
LEMMA PostDoAllowed == ASSUME Inv, PostDo PROVE [LC!Next]_action
<1>0. i \in Comps /\ StateMachineTypeOK
  BY DEF Inv, TypeOK
<1>1. /\ i \in Comps /\ Executed(i) /\ ~Moving(i) /\ ComponentInv(i)
      /\ PostDoAction(i) /\ action[i].failed \in BOOLEAN
  <2>1. ComponentInv(i) /\ PostDoAction(i) /\ action[i].failed \in BOOLEAN
    BY <1>0 DEF Inv, StateMachineTypeOK, PostDo
  <2>2. Executed(i) /\ ~Moving(i)
    BY <1>0 DEF PostDo, Executed, Moving, Comps
  <2> QED
    BY <1>0, <2>1, <2>2
<1>2. CASE curr[i] # "ACTIVE" \/ next[i] = "ERROR"
  BY <1>1, <1>2 DEF PostDoAction
<1>3. CASE curr[i] = "ACTIVE" /\ next[i] # "ERROR"
  <2>1. Checked(i, "on_state_update")
    BY <1>1, <1>3 DEF PostDoAction
  <2>2. action[i].cb = "on_execute" /\ ~action[i].failed
    BY <1>1, <1>3 DEF ComponentInv, ActiveInv
  <2>3. "on_state_update" \in LC!Successors(action[i].cb, action[i].failed)
    BY <2>2 DEF LC!Successors, LC!Working
  <2> QED
    BY <1>1, <2>1, <2>3, CheckedAllowed
<1> QED
  BY <1>2, <1>3

(* Whatever the clients call, whichever callbacks fail and however the     *)
(* steps interleave, every component receives its callbacks in the order   *)
(* of the life cycle: it is not executed unless it was activated with      *)
(* success, not after it failed, and not after it was deactivated.         *)
THEOREM LifeCycleCorrect == Spec => LifeCycle
<1>1. Init => LC!Init
  BY DEF Init, StateMachineInit, LC!Init
<1>2. Inv /\ [Next]_vars => [LC!Next]_action
  <2>1. ASSUME Inv, Thread PROVE [LC!Next]_action
    <3>1. CASE LoadFlag \/ Serve \/ Gate \/ Loop
      BY <3>1 DEF LoadFlag, Serve, ServeFlag, Gate, Loop, smVars
    <3> QED
      BY <2>1, <3>1, ExitAllowed, EntryAllowed, DoAllowed, PostDoAllowed
         DEF Thread
  <2>2. ASSUME NEW k \in Clients, Call(k) \/ Progress(k) PROVE action' = action
    BY <2>2 DEF Call, Progress, CallRequest, CallStart, CallStop, CallSetRate,
       CallDestroy, Store, HookTest, HookLock, Poll, Final, Final2, OpenThread,
       OnStarted, SetGate, Stopping, RateLoop, Closing, Join, smVars,
       RaiseFlag, RateChanged
  <2>3. UNCHANGED vars => action' = action
    BY DEF vars, smVars
  <2> QED
    BY <2>1, <2>2, <2>3 DEF Next
<1> QED
  BY <1>1, <1>2, Invariance, PTL DEF Spec, LifeCycle, LC!Spec

-----------------------------------------------------------------------------
(* Synchronous calls.                                                      *)

(* What the answers of the calls rest on: one client, whose requests wait  *)
(* for as long as it takes, and no failing on_rate_changed, which sends a  *)
(* component to ERROR from within set_rate.  All the rest may fail.        *)
SyncSetting == /\ \E k : Clients = {k}
               /\ SyncOps = Requests /\ ~Timeouts
               /\ "on_rate_changed" \notin CanFail

(* The client waits for the state of component c to change.                *)
Waits == {"wait", "waitLock", "poll"}

Owns(k, r, c) == cpc[k] \in Waits /\ op[k] = r /\ comp[k] = c

(* A flag that can still be served belongs to a call that waits for it.    *)
FlagInv(k, c) ==
  /\ "activation" \in request[c] =>
       Owns(k, "activation", c) /\ curr[c] = "INACTIVE" /\ next[c] = "INACTIVE"
  /\ "reset" \in request[c] =>
       Owns(k, "reset", c) /\ curr[c] = "ERROR" /\ next[c] = "ERROR"
  /\ "deactivation" \in request[c] /\ curr[c] = "ACTIVE" =>
       Owns(k, "deactivation", c)
  /\ curr[c] = "INACTIVE" => next[c] # "ERROR"

(* So does a transition that was decided on, which the thread makes before *)
(* it goes on to the next component.                                       *)
Undecided(c) == curr[c] = next[c] \/ next[c] = "ERROR"

MoveInv(k, c) ==
  ~Undecided(c) =>
    /\ pc \in {"load", "serve", "exit", "entry"} /\ i = c
    /\ curr[c] = "INACTIVE" =>
         /\ Owns(k, "activation", c)
         /\ "deactivation" \in request[c] =>
              pc \in {"load", "serve"} /\ flag = "deactivation"
    /\ curr[c] = "ACTIVE" => Owns(k, "deactivation", c)
    /\ curr[c] = "ERROR" => Owns(k, "reset", c)

(* What the thread is to serve is still raised, and no error has come.     *)
LoadedInv ==
  /\ pc = "serve" => flag \in request[i]
  /\ pc = "serve" /\ go =>
       curr[i] = From(flag) /\ (flag = "reset" \/ next[i] # "ERROR")

(* What a call of the client knows of the state of its component.          *)
Answering == {"final", "final2", "notify", "notifyLock"}

KnownInv(k) ==
  LET c == comp[k] IN
  /\ cpc[k] # "rate" => ~bad[k]
  /\ cpc[k] \in {"store"} \cup Waits \cup Answering <=> op[k] \in Requests
  /\ cpc[k] = "store" =>
       /\ op[k] = "activation" => curr[c] = "INACTIVE" /\ next[c] = "INACTIVE"
       /\ op[k] = "reset" => curr[c] = "ERROR" /\ next[c] = "ERROR"
       /\ op[k] = "deactivation" => curr[c] # "INACTIVE"
  /\ op[k] = "reset" => curr[c] # "ACTIVE"
  /\ cpc[k] \in Answering =>
       /\ curr[c] # From(op[k])
       /\ op[k] = "deactivation" /\ cpc[k] \in {"notify", "notifyLock"} =>
            curr[c] = "INACTIVE"
  /\ op[k] = "deactivation" /\ curr[c] = "INACTIVE" =>
       action[c].cb = "on_deactivated"
  /\ op[k] = "reset" /\ curr[c] = "INACTIVE" => action[c].cb = "on_reset"

(* The call waits for ever for a component whose on_reset has failed.      *)
FailedReset(k) ==
  LET c == comp[k] IN
    /\ Owns(k, "reset", c)
    /\ curr[c] = "ERROR" /\ next[c] = "ERROR" /\ "reset" \notin request[c]

AllInactive == isAllNextState("INACTIVE")

(* A running context is stopped only on components that are to be INACTIVE.*)
ClosedInv(k) ==
  /\ cpc[k] \in {"waitLock", "notifyLock"} /\ op[k] # "activation" =>
       AllInactive \/ FailedReset(k)
  /\ cpc[k] = "close" => AllInactive
  /\ op[k] = "activation" /\ cpc[k] \in {"poll"} \cup Answering =>
       (m_running => running_)
  /\ m_running /\ ~running_ =>
       \/ AllInactive \/ FailedReset(k)
       \/ cpc[k] \in {"opening", "started", "open", "stopping"}
       \/ op[k] = "activation" /\ cpc[k] \in {"wait", "waitLock"}

CompsInv(k) == \A c \in Comps : FlagInv(k, c) /\ MoveInv(k, c)

SoleInv(k) == LoadedInv /\ KnownInv(k) /\ ClosedInv(k) /\ CompsInv(k)

(* What a step of the thread does to a component, if anything that counts: *)
(* it serves a flag, a callback fails, or the current state follows.       *)
Kept(c) == /\ curr'[c] = curr[c] /\ next'[c] = next[c]
           /\ request'[c] = request[c]
           /\ curr[c] = "INACTIVE" => action'[c] = action[c]

Served(c) == /\ pc = "serve" /\ i = c
             /\ curr'[c] = curr[c] /\ action'[c] = action[c]
             /\ request'[c] = request[c] \ {flag}
             /\ next'[c] = IF go THEN To(flag) ELSE next[c]

Failed(c) == /\ curr[c] = "ACTIVE" /\ next[c] # "ERROR"
             /\ pc \in {"do", "post"} /\ i = c
             /\ curr'[c] = curr[c] /\ next'[c] = "ERROR"
             /\ request'[c] = request[c]

Unreset(c) == /\ pc = "exit" /\ i = c /\ curr[c] = "ERROR" /\ next[c] # "ERROR"
              /\ curr'[c] = curr[c] /\ next'[c] = "ERROR"
              /\ request'[c] = request[c]

Entered(c) == /\ pc = "entry" /\ i = c /\ next[c] # curr[c]
              /\ curr'[c] = next[c] /\ request'[c] = request[c]
              /\ next'[c] = next[c] \/ (next[c] = "ACTIVE" /\ next'[c] = "ERROR")
              /\ next[c] = "INACTIVE" => action'[c] = action[c]

Effect(c) == Kept(c) \/ Served(c) \/ Failed(c) \/ Unreset(c) \/ Entered(c)

(* A checked callback touches one component, and next only to ERROR.       *)
LEMMA CheckedEffect ==
  ASSUME StateMachineTypeOK, NEW c \in Comps, NEW d \in Comps, NEW cb,
         Checked(c, cb)
  PROVE  /\ next'[d] = next[d] \/ (d = c /\ next'[d] = "ERROR")
         /\ d # c => action'[d] = action[d]
<1>1. PICK f \in Outcomes(cb) : /\ Called(c, cb, f)
                                /\ IF f THEN goTo(c, "ERROR") ELSE UNCHANGED next
  BY DEF Checked
<1>2. d # c => action'[d] = action[d]
  BY <1>1 DEF Called, StateMachineTypeOK
<1>3. next'[d] = next[d] \/ (d = c /\ next'[d] = "ERROR")
  BY <1>1 DEF goTo, StateMachineTypeOK
<1> QED
  BY <1>2, <1>3

(* Every step of the thread is one of these to each component.             *)
LEMMA ThreadEffect ==
  ASSUME Inv, Thread, NEW c \in Comps PROVE Effect(c)
<1>1. i \in Comps /\ StateMachineTypeOK /\ curr[c] \in LifeCycleStates
      /\ next[c] \in LifeCycleStates
  BY DEF Inv, TypeOK, StateMachineTypeOK
<1>2. CASE LoadFlag \/ Gate \/ Loop
  BY <1>2 DEF LoadFlag, Gate, Loop, smVars, Effect, Kept
<1>3. CASE Serve
  <2>1. /\ pc = "serve" /\ curr' = curr /\ action' = action
        /\ request' = [request EXCEPT ![i] = @ \ {flag}]
        /\ next' = IF go THEN [next EXCEPT ![i] = To(flag)] ELSE next
    BY <1>3 DEF Serve, ServeFlag, goTo
  <2>2. CASE c = i
    BY <1>1, <2>1, <2>2 DEF Effect, Served, StateMachineTypeOK
  <2>3. CASE c # i
    BY <1>1, <2>1, <2>3 DEF Effect, Kept, StateMachineTypeOK
  <2> QED
    BY <2>2, <2>3
<1>4. CASE Exit
  <2>1. CASE curr[i] = next[i]
    BY <1>4, <2>1 DEF Exit, Effect, Kept, smVars
  <2>2. CASE curr[i] # next[i]
    <3>1. pc = "exit" /\ ExitAction(i) /\ curr' = curr /\ request' = request
      BY <1>4, <2>2 DEF Exit, ExitAction
    <3>2. CASE curr[i] = "INACTIVE"
      BY <3>1, <3>2 DEF ExitAction, Effect, Kept
    <3>3. CASE curr[i] = "ACTIVE"
      <4>1. next' = next /\ (c # i => action'[c] = action[c])
        BY <1>1, <3>1, <3>3 DEF ExitAction, Called, StateMachineTypeOK
      <4> QED
        BY <3>1, <3>3, <4>1 DEF Effect, Kept
    <3>4. CASE curr[i] = "ERROR"
      <4>1. Checked(i, "on_reset")
        BY <3>1, <3>4 DEF ExitAction
      <4>2. /\ next'[c] = next[c] \/ (c = i /\ next'[c] = "ERROR")
            /\ c # i => action'[c] = action[c]
        BY <1>1, <4>1, CheckedEffect
      <4> QED
        BY <2>2, <3>1, <3>4, <4>2 DEF Effect, Kept, Unreset
    <3> QED
      BY <1>1, <3>2, <3>3, <3>4 DEF StateMachineTypeOK, LifeCycleStates
  <2> QED
    BY <2>1, <2>2
<1>5. CASE Entry
  <2>1. pc = "entry" /\ EntryAction(i) /\ request' = request
    BY <1>5 DEF Entry, EntryAction
  <2>2. CASE next[i] = curr[i]
    BY <2>1, <2>2 DEF EntryAction, Effect, Kept
  <2>3. CASE next[i] # curr[i]
    <3>1. curr' = [curr EXCEPT ![i] = next[i]]
      BY <2>1, <2>3 DEF EntryAction
    <3>2. CASE next[i] = "INACTIVE"
      <4>1. next' = next /\ action' = action
        BY <2>1, <2>3, <3>2 DEF EntryAction
      <4>2. c = i => Entered(c)
        BY <1>1, <2>1, <2>3, <3>1, <4>1 DEF Entered, StateMachineTypeOK
      <4>3. c # i => Kept(c)
        BY <1>1, <2>1, <3>1, <4>1 DEF Kept, StateMachineTypeOK
      <4> QED
        BY <4>2, <4>3 DEF Effect
    <3>3. CASE next[i] = "ACTIVE"
      <4>1. /\ next'[c] = next[c] \/ (c = i /\ next'[c] = "ERROR")
            /\ c # i => action'[c] = action[c]
        BY <1>1, <2>1, <2>3, <3>3, CheckedEffect DEF EntryAction
      <4>2. c = i => Entered(c)
        BY <1>1, <2>1, <2>3, <3>1, <3>3, <4>1 DEF Entered, StateMachineTypeOK
      <4>3. c # i => Kept(c)
        BY <1>1, <2>1, <3>1, <4>1 DEF Kept, StateMachineTypeOK
      <4> QED
        BY <4>2, <4>3 DEF Effect
    <3>4. CASE next[i] = "ERROR"
      <4>1. next' = next /\ (c # i => action'[c] = action[c])
        BY <1>1, <2>1, <2>3, <3>4 DEF EntryAction, Called, StateMachineTypeOK
      <4>2. c = i => Entered(c)
        BY <1>1, <2>1, <2>3, <3>1, <3>4, <4>1 DEF Entered, StateMachineTypeOK
      <4>3. c # i => Kept(c)
        BY <1>1, <2>1, <3>1, <4>1 DEF Kept, StateMachineTypeOK
      <4> QED
        BY <4>2, <4>3 DEF Effect
    <3> QED
      BY <1>1, <3>2, <3>3, <3>4 DEF StateMachineTypeOK, LifeCycleStates
  <2> QED
    BY <2>2, <2>3
<1>6. CASE Do \/ PostDo
  <2>1. /\ pc \in {"do", "post"}
        /\ DoAction(i) \/ PostDoAction(i)
        /\ curr' = curr /\ request' = request
    BY <1>6 DEF Do, PostDo, DoAction, PostDoAction
  <2>2. CASE UNCHANGED <<next, action>>
    BY <2>1, <2>2 DEF Effect, Kept
  <2>3. CASE curr[i] = "ERROR" /\ Called(i, "on_error", FALSE) /\ UNCHANGED next
    BY <1>1, <2>1, <2>3 DEF Called, Effect, Kept, StateMachineTypeOK
  <2>4. CASE /\ curr[i] = "ACTIVE" /\ next[i] # "ERROR"
             /\ Checked(i, "on_execute") \/ Checked(i, "on_state_update")
    <3>1. /\ next'[c] = next[c] \/ (c = i /\ next'[c] = "ERROR")
          /\ c # i => action'[c] = action[c]
      BY <1>1, <2>4, CheckedEffect
    <3> QED
      BY <2>1, <2>4, <3>1 DEF Effect, Kept, Failed
  <2> QED
    BY <2>1, <2>2, <2>3, <2>4 DEF DoAction, PostDoAction
<1> QED
  BY <1>2, <1>3, <1>4, <1>5, <1>6 DEF Thread

(* A step of the thread leaves the calls and the context alone.            *)
LEMMA ThreadLeaves == ASSUME Thread PROVE UNCHANGED <<clientVars, ecVars>>
BY DEF Thread, LoadFlag, Serve, Exit, Entry, Gate, Do, PostDo, Loop

(* Flags and the calls that wait for them.                                 *)
LEMMA ThreadFlag ==
  ASSUME Inv, NEW k, SoleInv(k), Thread, NEW c \in Comps
  PROVE  FlagInv(k, c)'
<1>1. /\ cpc' = cpc /\ op' = op /\ comp' = comp
  BY ThreadLeaves DEF clientVars
<1>2. FlagInv(k, c) /\ MoveInv(k, c) /\ LoadedInv /\ ComponentInv(c)
      /\ flag \in Requests /\ curr[c] \in LifeCycleStates
      /\ next[c] \in LifeCycleStates
  BY DEF Inv, TypeOK, StateMachineTypeOK, SoleInv, CompsInv
<1>3. CASE Kept(c)
  BY <1>1, <1>2, <1>3 DEF Kept, FlagInv, Owns
<1>4. CASE Served(c)
  BY <1>1, <1>2, <1>4
     DEF Served, FlagInv, Owns, LoadedInv, From, To, Requests
<1>5. CASE Failed(c)
  BY <1>1, <1>2, <1>5 DEF Failed, FlagInv, Owns
<1>6. CASE Unreset(c)
  BY <1>1, <1>2, <1>6 DEF Unreset, FlagInv, Owns
<1>7. CASE Entered(c)
  BY <1>1, <1>2, <1>7
     DEF Entered, FlagInv, MoveInv, Undecided, Owns, ComponentInv, ErrorInv,
         LifeCycleStates
<1> QED
  BY <1>3, <1>4, <1>5, <1>6, <1>7, ThreadEffect DEF Effect

(* Transitions and the calls that asked for them.                          *)
LEMMA ThreadMove ==
  ASSUME Inv, NEW k, SoleInv(k), Thread, NEW c \in Comps
  PROVE  MoveInv(k, c)'
<1>1. /\ cpc' = cpc /\ op' = op /\ comp' = comp
  BY ThreadLeaves DEF clientVars
<1>2. FlagInv(k, c) /\ MoveInv(k, c) /\ LoadedInv
      /\ flag \in Requests /\ curr[c] \in LifeCycleStates
      /\ next[c] \in LifeCycleStates
  BY DEF Inv, TypeOK, StateMachineTypeOK, SoleInv, CompsInv
<1>3. CASE Kept(c)
  <2>1. CASE Undecided(c)
    BY <1>3, <2>1 DEF Kept, MoveInv, Undecided
  <2>2. CASE ~Undecided(c)
    <3>1. pc \in {"load", "serve", "exit", "entry"} /\ i = c /\ curr[c] # next[c]
      BY <1>2, <2>2 DEF MoveInv, Undecided
    <3>2. CASE LoadFlag
      BY <1>1, <1>2, <1>3, <2>2, <3>1, <3>2
         DEF LoadFlag, NextFlag, At, Kept, MoveInv, Undecided, Owns
    <3>3. CASE Serve
      <4>1. /\ pc = "serve" /\ request \in [Comps -> SUBSET Requests]
            /\ request' = [request EXCEPT ![i] = @ \ {flag}]
        BY <3>3 DEF Serve, ServeFlag, Inv, TypeOK, StateMachineTypeOK
      <4> QED
        BY <1>2, <1>3, <3>1, <4>1 DEF Kept, LoadedInv
    <3>4. CASE Exit
      BY <1>1, <1>2, <1>3, <2>2, <3>1, <3>4
         DEF Exit, At, Kept, MoveInv, Undecided, Owns
    <3>5. CASE Entry
      <4>1. i \in Comps /\ curr \in [Comps -> LifeCycleStates] /\ EntryAction(i)
        BY <3>5 DEF Entry, Inv, TypeOK, StateMachineTypeOK
      <4>2. curr' = [curr EXCEPT ![i] = next[i]]
        BY <3>1, <4>1 DEF EntryAction
      <4> QED
        BY <1>3, <3>1, <4>1, <4>2 DEF Kept
    <3> QED
      BY <3>1, <3>2, <3>3, <3>4, <3>5 DEF Thread, Gate, Do, PostDo, Loop
  <2> QED
    BY <2>1, <2>2
<1>4. CASE Served(c)
  <2>1. /\ pc = "serve" /\ pc' \in {"load", "exit"} /\ i' = c
        /\ flag = "activation" => pc' = "load" /\ flag' = "deactivation"
    BY <1>4 DEF Served, Thread, LoadFlag, Serve, Exit, Entry, Gate, Do, PostDo,
                Loop, NextFlag, At, Requests
  <2>2. CASE go
    BY <1>1, <1>2, <1>4, <2>1, <2>2
       DEF Served, MoveInv, FlagInv, Undecided, Owns, LoadedInv, From, To,
           Requests
  <2>3. CASE ~go
    BY <1>1, <1>2, <1>4, <2>1, <2>3 DEF Served, MoveInv, Undecided, Owns
  <2> QED
    BY <2>2, <2>3
<1>5. CASE Failed(c) \/ Unreset(c)
  BY <1>5 DEF Failed, Unreset, MoveInv, Undecided
<1>6. CASE Entered(c)
  BY <1>6 DEF Entered, MoveInv, Undecided
<1> QED
  BY <1>3, <1>4, <1>5, <1>6, ThreadEffect DEF Effect

(* What the client knows of its component.                                 *)
LEMMA ThreadKnown ==
  ASSUME Inv, NEW k \in Clients, SoleInv(k), Thread PROVE KnownInv(k)'
<1>1. /\ cpc' = cpc /\ op' = op /\ comp' = comp /\ bad' = bad
  BY ThreadLeaves DEF clientVars
<1> DEFINE c == comp[k]
<1>2. c \in Comps
  BY DEF Inv, TypeOK
<1>3. FlagInv(k, c) /\ MoveInv(k, c) /\ LoadedInv /\ KnownInv(k)
      /\ ComponentInv(c) /\ flag \in Requests /\ curr[c] \in LifeCycleStates
      /\ next[c] \in LifeCycleStates /\ Effect(c)
  BY <1>2, ThreadEffect DEF Inv, TypeOK, StateMachineTypeOK, SoleInv, CompsInv
<1> HIDE DEF c
<1>4. comp[k] = c
  BY DEF c
<1> USE DEF KnownInv
<1>5. CASE Kept(c)
  BY <1>1, <1>3, <1>4, <1>5 DEF Kept
<1>6. CASE Served(c)
  BY <1>1, <1>3, <1>4, <1>6
     DEF Served, FlagInv, Owns, LoadedInv, From, To, Requests, Waits
<1>7. CASE Failed(c) \/ Unreset(c)
  BY <1>1, <1>3, <1>4, <1>7
     DEF Failed, Unreset, MoveInv, Owns, Undecided, Waits
<1>8. CASE Entered(c)
  <2>1. /\ curr'[c] = next[c] /\ Moving(c) /\ next[c] # curr[c]
        /\ next[c] = "INACTIVE" => action'[c] = action[c]
    BY <1>8 DEF Entered, Moving
  <2>2. CASE next[c] = "ERROR"
    BY <1>1, <1>3, <1>4, <2>1, <2>2
       DEF FlagInv, Answering, Waits, From, Requests, LifeCycleStates
  <2>3. CASE next[c] = "ACTIVE"
    <3>1. curr[c] = "INACTIVE" /\ Owns(k, "activation", c)
      BY <1>3, <2>1, <2>3
         DEF MoveInv, Undecided, ComponentInv, ErrorInv, LifeCycleStates
    <3> QED
      BY <1>1, <1>3, <1>4, <2>1, <2>3, <3>1 DEF Owns, Answering, Waits
  <2>4. CASE next[c] = "INACTIVE"
    <3>1. CASE curr[c] = "ACTIVE"
      <4>1. Owns(k, "deactivation", c) /\ action[c].cb = "on_deactivated"
        BY <1>3, <2>1, <2>4, <3>1
           DEF MoveInv, Undecided, ComponentInv, ActiveInv
      <4> QED
        BY <1>1, <1>3, <1>4, <2>1, <2>4, <4>1 DEF Owns, Answering, Waits
    <3>2. CASE curr[c] = "ERROR"
      <4>1. Owns(k, "reset", c) /\ action[c].cb = "on_reset"
        BY <1>3, <2>1, <2>4, <3>2
           DEF MoveInv, Undecided, ComponentInv, ErrorInv
      <4> QED
        BY <1>1, <1>3, <1>4, <2>1, <2>4, <4>1 DEF Owns, Answering, Waits
    <3> QED
      BY <1>3, <2>1, <2>4, <3>1, <3>2 DEF LifeCycleStates
  <2> QED
    BY <1>3, <2>2, <2>3, <2>4 DEF LifeCycleStates
<1> QED
  BY <1>3, <1>5, <1>6, <1>7, <1>8 DEF Effect

(* A call whose on_reset has failed goes on waiting.                       *)
LEMMA ThreadReset ==
  ASSUME Inv, NEW k \in Clients, SoleInv(k), Thread, FailedReset(k)
  PROVE  FailedReset(k)'
<1>1. /\ cpc' = cpc /\ op' = op /\ comp' = comp
  BY ThreadLeaves DEF clientVars
<1>2. comp[k] \in Comps
  BY DEF Inv, TypeOK
<1>3. Effect(comp[k]) /\ LoadedInv /\ flag \in Requests
  BY <1>2, ThreadEffect DEF Inv, TypeOK, SoleInv
<1> QED
  BY <1>1, <1>3
     DEF FailedReset, Effect, Kept, Served, Failed, Unreset, Entered,
         LoadedInv,
         From, Owns, Requests

(* Components that are to be INACTIVE stay so but for an activation, which *)
(* its caller waits for, and for a failing on_reset.                       *)
LEMMA ThreadAllInactive ==
  ASSUME Inv, NEW k \in Clients, SoleInv(k), Thread, AllInactive,
         ~(op[k] = "activation" /\ cpc[k] \in Waits)
  PROVE  AllInactive' \/ FailedReset(k)'
<1>1. /\ cpc' = cpc /\ op' = op /\ comp' = comp
  BY ThreadLeaves DEF clientVars
<1>2. ASSUME NEW c \in Comps PROVE next'[c] = "INACTIVE" \/ FailedReset(k)'
  <2>1. FlagInv(k, c) /\ MoveInv(k, c) /\ LoadedInv /\ next[c] = "INACTIVE"
        /\ flag \in Requests /\ Effect(c) /\ curr[c] \in LifeCycleStates
    BY ThreadEffect DEF Inv, TypeOK, StateMachineTypeOK, SoleInv, CompsInv,
                        AllInactive, isAllNextState
  <2>2. CASE Kept(c) \/ Entered(c)
    BY <2>1, <2>2 DEF Kept, Entered
  <2>3. CASE Served(c)
    BY <2>1, <2>3 DEF Served, LoadedInv, FlagInv, Owns, To, Requests
  <2>4. CASE Failed(c)
    BY <2>1, <2>4 DEF Failed, MoveInv, Undecided
  <2>5. CASE Unreset(c)
    BY <1>1, <2>1, <2>5
       DEF Unreset, MoveInv, FlagInv, Undecided, FailedReset, Owns
  <2> QED
    BY <2>1, <2>2, <2>3, <2>4, <2>5 DEF Effect
<1> QED
  BY <1>2 DEF AllInactive, isAllNextState

(* So the gate stays closed only on components that are to be INACTIVE.    *)
LEMMA ThreadClosed ==
  ASSUME Inv, NEW k \in Clients, SoleInv(k), Thread PROVE ClosedInv(k)'
<1>1. /\ cpc' = cpc /\ op' = op /\ m_running' = m_running /\ running_' = running_
  BY ThreadLeaves DEF clientVars, ecVars
<1>2. ClosedInv(k) /\ KnownInv(k)
  BY DEF SoleInv
<1>3. /\ FailedReset(k) => FailedReset(k)'
      /\ AllInactive /\ ~(op[k] = "activation" /\ cpc[k] \in Waits) =>
           AllInactive' \/ FailedReset(k)'
  BY ThreadReset, ThreadAllInactive
<1>4. FailedReset(k)' => cpc[k] \in Waits
  BY <1>1 DEF FailedReset, Owns
<1> HIDE DEF AllInactive
<1> QED
  BY <1>1, <1>2, <1>3, <1>4 DEF ClosedInv, KnownInv, Waits, Answering

(* The thread keeps the invariant of the client.                           *)
LEMMA ThreadSole ==
  ASSUME Inv, NEW k \in Clients, SoleInv(k), Thread PROVE SoleInv(k)'
<1>1. LoadedInv'
  <2>1. CASE LoadFlag
    BY <2>1 DEF LoadFlag, NextFlag, At, LoadedInv, mayGoTo, smVars
  <2>2. CASE ~LoadFlag
    <3>1. pc' # "serve"
      BY <2>2 DEF Thread, Serve, Exit, Entry, Gate, Do, PostDo, Loop, NextFlag,
                  Advance, At
    <3> QED
      BY <3>1 DEF LoadedInv
  <2> QED
    BY <2>1, <2>2
<1>2. CompsInv(k)'
  BY ThreadFlag, ThreadMove DEF CompsInv, Comps
<1> QED
  BY <1>1, <1>2, ThreadKnown, ThreadClosed DEF SoleInv

(* When no call waits, no flag that can still be served is raised and no   *)
(* transition is decided on; then it does not matter where the client is.  *)
Quiet(c) ==
  /\ "activation" \notin request[c] /\ "reset" \notin request[c]
  /\ "deactivation" \in request[c] => curr[c] # "ACTIVE"
  /\ curr[c] = "INACTIVE" => next[c] # "ERROR"
  /\ Undecided(c)

(* So it is while the client waits for nothing.                            *)
LEMMA NoCallNoFlag ==
  ASSUME NEW k, Inv, SoleInv(k), cpc[k] \notin Waits, NEW c \in Comps
  PROVE  Quiet(c)
<1>1. curr[c] \in LifeCycleStates
  BY DEF Inv, TypeOK, StateMachineTypeOK
<1> QED
  BY <1>1 DEF SoleInv, CompsInv, FlagInv, MoveInv, Owns, Quiet, LifeCycleStates

(* And then a flag or a transition of no call has to be explained.         *)
LEMMA QuietComps ==
  ASSUME NEW k, \A c \in Comps : Quiet(c)' PROVE CompsInv(k)'
BY DEF CompsInv, FlagInv, MoveInv, Quiet, Comps

(* A call that is not a request, or none: nothing is known or awaited.     *)
Elsewhere == {"idle", "opening", "started", "open", "close", "stopping", "rate",
              "closing", "joining", "destroyed"}

(* A step that leaves the state machines alone, to a place where nothing   *)
(* is known, keeps what the client knows.                                  *)
LEMMA Stops ==
  ASSUME NEW k \in Clients, Clients = {k}, Inv, SoleInv(k), Inv',
         UNCHANGED smVars, cpc[k] \notin Waits, cpc'[k] \in Elsewhere,
         op'[k] \notin Requests, cpc'[k] # "rate" => ~bad'[k],
         pc' # "serve" \/ UNCHANGED threadVars
  PROVE  LoadedInv' /\ KnownInv(k)' /\ CompsInv(k)'
<1>1. \A c \in Comps : Quiet(c)'
  BY NoCallNoFlag DEF Quiet, smVars, Undecided
<1>2. CompsInv(k)'
  BY <1>1, QuietComps
<1>3. LoadedInv'
  BY DEF SoleInv, LoadedInv, smVars, threadVars
<1>4. KnownInv(k)'
  BY DEF KnownInv, Elsewhere, Waits, Answering, Requests
<1> QED
  BY <1>2, <1>3, <1>4

(* Calls that are no requests: start, stop, set_rate, the destructor.      *)
LEMMA OtherCallSole ==
  ASSUME SyncSetting, NEW k \in Clients, Clients = {k}, Inv, DestroyInv, Inv',
         SoleInv(k),
         \/ CallStart(k) \/ CallStop(k) \/ CallSetRate(k) \/ CallDestroy(k)
         \/ OpenThread(k) \/ OnStarted(k) \/ SetGate(k) \/ Stopping(k)
         \/ RateLoop(k) \/ Closing(k) \/ Join(k)
  PROVE  SoleInv(k)'
<1> USE DEF GoOn, Enter, Return
<1>0. /\ cpc \in [Clients -> ClientSteps]
      /\ op \in [Clients -> Operations \cup {"none"}]
      /\ comp \in [Clients -> Comps] /\ bad \in [Clients -> BOOLEAN]
      /\ KnownInv(k) /\ ClosedInv(k)
  BY DEF Inv, TypeOK, SoleInv
<1>1. cpc[k] \in Elsewhere
  BY DEF CallStart, CallStop, CallSetRate, CallDestroy, MayCall, OpenThread,
         OnStarted, SetGate, Stopping, RateLoop, Closing, Join, Elsewhere
<1>2. cpc'[k] \in Elsewhere
  BY <1>0, <1>1 DEF CallStart, CallStop, CallSetRate, CallDestroy, OpenThread,
         OnStarted, SetGate, Stopping, RateLoop, Closing, Join, Elsewhere
<1>3. op[k] \notin Requests /\ (cpc[k] # "rate" => ~bad[k])
  BY <1>0, <1>1 DEF KnownInv, Elsewhere, Waits, Answering
<1>4. op'[k] \notin Requests
  BY <1>0, <1>3 DEF CallStart, CallStop, CallSetRate, CallDestroy, OpenThread,
         OnStarted, SetGate, Stopping, RateLoop, Closing, Join, Requests
<1>5. cpc'[k] # "rate" => ~bad'[k]
  BY <1>0, <1>1, <1>3
     DEF CallStart, CallStop, CallSetRate, CallDestroy, MayCall, OpenThread,
         OnStarted, SetGate, Stopping, RateLoop, Closing, Join
<1>6. UNCHANGED smVars
  <2>1. CASE RateLoop(k)
    <3>1. Outcomes("on_rate_changed") = {FALSE}
      BY DEF SyncSetting, Outcomes
    <3> QED
      BY <2>1, <3>1 DEF RateLoop, RateChanged, smVars
  <2> QED
    BY <2>1 DEF CallStart, CallStop, CallSetRate, CallDestroy, OpenThread,
                OnStarted, SetGate, Stopping, Closing, Join
<1>7. pc' # "serve" \/ UNCHANGED threadVars
  <2>1. CASE OpenThread(k)
    BY <2>1 DEF OpenThread, threadVars
  <2> QED
    BY <2>1 DEF CallStart, CallStop, CallSetRate, CallDestroy, OnStarted,
                SetGate, Stopping, RateLoop, Closing, Join
<1>8. cpc[k] \notin Waits
  BY <1>1 DEF Elsewhere, Waits
<1>9. AllInactive' <=> AllInactive
  BY <1>6 DEF smVars, AllInactive, isAllNextState
<1>10. ~FailedReset(k)
  BY <1>8 DEF FailedReset, Owns
<1>11. ClosedInv(k)'
  <2>1. op'[k] # "activation" /\ op[k] # "activation"
    BY <1>3, <1>4 DEF Requests
  <2>2. cpc'[k] \notin {"waitLock", "notifyLock"}
    BY <1>2 DEF Elsewhere
  <2>3. cpc'[k] = "close" => AllInactive'
    BY <1>0, <1>9, <1>1
       DEF CallStart, CallStop, CallSetRate, CallDestroy, OpenThread,
           OnStarted, SetGate, Stopping, RateLoop, Closing, Join, AllInactive,
           Elsewhere
  <2>4. m_running' /\ ~running_' =>
          AllInactive' \/ cpc'[k] \in {"opening", "started", "open", "stopping"}
    <3> HIDE DEF AllInactive
    <3>1. m_running /\ ~running_ =>
            AllInactive \/ cpc[k] \in {"opening", "started", "open", "stopping"}
      BY <1>0, <1>10, <2>1 DEF ClosedInv
    <3>2. cpc[k] = "close" => AllInactive
      BY <1>0 DEF ClosedInv
    <3>3. CASE CallStart(k)
      BY <1>0, <1>9, <3>1, <3>3 DEF CallStart, MayCall
    <3>4. CASE CallStop(k) \/ Closing(k) \/ Stopping(k)
      BY <1>0, <3>4 DEF CallStop, Closing, Stopping
    <3>5. CASE CallSetRate(k) \/ CallDestroy(k)
      BY <1>0, <1>9, <3>1, <3>5 DEF CallSetRate, CallDestroy, MayCall, ecVars
    <3>6. CASE OpenThread(k)
      BY <1>0, <3>6 DEF OpenThread
    <3>7. CASE OnStarted(k)
      BY <1>0, <3>7, <1>9 DEF OnStarted, AllInactive
    <3>8. CASE SetGate(k)
      BY <1>0, <1>9, <3>1, <3>2, <3>8 DEF SetGate
    <3>9. CASE RateLoop(k) \/ Join(k)
      <4>1. cpc[k] \in {"rate", "joining"} /\ UNCHANGED ecVars
        BY <3>9 DEF RateLoop, Join
      <4> QED
        BY <1>9, <3>1, <4>1 DEF ecVars
    <3> QED
      BY <3>3, <3>4, <3>5, <3>6, <3>7, <3>8, <3>9
  <2> QED
    BY <2>1, <2>2, <2>3, <2>4 DEF ClosedInv
<1> QED
  BY <1>2, <1>4, <1>5, <1>6, <1>7, <1>8, <1>11, Stops DEF SoleInv

(* A request starts on a component whose current state allows it.          *)
LEMMA CallRequestSole ==
  ASSUME NEW k \in Clients, Clients = {k}, Inv, SoleInv(k), Inv', CallRequest(k)
  PROVE  SoleInv(k)'
<1> USE DEF GoOn, Enter, Return
<1>0. /\ cpc \in [Clients -> ClientSteps]
      /\ op \in [Clients -> Operations \cup {"none"}]
      /\ comp \in [Clients -> Comps] /\ bad \in [Clients -> BOOLEAN]
      /\ KnownInv(k) /\ ClosedInv(k)
  BY DEF Inv, TypeOK, SoleInv
<1>1. /\ cpc[k] = "idle" /\ ~bad[k]
      /\ UNCHANGED <<smVars, ecVars, threadVars>>
  BY <1>0 DEF CallRequest, MayCall, KnownInv
<1>2. \A c \in Comps : Quiet(c)
  BY <1>1, NoCallNoFlag DEF Waits
<1>3. \A c \in Comps : Quiet(c)'
  BY <1>1, <1>2 DEF Quiet, smVars, Undecided
<1>4. LoadedInv' /\ CompsInv(k)'
  BY <1>1, <1>3, QuietComps DEF SoleInv, LoadedInv, smVars, threadVars
<1>5. m_running /\ ~running_ => AllInactive
  <2> HIDE DEF AllInactive
  <2> QED
    BY <1>0, <1>1 DEF ClosedInv, FailedReset, Owns, Waits
<1>6. AllInactive' <=> AllInactive
  BY <1>1 DEF smVars, AllInactive, isAllNextState
<1>7. ClosedInv(k)'
  <2>1. cpc'[k] \in {"store", "idle"}
    BY <1>0 DEF CallRequest
  <2> HIDE DEF AllInactive
  <2> QED
    BY <1>1, <1>5, <1>6, <2>1 DEF ClosedInv, Answering, ecVars
<1>8. KnownInv(k)'
  <2>1. PICK c \in Comps, r \in Requests :
          \/ curr[c] = From(r) /\ Enter(k, r, c, "store")
          \/ Return(k, "PRECONDITION_NOT_MET")
    BY DEF CallRequest
  <2>2. CASE curr[c] = From(r) /\ Enter(k, r, c, "store")
    <3>1. /\ cpc'[k] = "store" /\ op'[k] = r /\ comp'[k] = c /\ ~bad'[k]
      BY <1>0, <1>1, <2>2
    <3>2. Quiet(c) /\ curr' = curr /\ next' = next
      BY <1>1, <1>2 DEF smVars
    <3> QED
      BY <2>2, <3>1, <3>2
         DEF KnownInv, Quiet, Undecided, From, Requests, Answering
  <2>3. CASE Return(k, "PRECONDITION_NOT_MET")
    <3>1. cpc'[k] = "idle" /\ op'[k] = "none" /\ ~bad'[k]
      BY <1>0, <2>3
    <3> QED
      BY <3>1 DEF KnownInv, Requests, Waits, Answering
  <2> QED
    BY <2>1, <2>2, <2>3
<1> QED
  BY <1>4, <1>7, <1>8 DEF SoleInv

(* Its flag is raised, and it waits.                                       *)
LEMMA StoreSole ==
  ASSUME SyncSetting, NEW k \in Clients, Inv, SoleInv(k), Store(k)
  PROVE  SoleInv(k)'
<1>0. /\ cpc \in [Clients -> ClientSteps] /\ comp[k] \in Comps
      /\ request \in [Comps -> SUBSET Requests]
      /\ KnownInv(k) /\ ClosedInv(k) /\ LoadedInv /\ i \in Comps
      /\ cpc[k] = "store" /\ op[k] \in Requests
  BY DEF Inv, TypeOK, StateMachineTypeOK, SoleInv, Store, KnownInv
<1>1. /\ cpc'[k] = "wait" /\ op' = op /\ comp' = comp /\ bad' = bad
      /\ UNCHANGED <<ecVars, threadVars, curr, next, action>>
      /\ request' = [request EXCEPT ![comp[k]] = @ \cup {op[k]}]
  BY <1>0 DEF Store, GoOn, RaiseFlag, SyncSetting
<1>2. \A c \in Comps : Quiet(c)
  BY <1>0, NoCallNoFlag DEF Waits
<1>3. CompsInv(k)'
  <2> SUFFICES ASSUME NEW c \in Comps PROVE FlagInv(k, c)' /\ MoveInv(k, c)'
    BY DEF CompsInv, Comps
  <2>1. Quiet(c)
    BY <1>2
  <2>2. MoveInv(k, c)'
    <3>1. Undecided(c)'
      BY <1>1, <2>1 DEF Quiet, Undecided
    <3> QED
      BY <3>1 DEF MoveInv
  <2>3. CASE c # comp[k]
    BY <1>0, <1>1, <2>1, <2>2, <2>3 DEF FlagInv, Quiet
  <2>4. CASE c = comp[k]
    <3>1. request'[c] = request[c] \cup {op[k]}
      BY <1>0, <1>1, <2>4
    <3>2. cpc'[k] \in Waits /\ op'[k] = op[k] /\ comp'[k] = c
      BY <1>1, <2>4 DEF Waits
    <3>3. /\ op[k] = "activation" => curr[c] = "INACTIVE" /\ next[c] = "INACTIVE"
          /\ op[k] = "reset" => curr[c] = "ERROR" /\ next[c] = "ERROR"
      BY <1>0, <2>4 DEF KnownInv
    <3>4. /\ "activation" \in request'[c] => op[k] = "activation"
          /\ "reset" \in request'[c] => op[k] = "reset"
          /\ "deactivation" \in request'[c] /\ curr[c] = "ACTIVE" =>
               op[k] = "deactivation"
          /\ curr[c] = "INACTIVE" => next[c] # "ERROR"
      BY <2>1, <3>1 DEF Quiet
    <3>5. curr'[c] = curr[c] /\ next'[c] = next[c]
      BY <1>1
    <3> QED
      BY <2>2, <3>2, <3>3, <3>4, <3>5 DEF FlagInv, Owns
  <2> QED
    BY <2>2, <2>3, <2>4
<1>4. LoadedInv'
  BY <1>0, <1>1 DEF LoadedInv, threadVars
<1>5. KnownInv(k)'
  BY <1>0, <1>1 DEF KnownInv, Waits, Answering
<1>6. ClosedInv(k)'
  <2>1. m_running /\ ~running_ => AllInactive
    BY <1>0 DEF ClosedInv, FailedReset, Owns, Waits
  <2>2. AllInactive' <=> AllInactive
    BY <1>1 DEF AllInactive, isAllNextState
  <2> HIDE DEF AllInactive
  <2> QED
    BY <1>1, <2>1, <2>2 DEF ClosedInv, Answering, ecVars
<1> QED
  BY <1>3, <1>4, <1>5, <1>6 DEF SoleInv

(* The hooks before the wait: the gate may be opened or closed, and the    *)
(* call goes on waiting.                                                   *)
LEMMA WaitSole ==
  ASSUME NEW k \in Clients, Inv, SoleInv(k), HookTest(k) \/ HookLock(k),
         cpc[k] \in {"wait", "waitLock"}
  PROVE  SoleInv(k)'
<1>0. /\ cpc \in [Clients -> ClientSteps] /\ ~bad[k]
      /\ KnownInv(k) /\ ClosedInv(k)
  BY DEF Inv, TypeOK, SoleInv, KnownInv
<1>1. /\ UNCHANGED <<smVars, threadVars, op, comp, bad, m_running>>
      /\ \/ /\ cpc[k] = "wait" /\ HookApplies(k) /\ cpc'[k] = "waitLock"
            /\ running_' = running_
         \/ /\ cpc[k] = "wait" /\ ~HookApplies(k) /\ cpc'[k] = "poll"
            /\ running_' = running_
         \/ /\ cpc[k] = "waitLock" /\ cpc'[k] = "poll"
            /\ running_' = (op[k] = "activation")
  BY <1>0 DEF HookTest, HookLock, AfterHook, GoOn, ecVars
<1>2. cpc[k] \in Waits /\ cpc'[k] \in Waits
  BY <1>1 DEF Waits
<1>3. LoadedInv' /\ CompsInv(k)'
  BY <1>1, <1>2
     DEF SoleInv, LoadedInv, CompsInv, FlagInv, MoveInv, Undecided, Owns,
         Comps,
         smVars, threadVars
<1>4. KnownInv(k)'
  BY <1>0, <1>1, <1>2 DEF KnownInv, smVars, Waits, Answering
<1>5. (AllInactive' <=> AllInactive) /\ (FailedReset(k)' <=> FailedReset(k))
  BY <1>1, <1>2 DEF AllInactive, isAllNextState, FailedReset, Owns, smVars
<1>6. op[k] # "activation" => (HookApplies(k) => AllInactive)
  BY DEF HookApplies, AllInactive
<1>7. op[k] = "activation" => (HookApplies(k) <=> m_running)
  BY DEF HookApplies
<1>8. ClosedInv(k)'
  <2> HIDE DEF AllInactive
  <2> QED
    BY <1>0, <1>1, <1>5, <1>6, <1>7 DEF ClosedInv, Answering
<1> QED
  BY <1>3, <1>4, <1>8 DEF SoleInv

(* A wait ends only when the state has changed, and so no flag of the call *)
(* is left that could still be served.                                     *)
LEMMA PollSole ==
  ASSUME SyncSetting, NEW k \in Clients, Inv, SoleInv(k), Poll(k)
  PROVE  SoleInv(k)'
<1>0. /\ cpc \in [Clients -> ClientSteps] /\ bad \in [Clients -> BOOLEAN]
      /\ KnownInv(k) /\ ClosedInv(k)
      /\ cpc[k] = "poll" /\ op[k] \in Requests
  BY DEF Inv, TypeOK, SoleInv, Poll, KnownInv, Waits
<1>1. /\ UNCHANGED <<smVars, ecVars, threadVars, op, comp>> /\ ~bad'[k]
      /\ \/ curr[comp[k]] = From(op[k]) /\ cpc'[k] = "wait"
         \/ curr[comp[k]] # From(op[k]) /\ cpc'[k] = "final"
  BY <1>0 DEF Poll, GoOn, SyncSetting, KnownInv
<1>2. CASE cpc'[k] = "wait"
  <2>1. LoadedInv' /\ CompsInv(k)'
    BY <1>0, <1>1, <1>2
       DEF SoleInv, LoadedInv, CompsInv, FlagInv, MoveInv, Undecided, Owns,
           Waits, Comps, smVars, threadVars
  <2>2. KnownInv(k)'
    BY <1>0, <1>1, <1>2 DEF KnownInv, smVars, Waits, Answering
  <2>3. (AllInactive' <=> AllInactive) /\ (FailedReset(k)' <=> FailedReset(k))
    BY <1>0, <1>1, <1>2
       DEF AllInactive, isAllNextState, FailedReset, Owns, Waits, smVars
  <2>4. ClosedInv(k)'
    <3> HIDE DEF AllInactive
    <3> QED
      BY <1>0, <1>1, <1>2, <2>3 DEF ClosedInv, Answering, ecVars
  <2> QED
    BY <2>1, <2>2, <2>4 DEF SoleInv
<1>3. CASE cpc'[k] = "final" /\ curr[comp[k]] # From(op[k])
  <2>1. CompsInv(k)'
    <3>1. ASSUME NEW c \in Comps PROVE Quiet(c)
      <4>1. FlagInv(k, c) /\ MoveInv(k, c) /\ curr[c] \in LifeCycleStates
        BY DEF SoleInv, CompsInv, Inv, TypeOK, StateMachineTypeOK
      <4>2. \A r \in Requests : curr[c] = From(r) => ~Owns(k, r, c)
        BY <1>3 DEF Owns
      <4> QED
        BY <4>1, <4>2
           DEF FlagInv, MoveInv, Quiet, Undecided, From, Requests,
               LifeCycleStates
    <3>2. \A c \in Comps : Quiet(c)'
      BY <1>1, <3>1 DEF Quiet, Undecided, smVars
    <3> QED
      BY <3>2, QuietComps
  <2>2. LoadedInv'
    BY <1>1 DEF SoleInv, LoadedInv, smVars, threadVars
  <2>3. KnownInv(k)'
    BY <1>0, <1>1, <1>3 DEF KnownInv, smVars, Answering
  <2>4. ClosedInv(k)'
    <3>1. AllInactive' <=> AllInactive
      BY <1>1 DEF AllInactive, isAllNextState, smVars
    <3>2. ~FailedReset(k)
      BY <1>3 DEF FailedReset, Owns, From
    <3> HIDE DEF AllInactive
    <3> QED
      BY <1>0, <1>1, <1>3, <3>1, <3>2 DEF ClosedInv, Answering, ecVars
  <2> QED
    BY <2>1, <2>2, <2>3, <2>4 DEF SoleInv
<1> QED
  BY <1>1, <1>2, <1>3

(* The answer is read, the gate opened or closed, and the call returns.    *)
LEMMA AnswerSole ==
  ASSUME NEW k \in Clients, Clients = {k}, Inv, SoleInv(k), Inv',
         HookTest(k) \/ HookLock(k) \/ Final(k) \/ Final2(k),
         cpc[k] \in Answering
  PROVE  SoleInv(k)'
<1>0. /\ cpc \in [Clients -> ClientSteps]
      /\ op \in [Clients -> Operations \cup {"none"}]
      /\ bad \in [Clients -> BOOLEAN] /\ ~bad[k] /\ op[k] \in Requests
      /\ KnownInv(k) /\ ClosedInv(k) /\ curr[comp[k]] \in LifeCycleStates
  BY DEF Inv, TypeOK, StateMachineTypeOK, SoleInv, KnownInv, Answering
<1>1. /\ UNCHANGED <<smVars, threadVars, m_running>>
      /\ running_' = running_ \/ running_' = (op[k] = "activation")
  BY DEF HookTest, HookLock, Final, Final2, ecVars
<1>2. \/ /\ cpc'[k] \in Answering /\ op' = op /\ comp' = comp /\ bad' = bad
      \/ /\ cpc'[k] = "idle" /\ op'[k] = "none" /\ ~bad'[k]
  BY <1>0
     DEF HookTest, HookLock, AfterHook, Final, Final2, GoOn, Return, Answering
<1>3. LoadedInv'
  BY <1>1 DEF SoleInv, LoadedInv, smVars, threadVars
<1>4. CompsInv(k)'
  <2>1. \A c \in Comps : Quiet(c)
    BY NoCallNoFlag DEF Answering, Waits
  <2>2. \A c \in Comps : Quiet(c)'
    BY <1>1, <2>1 DEF Quiet, Undecided, smVars
  <2> QED
    BY <2>2, QuietComps
<1>5. KnownInv(k)'
  <2>1. CASE cpc'[k] = "idle" /\ op'[k] = "none" /\ ~bad'[k]
    BY <2>1 DEF KnownInv, Requests, Waits, Answering
  <2>2. CASE cpc'[k] \in Answering /\ op' = op /\ comp' = comp /\ bad' = bad
    <3>1. op[k] = "deactivation" /\ cpc'[k] \in {"notify", "notifyLock"} =>
            curr[comp[k]] = "INACTIVE"
      <4>1. CASE Final(k) \/ Final2(k)
        BY <1>0, <2>2, <4>1
           DEF Final, Final2, GoOn, Return, KnownInv, From, LifeCycleStates,
               Answering
      <4>2. CASE HookTest(k) \/ HookLock(k)
        BY <1>0, <4>2 DEF HookTest, HookLock, KnownInv, Answering
      <4> QED
        BY <4>1, <4>2
    <3> QED
      BY <1>0, <1>1, <2>2, <3>1 DEF KnownInv, Answering, smVars, Waits
  <2> QED
    BY <1>2, <2>1, <2>2
<1>6. ClosedInv(k)'
  <2>1. AllInactive' <=> AllInactive
    BY <1>1 DEF AllInactive, isAllNextState, smVars
  <2>2. ~FailedReset(k)
    BY DEF FailedReset, Owns, Answering, Waits
  <2>3. op[k] = "activation" =>
          /\ m_running => running_
          /\ m_running' => running_'
    BY <1>0, <1>1 DEF ClosedInv
  <2>4. op[k] # "activation" =>
          /\ m_running /\ ~running_ => AllInactive
          /\ m_running' /\ ~running_' => AllInactive
          /\ cpc'[k] = "notifyLock" => AllInactive
    <3>1. CASE HookTest(k)
      BY <1>0, <1>1, <2>2, <3>1
         DEF HookTest, HookApplies, AfterHook, GoOn, Return, ClosedInv,
             Answering, ecVars, AllInactive
    <3>2. CASE HookLock(k)
      BY <1>0, <1>1, <2>2, <3>2
         DEF HookLock, AfterHook, GoOn, Return, ClosedInv, Answering
    <3>3. CASE Final(k) \/ Final2(k)
      BY <1>0, <1>1, <2>2, <3>3
         DEF Final, Final2, GoOn, Return, ClosedInv, Answering, ecVars
    <3> QED
      BY <3>1, <3>2, <3>3
  <2> HIDE DEF AllInactive
  <2> QED
    BY <1>0, <1>2, <2>1, <2>3, <2>4 DEF ClosedInv, Answering
<1> QED
  BY <1>3, <1>4, <1>5, <1>6 DEF SoleInv

(* The invariant of the client holds at the start.                         *)
LEMMA SoleInit == ASSUME Init, NEW k \in Clients PROVE SoleInv(k)
<1>1. /\ cpc[k] = "idle" /\ op[k] = "none" /\ ~bad[k] /\ pc = "none" /\ ~m_running
      /\ \A c \in Comps : /\ curr[c] = "INACTIVE" /\ next[c] = "INACTIVE"
                          /\ request[c] = {}
  BY DEF Init, StateMachineInit
<1> QED
  BY <1>1 DEF SoleInv, LoadedInv, KnownInv, ClosedInv, CompsInv, FlagInv,
              MoveInv, Undecided, Requests, Waits, Answering

(* Stuttering keeps it.                                                    *)
LEMMA SoleStutter ==
  ASSUME NEW k \in Clients, SoleInv(k), UNCHANGED vars PROVE SoleInv(k)'
BY DEF SoleInv, LoadedInv, KnownInv, ClosedInv, CompsInv, FlagInv, MoveInv,
       Undecided, Owns, FailedReset, AllInactive, isAllNextState, Comps,
       vars, smVars, ecVars, threadVars, clientVars

(* So does every step.                                                     *)
LEMMA SoleStep ==
  ASSUME SyncSetting, NEW k \in Clients, Clients = {k}, Inv, CallInv, DestroyInv,
         SoleInv(k), Next, Inv'
  PROVE  SoleInv(k)'
<1>1. CASE Thread
  BY <1>1, ThreadSole
<1>2. CASE Call(k)
  BY <1>2, CallRequestSole, OtherCallSole DEF Call
<1>3. CASE Progress(k)
  <2>1. CASE HookTest(k) \/ HookLock(k)
    <3>1. cpc[k] \in {"wait", "waitLock"} \/ cpc[k] \in Answering
      BY <2>1 DEF HookTest, HookLock, Answering
    <3> QED
      BY <2>1, <3>1, WaitSole, AnswerSole
  <2>2. CASE Final(k) \/ Final2(k)
    <3>1. cpc[k] \in Answering
      BY <2>2 DEF Final, Final2, Answering
    <3> QED
      BY <2>2, <3>1, AnswerSole
  <2> QED
    BY <1>3, <2>1, <2>2, StoreSole, PollSole, OtherCallSole DEF Progress
<1> QED
  BY <1>1, <1>2, <1>3 DEF Next

(* What the answers and the gate rest on, in every state.                  *)
LEMMA SyncInvariance ==
  ASSUME SyncSetting, NEW k, Clients = {k}
  PROVE  Spec => [](Inv /\ SoleInv(k))
<1>1. Init => Inv /\ CallInv /\ DestroyInv /\ SoleInv(k)
  BY InitInv, SoleInit
<1>2. Inv /\ CallInv /\ DestroyInv /\ SoleInv(k) /\ [Next]_vars
        => Inv' /\ CallInv' /\ DestroyInv' /\ SoleInv(k)'
  <2>1. ASSUME Inv, CallInv, DestroyInv, Next
        PROVE  Inv' /\ CallInv' /\ DestroyInv'
    <3>1. CASE Thread
      BY <2>1, <3>1, ThreadStepInv
    <3>2. CASE Call(k) \/ Progress(k)
      BY <2>1, <3>2, ClientType, ClientInv, ClientDestroyInv DEF Inv
    <3> QED
      BY <2>1, <3>1, <3>2 DEF Next
  <2> QED
    BY <2>1, SoleStep, StutterInv, SoleStutter
<1> QED
  BY <1>1, <1>2, PTL DEF Spec

(* A context whose client is in no call is stopped only on components that *)
(* are INACTIVE, and to which nothing that counts has been asked.          *)
LEMMA AtRest ==
  ASSUME NEW k \in Clients, Inv, SoleInv(k), Stopped, NEW c \in Comps
  PROVE  curr[c] = "INACTIVE" /\ \A r \in request[c] : curr[c] # From(r)
<1>1. cpc[k] = "idle" /\ m_running /\ ~running_
  BY DEF Stopped, AllIdle
<1>2. Quiet(c) /\ ClosedInv(k) /\ KnownInv(k) /\ request[c] \subseteq Requests
  BY <1>1, NoCallNoFlag DEF Waits, SoleInv, Inv, TypeOK, StateMachineTypeOK
<1>3. op[k] \notin Requests
  BY <1>1, <1>2 DEF KnownInv, Waits, Answering
<1>4. AllInactive
  BY <1>1, <1>2, <1>3 DEF ClosedInv, FailedReset, Owns, Requests
<1>5. curr[c] = "INACTIVE"
  BY <1>2, <1>4 DEF AllInactive, isAllNextState, Quiet, Undecided
<1> QED
  BY <1>2, <1>5 DEF Quiet, From, Requests

(* The gate of a running context is not closed on a component that is      *)
(* active or in error (PeriodicExecutionContext::onWaitingDeactivated,     *)
(* onDeactivated, onWaitingReset, onReset, onStarted): for any number of   *)
(* components, all calls in any order, set_rate and stop included, and all *)
(* failures but that of on_rate_changed.                                   *)
THEOREM StopsOnInactive ==
  ASSUME SyncSetting PROVE Spec => []StoppedOnlyWhenInactive
<1>1. PICK k : Clients = {k}
  BY DEF SyncSetting
<1>2. Inv /\ SoleInv(k) => StoppedOnlyWhenInactive
  BY <1>1, AtRest DEF StoppedOnlyWhenInactive
<1>3. Spec => [](Inv /\ SoleInv(k))
  BY <1>1, SyncInvariance
<1> QED
  BY <1>2, <1>3, PTL

(* Nor is it closed on a request that is accepted and can still be served  *)
(* (the same hooks, and updateState).                                      *)
THEOREM ServesRequests ==
  ASSUME SyncSetting PROVE Spec => []NoStrandedRequest
<1>1. PICK k : Clients = {k}
  BY DEF SyncSetting
<1>2. Inv /\ SoleInv(k) => NoStrandedRequest
  BY <1>1, AtRest DEF NoStrandedRequest
<1>3. Spec => [](Inv /\ SoleInv(k))
  BY <1>1, SyncInvariance
<1> QED
  BY <1>2, <1>3, PTL

(* A request returns RTC_OK only from the last hook of its call.           *)
LEMMA Answers ==
  ASSUME NEW k \in Clients, Clients = {k}, Inv, SoleInv(k), [Next]_vars,
         NEW r \in Requests, Returns(k, r)
  PROVE  cpc[k] \in {"notify", "notifyLock"}
<1>1. /\ cpc \in [Clients -> ClientSteps] /\ ret \in [Clients -> Codes]
      /\ KnownInv(k) /\ cpc[k] # "idle" /\ cpc'[k] = "idle" /\ op[k] = r
      /\ ret'[k] = "RTC_OK"
  BY DEF Inv, TypeOK, SoleInv, Returns
<1>2. cpc[k] \in {"store"} \cup Waits \cup Answering
  BY <1>1 DEF KnownInv
<1>3. ~Thread /\ ~UNCHANGED vars
  BY <1>1, ThreadLeaves DEF vars, clientVars
<1>4. ~Call(k)
  BY <1>1 DEF Call, CallRequest, CallStart, CallStop, CallSetRate, CallDestroy,
              MayCall
<1>5. Progress(k)
  BY <1>3, <1>4 DEF Next
<1>6. CASE Store(k) \/ Poll(k)
  BY <1>1, <1>6 DEF Store, Poll, GoOn
<1>7. CASE Final(k) \/ Final2(k)
  BY <1>1, <1>7 DEF Final, Final2, GoOn, Return
<1>8. CASE HookTest(k) \/ HookLock(k)
  BY <1>1, <1>8 DEF HookTest, HookLock, AfterHook, GoOn
<1> QED
  BY <1>2, <1>5, <1>6, <1>7, <1>8
     DEF Progress, OpenThread, OnStarted, SetGate, Stopping, RateLoop, Closing,
         Join, Waits, Answering

(* What a synchronous call that returns RTC_OK has brought about           *)
(* (ExecutionContextBase::activateComponent, deactivateComponent,          *)
(* resetComponent): the callback that was asked for has been called last,  *)
(* or, of an activation, the component is active or in error since.        *)
THEOREM CallsAnswered ==
  ASSUME SyncSetting PROVE Spec => SyncCallsAnswered
<1> DEFINE P ==
      \A k \in Clients :
        LET c == comp[k] IN
        /\ Returns(k, "activation") => curr[c] # "INACTIVE"
        /\ Returns(k, "deactivation") =>
             curr[c] = "INACTIVE" /\ action[c].cb = "on_deactivated"
        /\ Returns(k, "reset") =>
             /\ curr[c] = "INACTIVE"
             /\ action[c] = [cb |-> "on_reset", failed |-> FALSE]
<1>1. PICK only : Clients = {only}
  BY DEF SyncSetting
<1> DEFINE c == comp[only]
           Answered ==
             /\ Returns(only, "activation") => curr[c] # "INACTIVE"
             /\ Returns(only, "deactivation") =>
                  curr[c] = "INACTIVE" /\ action[c].cb = "on_deactivated"
             /\ Returns(only, "reset") =>
                  /\ curr[c] = "INACTIVE"
                  /\ action[c] = [cb |-> "on_reset", failed |-> FALSE]
<1>2. ASSUME Inv, SoleInv(only), [Next]_vars PROVE Answered
  <2>1. c \in Comps /\ KnownInv(only) /\ ComponentInv(c)
        /\ curr[c] \in LifeCycleStates
        /\ action[c] \in [cb : Callbacks, failed : BOOLEAN]
    BY <1>1, <1>2 DEF Inv, TypeOK, StateMachineTypeOK, SoleInv
  <2>2. ASSUME NEW r \in Requests, Returns(only, r)
        PROVE  /\ cpc[only] \in {"notify", "notifyLock"} /\ op[only] = r
               /\ curr[c] # From(r)
    <3>1. cpc[only] \in {"notify", "notifyLock"} /\ op[only] = r
      BY <1>1, <1>2, <2>2, Answers DEF Returns
    <3> QED
      BY <2>1, <3>1 DEF KnownInv, Answering
  <2>3. Returns(only, "activation") => curr[c] # "INACTIVE"
    BY <2>2 DEF Requests, From
  <2>4. Returns(only, "deactivation") =>
          curr[c] = "INACTIVE" /\ action[c].cb = "on_deactivated"
    BY <2>1, <2>2 DEF Requests, KnownInv, Answering
  <2>5. ASSUME Returns(only, "reset")
        PROVE  /\ curr[c] = "INACTIVE"
               /\ action[c] = [cb |-> "on_reset", failed |-> FALSE]
    <3>1. op[only] = "reset" /\ curr[c] # "ERROR"
      BY <2>2, <2>5 DEF Requests, From
    <3>2. curr[c] = "INACTIVE" /\ action[c].cb = "on_reset"
      BY <2>1, <3>1 DEF KnownInv, LifeCycleStates
    <3>3. action[c].failed = FALSE
      BY <2>1, <3>2 DEF ComponentInv, InactiveInv
    <3> QED
      BY <2>1, <3>2, <3>3
  <2> QED
    BY <2>3, <2>4, <2>5
<1>3. Inv /\ SoleInv(only) /\ [Next]_vars => [P]_vars
  BY <1>1, <1>2
<1>4. Spec => [](Inv /\ SoleInv(only))
  BY <1>1, SyncInvariance
<1> QED
  BY <1>3, <1>4, PTL DEF Spec, SyncCallsAnswered

(* When deactivate_component returns RTC_OK, no earlier activation is left *)
(* to be served: the component stays INACTIVE until it is asked again.     *)
THEOREM StaysDeactivated ==
  ASSUME SyncSetting PROVE Spec => DeactivationIsFinal
<1> DEFINE P ==
      \A k \in Clients :
        Returns(k, "deactivation") /\ "activation" \in request[comp[k]] =>
          \E j \in Clients : op[j] = "activation" /\ comp[j] = comp[k]
<1>1. PICK only : Clients = {only}
  BY DEF SyncSetting
<1>2. Inv /\ SoleInv(only) =>
        \A j \in Clients :
          Returns(j, "deactivation") => "activation" \notin request[comp[j]]
  <2> SUFFICES ASSUME Inv, SoleInv(only), op[only] = "deactivation"
               PROVE  "activation" \notin request[comp[only]]
    BY <1>1 DEF Returns
  <2>1. comp[only] \in Comps
    BY <1>1 DEF Inv, TypeOK
  <2> QED
    BY <2>1 DEF SoleInv, CompsInv, FlagInv, Owns
<1>3. Inv /\ SoleInv(only) /\ [Next]_vars => [P]_vars
  BY <1>2
<1>4. Spec => [](Inv /\ SoleInv(only))
  BY <1>1, SyncInvariance
<1> QED
  BY <1>3, <1>4, PTL DEF Spec, DeactivationIsFinal
=============================================================================
