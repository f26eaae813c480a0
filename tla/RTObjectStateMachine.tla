------------------------ MODULE RTObjectStateMachine ------------------------
(***************************************************************************)
(* The state machine an execution context keeps for every RT-Component    *)
(* that participates in it: src/src/lib/rtm/RTObjectStateMachine.cpp over  *)
(* the generic StateMachine.h.                                             *)
(*                                                                         *)
(* curr and next are m_states; request holds the raised flags among        *)
(* m_activation, m_deactivation and m_reset.  Client threads raise flags   *)
(* (activate, deactivate, reset); only the thread of the execution context *)
(* lowers them (updateState) and moves curr (worker_pre).  next is also    *)
(* written by set_rate, in the thread of its caller.                       *)
(*                                                                         *)
(* action is a history variable: the last callback the execution context's *)
(* thread invoked on the component, and whether an error is outstanding.   *)
(*                                                                         *)
(* A component is called through its servant, in its own process.  (In a   *)
(* call through an object reference an exception of the ORB is logged, and *)
(* the state machine goes on as if the callback had returned RTC_OK.)      *)
(* on_startup and on_shutdown, whose results are ignored, are left out.    *)
(***************************************************************************)
EXTENDS Integers

CONSTANTS N,        \* number of participating components, in m_comps order
          CanFail   \* the callbacks that may return something else than RTC_OK

ASSUME NAssumption == N \in Nat \ {0}

Comps == 1..N

LifeCycleStates == {"INACTIVE", "ACTIVE", "ERROR"}

Requests == {"activation", "deactivation", "reset"}

Callbacks == {"none", "on_activated", "on_execute", "on_state_update",
              "on_deactivated", "on_aborting", "on_error", "on_reset"}

ASSUME CanFailAssumption ==
  CanFail \subseteq Callbacks \cup {"on_rate_changed"}

VARIABLES curr, next, request, action

smVars == <<curr, next, request, action>>

StateMachineTypeOK ==
  /\ curr \in [Comps -> LifeCycleStates]
  /\ next \in [Comps -> LifeCycleStates]
  /\ request \in [Comps -> SUBSET Requests]
  /\ action \in [Comps -> [cb : Callbacks, failed : BOOLEAN]]

StateMachineInit ==
  /\ curr = [c \in Comps |-> "INACTIVE"]
  /\ next = [c \in Comps |-> "INACTIVE"]
  /\ request = [c \in Comps |-> {}]
  /\ action = [c \in Comps |-> [cb |-> "none", failed |-> FALSE]]

-----------------------------------------------------------------------------
(* The state a request is accepted in, and the one it leads to.            *)

From(r) == IF r = "activation" THEN "INACTIVE"
           ELSE IF r = "deactivation" THEN "ACTIVE" ELSE "ERROR"

To(r) == IF r = "activation" THEN "ACTIVE" ELSE "INACTIVE"

isAllNextState(s) == \A c \in Comps : next[c] = s

goTo(c, s) == next' = [next EXCEPT ![c] = s]

(* activate(), deactivate(), reset(): the test of the current state and    *)
(* the store of the flag are two steps of the caller; this is the second.  *)
RaiseFlag(c, r) ==
  /\ request' = [request EXCEPT ![c] = @ \cup {r}]
  /\ UNCHANGED <<curr, next, action>>

-----------------------------------------------------------------------------
(* updateState(), per flag: the tests, then the transition and the clear.  *)
(* A flag raised between the two is lost with the one being served.        *)

mayGoTo(c, r) ==
  /\ curr[c] = From(r)
  /\ r = "reset" \/ next[c] # "ERROR"

(* Mutant: the flag is not lowered once it has been served.                *)
ServeFlagKept(c, r, go) ==
  /\ IF go THEN goTo(c, To(r)) ELSE UNCHANGED next
  /\ UNCHANGED <<curr, request, action>>

ServeFlag(c, r, go) ==
  /\ IF go THEN goTo(c, To(r)) ELSE UNCHANGED next
  /\ request' = [request EXCEPT ![c] = @ \ {r}]
  /\ UNCHANGED <<curr, action>>

-----------------------------------------------------------------------------
(* Callbacks.  A callback whose return code is looked at sends the         *)
(* component to ERROR when it fails; the others carry on.                  *)

Called(c, cb, failed) ==
  action' = [action EXCEPT ![c] = [cb |-> cb, failed |-> failed]]

Outcomes(cb) == IF cb \in CanFail THEN BOOLEAN ELSE {FALSE}

Checked(c, cb) ==
  \E failed \in Outcomes(cb) :
    /\ Called(c, cb, failed)
    /\ IF failed THEN goTo(c, "ERROR") ELSE UNCHANGED next

(* worker_pre(), first half: the exit callback of the current state.  The  *)
(* return code of on_deactivated is ignored.                               *)
ExitAction(c) ==
  /\ \/ curr[c] = "INACTIVE" /\ UNCHANGED <<next, action>>
     \/ /\ curr[c] = "ACTIVE"
        /\ Called(c, "on_deactivated", action[c].failed)
        /\ UNCHANGED next
     \/ curr[c] = "ERROR" /\ Checked(c, "on_reset")
  /\ UNCHANGED <<curr, request>>

(* worker_pre(), second half: the states are read again, and only if they  *)
(* still differ the entry callback runs and curr follows.                  *)
EntryAction(c) ==
  /\ \/ next[c] = curr[c] /\ UNCHANGED <<curr, next, action>>
     \/ /\ next[c] # curr[c]
        /\ curr' = [curr EXCEPT ![c] = next[c]]
        /\ \/ next[c] = "INACTIVE" /\ UNCHANGED <<next, action>>
           \/ next[c] = "ACTIVE" /\ Checked(c, "on_activated")
           \/ /\ next[c] = "ERROR"
              /\ Called(c, "on_aborting", FALSE)
              /\ UNCHANGED next
  /\ UNCHANGED request

(* Mutant: onExecute() does not look at the next state.                    *)
DoActionUnchecked(c) ==
  /\ \/ curr[c] = "INACTIVE" /\ UNCHANGED <<next, action>>
     \/ curr[c] = "ACTIVE" /\ Checked(c, "on_execute")
     \/ curr[c] = "ERROR" /\ Called(c, "on_error", FALSE) /\ UNCHANGED next
  /\ UNCHANGED <<curr, request>>

(* worker_do(): onExecute() returns at once when an error is pending.      *)
DoAction(c) ==
  /\ \/ /\ curr[c] = "INACTIVE" \/ (curr[c] = "ACTIVE" /\ next[c] = "ERROR")
        /\ UNCHANGED <<next, action>>
     \/ curr[c] = "ACTIVE" /\ next[c] # "ERROR" /\ Checked(c, "on_execute")
     \/ curr[c] = "ERROR" /\ Called(c, "on_error", FALSE) /\ UNCHANGED next
  /\ UNCHANGED <<curr, request>>

(* worker_post(): so does onStateUpdate().                                 *)
PostDoAction(c) ==
  /\ \/ /\ curr[c] # "ACTIVE" \/ next[c] = "ERROR"
        /\ UNCHANGED <<next, action>>
     \/ /\ curr[c] = "ACTIVE"
        /\ next[c] # "ERROR"
        /\ Checked(c, "on_state_update")
  /\ UNCHANGED <<curr, request>>

(* onRateChanged(): whatever state the component is in, a failure is a     *)
(* goTo(ERROR), made in the thread of the client that called set_rate.     *)
RateChanged(c, failed) ==
  /\ IF failed THEN goTo(c, "ERROR") ELSE UNCHANGED next
  /\ UNCHANGED <<curr, request, action>>
=============================================================================
