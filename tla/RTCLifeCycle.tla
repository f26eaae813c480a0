---------------------------- MODULE RTCLifeCycle ----------------------------
(***************************************************************************)
(* What an execution context promises to each RT-Component: the order in   *)
(* which the ComponentAction and DataFlowComponentAction callbacks arrive. *)
(* It says nothing of states, flags, threads or clients.                   *)
(*                                                                         *)
(* action[c] is the last callback invoked on c; failed is TRUE while an    *)
(* error of the component has not been answered by on_aborting (or, when   *)
(* on_reset failed, by a successful on_reset).                             *)
(***************************************************************************)
CONSTANTS Components

VARIABLE action

Working == {"on_activated", "on_execute", "on_state_update"}

(* The callbacks that may come after cb.  A component that failed while it *)
(* was active is deactivated and aborted: it is not executed again, nor    *)
(* activated, before it has been reset.  An active component that did not  *)
(* fail is executed and updated in turn until it is deactivated.  (That it *)
(* may be aborted or meet on_error without a failure of its own is the     *)
(* effect of a failed on_rate_changed, which is not in this protocol.)     *)
Successors(cb, failed) ==
  IF cb \in {"none"} THEN {"on_activated", "on_aborting"}
  ELSE IF cb \in Working
    THEN {"on_deactivated"} \cup
         (IF failed THEN {}
          ELSE IF cb = "on_execute" THEN {"on_state_update"} ELSE {"on_execute"})
  ELSE IF cb = "on_deactivated"
    THEN {"on_aborting"} \cup (IF failed THEN {} ELSE {"on_activated"})
  ELSE IF cb = "on_aborting" THEN {"on_error"}
  ELSE IF cb = "on_error" THEN {"on_error", "on_reset"}
  ELSE {"on_error"} \cup (IF failed THEN {} ELSE {"on_activated", "on_aborting"})

(* An error is carried over on_deactivated, and cleared by on_aborting.    *)
Outcome(cb, failed) ==
  IF cb = "on_deactivated" THEN {failed}
  ELSE IF cb \in {"on_aborting", "on_error"} THEN {FALSE}
  ELSE BOOLEAN

Invoke(c) ==
  \E cb \in Successors(action[c].cb, action[c].failed) :
    \E failed \in Outcome(cb, action[c].failed) :
      action' = [action EXCEPT ![c] = [cb |-> cb, failed |-> failed]]

Init == action = [c \in Components |-> [cb |-> "none", failed |-> FALSE]]

Next == \E c \in Components : Invoke(c)

Spec == Init /\ [][Next]_action
=============================================================================
