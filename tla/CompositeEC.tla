----------------------------- MODULE CompositeEC -----------------------------
(***************************************************************************)
(* The context of a composite component, which executes its members in     *)
(* threads of their own: src/src/lib/rtm/MultilayerCompositeEC.cpp, with   *)
(* the suspended coil::PeriodicTask that each of these threads is          *)
(* (src/src/lib/coil/common/coil/PeriodicTask.cpp).                        *)
(*                                                                         *)
(* The thread of the context makes a pass of the owner, lets every child   *)
(* task make one of its members, and waits for all of them.  The gate of   *)
(* the context is module PeriodicEC: here it opens at any time.  What a    *)
(* component does in a pass is module RTObjectStateMachine.  The tasks are *)
(* never resumed or finalized.                                             *)
(***************************************************************************)
EXTENDS Naturals

CONSTANT NTasks       \* the length of m_tasklist

ASSUME TasksAssumption == NTasks \in Nat \ {0}

Tasks == 1 .. NTasks

VARIABLES
  owner,      \* where svc of the context is
  i,          \* the task that its loop has come to
  child,      \* where the thread of each task is
  running_,   \* m_worker.running_ of each task
  signal_,    \* m_signal_worker.running_
  passes      \* history: the passes of each task since the owner's

ownerVars == <<owner, i>>
childVars == <<child, running_, signal_, passes>>
compVars == <<ownerVars, childVars>>

OwnerPass == {"do", "signal", "signalled", "release", "join", "let"}

CompTypeOK ==
  /\ owner \in OwnerPass \cup {"preDo"}
  /\ i \in 1 .. NTasks + 1
  /\ child \in [Tasks -> {"suspend", "wait", "woken", "begin", "await",
                          "pass", "finish", "leave"}]
  /\ running_ \in [Tasks -> BOOLEAN]
  /\ signal_ \in [Tasks -> BOOLEAN]
  /\ passes \in [Tasks -> 0 .. 2]

\* addTask(): suspend(), activate(), suspend().
CompInit ==
  /\ owner = "preDo" /\ i = 1
  /\ child = [t \in Tasks |-> "suspend"]
  /\ running_ = [t \in Tasks |-> FALSE]
  /\ signal_ = [t \in Tasks |-> FALSE]
  /\ passes = [t \in Tasks |-> 0]

-----------------------------------------------------------------------------
(* The thread of the context: svc, with ChildTask::signal and join *)

\* The owner's workerPreDo, and the gate.
OwnerPreDo ==
  /\ owner = "preDo"
  /\ owner' = "do"
  /\ passes' = [t \in Tasks |-> 0]
  /\ UNCHANGED <<i, child, running_, signal_>>

\* The owner's workerDo and workerPostDo.
OwnerDo ==
  /\ owner = "do"
  /\ owner' = "signal" /\ i' = 1
  /\ UNCHANGED childVars

\* A thread that waits is woken, otherwise the notification is lost.
SignalChild ==
  /\ owner = "signal" /\ i <= NTasks
  /\ child' = [child EXCEPT ![i] = IF @ = "wait" THEN "woken" ELSE @]
  /\ owner' = "signalled"
  /\ UNCHANGED <<i, running_, signal_, passes>>

\* A faulty variant: one notification has to do.
SignalledOnce ==
  /\ owner = "signalled"
  /\ owner' = "release"
  /\ UNCHANGED <<i, childVars>>

\* ... and so it is given until the thread is in its function.
Signalled ==
  /\ owner = "signalled"
  /\ owner' = IF running_[i] THEN "release" ELSE "signal"
  /\ UNCHANGED <<i, childVars>>

ReleaseChild ==
  /\ owner = "release"
  /\ signal_' = [signal_ EXCEPT ![i] = TRUE]
  /\ owner' = "signal" /\ i' = i + 1
  /\ UNCHANGED <<child, running_, passes>>

AllSignalled ==
  /\ owner = "signal" /\ i > NTasks
  /\ owner' = "join" /\ i' = 1
  /\ UNCHANGED childVars

\* A faulty variant: the owner does not wait.
JoinAtOnce ==
  /\ owner = "join" /\ i <= NTasks
  /\ owner' = "let"
  /\ UNCHANGED <<i, childVars>>

JoinChild ==
  /\ owner = "join" /\ i <= NTasks
  /\ ~running_[i]
  /\ owner' = "let"
  /\ UNCHANGED <<i, childVars>>

LetGo ==
  /\ owner = "let"
  /\ signal_' = [signal_ EXCEPT ![i] = TRUE]
  /\ owner' = "join" /\ i' = i + 1
  /\ UNCHANGED <<child, running_, passes>>

AllJoined ==
  /\ owner = "join" /\ i > NTasks
  /\ owner' = "preDo" /\ i' = 1
  /\ UNCHANGED childVars

OwnerStep == OwnerDo \/ SignalChild \/ Signalled \/ ReleaseChild \/ AllSignalled
               \/ JoinChild \/ LetGo \/ AllJoined

-----------------------------------------------------------------------------
(* The thread of a task: PeriodicTask::svc around ChildTask::svc *)

ChildGoes(t, from, to) ==
  /\ child[t] = from
  /\ child' = [child EXCEPT ![t] = to]

SuspendChild(t) ==
  /\ ChildGoes(t, "suspend", "wait")
  /\ UNCHANGED <<ownerVars, running_, signal_, passes>>

WakeUpChild(t) ==
  /\ ChildGoes(t, "woken", "begin")
  /\ UNCHANGED <<ownerVars, running_, signal_, passes>>

\* The wait has no predicate: it may also end by itself.
WakeUpAlone(t) ==
  /\ ChildGoes(t, "wait", "begin")
  /\ UNCHANGED <<ownerVars, running_, signal_, passes>>

BeginChild(t) ==
  /\ ChildGoes(t, "begin", "await")
  /\ running_' = [running_ EXCEPT ![t] = TRUE]
  /\ UNCHANGED <<ownerVars, signal_, passes>>

\* A faulty variant: the signal stays.
AwaitKeepsSignal(t) ==
  /\ signal_[t]
  /\ ChildGoes(t, "await", "pass")
  /\ UNCHANGED <<ownerVars, running_, signal_, passes>>

AwaitRelease(t) ==
  /\ signal_[t]
  /\ ChildGoes(t, "await", "pass")
  /\ signal_' = [signal_ EXCEPT ![t] = FALSE]
  /\ UNCHANGED <<ownerVars, running_, passes>>

\* updateCompList(), and the pass of each member.
MembersPass(t) ==
  /\ ChildGoes(t, "pass", "finish")
  /\ passes' = [passes EXCEPT ![t] = IF @ < 2 THEN @ + 1 ELSE 2]
  /\ UNCHANGED <<ownerVars, running_, signal_>>

FinishChild(t) ==
  /\ ChildGoes(t, "finish", "leave")
  /\ running_' = [running_ EXCEPT ![t] = FALSE]
  /\ UNCHANGED <<ownerVars, signal_, passes>>

\* svc returns when join() has seen that it is done.
LeaveChild(t) ==
  /\ signal_[t]
  /\ ChildGoes(t, "leave", "suspend")
  /\ signal_' = [signal_ EXCEPT ![t] = FALSE]
  /\ UNCHANGED <<ownerVars, running_, passes>>

ChildStep(t) ==
  \/ SuspendChild(t) \/ WakeUpChild(t) \/ BeginChild(t) \/ AwaitRelease(t)
  \/ MembersPass(t) \/ FinishChild(t) \/ LeaveChild(t)

CompNext ==
  \/ OwnerPreDo \/ OwnerStep
  \/ \E t \in Tasks : ChildStep(t) \/ WakeUpAlone(t)

CompSpec == CompInit /\ [][CompNext]_compVars

-----------------------------------------------------------------------------
(***************************************************************************)
(* Properties.                                                             *)
(***************************************************************************)

(***************************************************************************)
(* The members are executed after the owner and before its next pass, in   *)
(* which their states may be changed, never at the same time, though their *)
(* threads may be woken at any time; when the pass ends every task has     *)
(* made exactly one pass of its members in it (MultilayerCompositeEC.cpp:  *)
(* 109, 117, 284, 345).                                                    *)
(***************************************************************************)
MembersApart ==
  \A t \in Tasks :
    child[t] \in {"pass", "finish"} => owner \in OwnerPass \ {"do"}

MembersRunOnce ==
  (owner = "join" /\ i > NTasks) => \A t \in Tasks : passes[t] = 1

MembersInStep == MembersApart /\ MembersRunOnce

(***************************************************************************)
(* A pass of the context ends: the owner does not wait for a task that     *)
(* waits for the owner, whatever notifications were lost or came early     *)
(* (MultilayerCompositeEC.cpp:331, 352).                                   *)
(***************************************************************************)
PassEnds == owner = "do" ~> owner = "preDo"
=============================================================================
