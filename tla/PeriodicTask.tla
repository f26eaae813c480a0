---------------------------- MODULE PeriodicTask ----------------------------
(***************************************************************************)
(* coil::PeriodicTask, a thread that calls a function again and again:     *)
(* src/src/lib/coil/common/coil/PeriodicTask.cpp.  Publishers suspend it   *)
(* and signal it to make it call the function once.                        *)
(*                                                                         *)
(* The thread waits on m_suspend.cond without a predicate, so that a       *)
(* notification is lost when the thread is elsewhere, and a wake-up is     *)
(* taken for a notification.  The measurements and the period, which is 0  *)
(* for a signalled task, are left out.  A module that extends this one     *)
(* says what the thread does while task = "work".                          *)
(***************************************************************************)

CONSTANT SpuriousWakes     \* does cond.wait return without a notification?

ASSUME SpuriousAssumption == SpuriousWakes \in BOOLEAN

VARIABLES
  alive,       \* m_alive.value
  suspended,   \* m_suspend.suspend
  task         \* where the thread is

taskVars == <<alive, suspended, task>>

TaskTypeOK ==
  /\ alive \in BOOLEAN
  /\ suspended \in BOOLEAN
  /\ task \in {"loop", "test", "wait", "woken", "work", "end"}

\* After suspend(), activate(), suspend().
TaskInit ==
  /\ alive = TRUE
  /\ suspended = TRUE
  /\ task = "loop"

Notified == IF task = "wait" THEN "woken" ELSE task

Signal ==
  /\ task' = Notified
  /\ UNCHANGED <<alive, suspended>>

\* A faulty variant: the thread is not notified.
ResumeSilently ==
  /\ suspended' = FALSE
  /\ UNCHANGED <<alive, task>>

Resume ==
  /\ suspended' = FALSE
  /\ task' = Notified
  /\ UNCHANGED alive

\* A faulty variant: the flag that the thread tests stays as it is.
FinalizeStaysAlive ==
  /\ suspended' = FALSE
  /\ task' = Notified
  /\ UNCHANGED alive

Finalize ==
  /\ alive' = FALSE
  /\ suspended' = FALSE
  /\ task' = Notified

-----------------------------------------------------------------------------
(* The thread: svc *)

TestAlive ==
  /\ task = "loop"
  /\ task' = IF alive THEN "test" ELSE "end"
  /\ UNCHANGED <<alive, suspended>>

TestSuspended ==
  /\ task = "test"
  /\ task' = IF suspended THEN "wait" ELSE "work"
  /\ UNCHANGED <<alive, suspended>>

WakeUp ==
  /\ \/ task = "woken"
     \/ SpuriousWakes /\ task = "wait"
  /\ task' = IF alive THEN "work" ELSE "end"
  /\ UNCHANGED <<alive, suspended>>

WorkDone ==
  /\ task = "work"
  /\ task' = "loop"
  /\ UNCHANGED <<alive, suspended>>

TaskStep == TestAlive \/ TestSuspended \/ WakeUp
=============================================================================
