-------------------------- MODULE PublisherPeriodic --------------------------
(***************************************************************************)
(* RTC::PublisherPeriodic, which sends the data of an OutPort at a rate:   *)
(* src/src/lib/rtm/PublisherPeriodic.cpp.  It is the publisher "new"       *)
(* (module PublisherNew, whose steps it takes where the code has the same  *)
(* statements) with a task that runs by itself as long as it is resumed.   *)
(*                                                                         *)
(* Every push first looks whether the buffer is empty, unless "new" was    *)
(* pushed before; "skip" counts what it has left, and does not ask the     *)
(* buffer again.  The connector activates and deactivates the publisher,   *)
(* with the mutex of the port, under which it writes, too.                 *)
(***************************************************************************)
EXTENDS PublisherNew

VARIABLES
  m_readback,
  readable      \* local of pushSkip

periodicVars == <<vars, m_readback, readable>>

PeriodicTypeOK == TypeOK /\ m_readback \in BOOLEAN /\ readable \in 0 .. Length

\* createTask() leaves the task suspended until the connector is activated.
PeriodicInit == Init /\ m_readback = FALSE /\ readable = 0

-----------------------------------------------------------------------------
(* write, activate and deactivate, called through the connector *)

\* After SEND_FULL the value is stored, and the task is not resumed.
ResumeOrNot ==
  /\ wpc = "signal"
  /\ IF reply = "BUFFER_FULL" THEN UNCHANGED taskVars ELSE Resume
  /\ answer' = reply
  /\ WriterGoesTo("idle")
  /\ UNCHANGED <<buf, sent, reply, pushVars, deletion, historyVars>>

Activate ==
  /\ wpc = "idle" /\ deletion = "no"
  /\ Resume
  /\ UNCHANGED <<buf, writerVars, pushVars, deletion, historyVars>>

Deactivate ==
  /\ wpc = "idle" /\ deletion = "no"
  /\ suspended' = TRUE
  /\ UNCHANGED <<alive, task, buf, writerVars, pushVars, deletion, historyVars>>

-----------------------------------------------------------------------------
(* svc, called by the task's thread *)

\* bufferIsEmpty(), which is asked once in a push.
NothingToSend == Empty(buf) /\ ~m_readback /\ due = {}

ReturnEmpty ==
  /\ At("begin") /\ NothingToSend
  /\ Finish("BUFFER_EMPTY")
  /\ UNCHANGED <<buf, m_leftskip, delivered, m_readback, readable>>

\* A faulty variant: what is in the buffer is sent, if anything is or not.
BeginUnlooked ==
  /\ \/ BeginAll /\ UNCHANGED m_readback
     \/ BeginFifo /\ UNCHANGED m_readback
     \/ BeginNew /\ m_readback' = TRUE
     \/ BeginSkip /\ UNCHANGED m_readback
  /\ readable' = buf.fill

BeginPush ==
  /\ ~NothingToSend
  /\ \/ BeginAll /\ UNCHANGED m_readback
     \/ BeginFifo /\ UNCHANGED m_readback
     \/ BeginNew /\ m_readback' = TRUE
     \/ BeginSkip /\ UNCHANGED m_readback
  /\ readable' = buf.fill

SkipOne ==
  /\ NextSkip
  /\ readable' = IF skip.left > 0 THEN readable - skip.post ELSE readable
  /\ UNCHANGED m_readback

\* The values that were there at the beginning are discarded.
DrainCounted ==
  /\ At("drain")
  /\ buf' = RptrAdvanced(buf, readable)
  /\ m_leftskip' = skip.pre % (SkipCount + 1)
  /\ Finish("PORT_OK")
  /\ UNCHANGED <<delivered, m_readback, readable>>

PeriodicPush ==
  \/ ReturnEmpty \/ BeginPush \/ SkipOne \/ DrainCounted
  \/ /\ \/ SkipOlder \/ Get \/ SendOk \/ Release
        \/ \E ret \in Failures : SendFails(ret)
     /\ UNCHANGED <<m_readback, readable>>

PeriodicThread ==
  /\ \/ PeriodicPush
     \/ /\ TaskStep
        /\ UNCHANGED <<buf, writerVars, pushVars, deletion, historyVars,
                       m_readback, readable>>
  /\ UNCHANGED setup

PeriodicWrite ==
  /\ Write \/ Check \/ TestRoom \/ Put \/ AdvanceWptr \/ ResumeOrNot
  /\ UNCHANGED <<setup, m_readback, readable>>

PeriodicCalls ==
  /\ \/ Activate /\ UNCHANGED setup
     \/ Deactivate /\ UNCHANGED setup
     \/ ResumeTask \/ FinalizeTask
  /\ UNCHANGED <<m_readback, readable>>

PeriodicNext == PeriodicWrite \/ PeriodicThread \/ PeriodicCalls

PeriodicSpec == PeriodicInit /\ [][PeriodicNext]_periodicVars

-----------------------------------------------------------------------------
(***************************************************************************)
(* Properties.                                                             *)
(***************************************************************************)

(***************************************************************************)
(* A value is sent once, and after those stored before it, although the    *)
(* task runs whether there is anything to send or not: the pushes look     *)
(* first.  This is for the policies that are to send every value, or every *)
(* second one as long as no put fails (PublisherPeriodic.cpp:274, 302,     *)
(* 328).                                                                   *)
(***************************************************************************)
SentOnceInOrder ==
  [][(LooksFirst \/ m_pushPolicy = "fifo") /\ SendOk =>
       \A v \in delivered : v < buf.data[slot]]_periodicVars

(***************************************************************************)
(* Other than with the publisher "new", a value that was stored is sent,   *)
(* whatever the task was doing when it was stored, unless the publisher is *)
(* deactivated or deleted.  "skip" sends every second value, and with      *)
(* "new" the push moves the read position back by one when nothing is      *)
(* unread, which a write at the same time makes a move over what is stored *)
(* (PublisherPeriodic.cpp:375).                                            *)
(***************************************************************************)
SentAtRate ==
  \A v \in Values :
    (v \in Range(accepted) /\ ~putMayFail /\ m_pushPolicy \in {"all", "fifo"})
      ~> \/ \E d \in delivered : v <= d
         \/ suspended \/ deletion # "no"
=============================================================================
