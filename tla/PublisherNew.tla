---------------------------- MODULE PublisherNew ----------------------------
(***************************************************************************)
(* RTC::PublisherNew, which sends the data of an OutPort from a thread of  *)
(* its own: src/src/lib/rtm/PublisherNew.cpp, with the ring buffer of the  *)
(* connector (module RingPointers), the thread (module PeriodicTask), and  *)
(* the connector that writes and deletes it: OutPortPushConnector.cpp.     *)
(*                                                                         *)
(* One component writes; the m_connectorsMutex of the port serialises the  *)
(* writes, and the deletion with them.  The connector writes with a        *)
(* timeout of zero.  The consumer's put, a remote call, answers as it      *)
(* likes.  The listeners are left out.  The thread borrows a slot of the   *)
(* buffer from get(), which returns a reference, until put has returned.   *)
(* A behaviour has one push policy, and a consumer that may fail or not.   *)
(***************************************************************************)
EXTENDS RingPointers, PeriodicTask, SequencesExt

CONSTANTS
  Setups,         \* the pairs of publisher.push_policy and "may put fail?"
  SkipCount,      \* publisher.skip_count
  Failures,       \* what a put that fails may return
  Disconnects,    \* may the connector be deleted?
  MaxWrites       \* bound: calls to write

ASSUME PublisherAssumption ==
  /\ Setups \subseteq {"all", "fifo", "skip", "new"} \X BOOLEAN
  /\ SkipCount \in Nat
  /\ Failures \subseteq {"PORT_ERROR", "SEND_FULL", "SEND_TIMEOUT",
                         "CONNECTION_LOST", "UNKNOWN_ERROR"}
  /\ Disconnects \in BOOLEAN
  /\ MaxWrites \in Nat

Values == 1 .. MaxWrites
Blank == 0
NoSlot == -1

VARIABLES
  m_pushPolicy,
  putMayFail,   \* the consumer
  buf,          \* m_buffer
  m_retcode,    \* what the last push returned
  m_leftskip,
  wpc, sent, reply, answer,
                \* the writer: where its call is, how many calls were made,
                \* what the call will return, what the last call returned
  push,         \* where the push is
  slot,         \* the slot borrowed from the buffer
  count,        \* local: a number of values read from readable()
  skip,         \* locals of pushSkip
  deletion,     \* the destructor: "no", "resumed", "finalized"
  accepted,     \* history: the values stored, in order
  delivered,    \* history: the values put with PORT_OK
  due           \* history: the values stored when the push looked

setup == <<m_pushPolicy, putMayFail>>
writerVars == <<wpc, sent, reply, answer>>
pushVars == <<push, slot, count, skip, m_retcode, m_leftskip>>
historyVars == <<accepted, delivered, due>>
vars == <<setup, buf, taskVars, writerVars, pushVars, deletion, historyVars>>

Codes == {"PORT_OK", "PORT_ERROR", "SEND_FULL", "SEND_TIMEOUT",
          "CONNECTION_LOST", "UNKNOWN_ERROR", "BUFFER_FULL", "BUFFER_TIMEOUT",
          "BUFFER_EMPTY"}

NoSkip == [pre |-> 0, loops |-> 0, left |-> 0, post |-> 0]

TypeOK ==
  /\ TaskTypeOK
  /\ setup \in Setups
  /\ buf \in Buffers(Values \cup {Blank})
  /\ {m_retcode, reply, answer} \subseteq Codes
  /\ m_leftskip \in 0 .. SkipCount
  /\ wpc \in {"idle", "check", "test", "put", "advance", "signal"}
  /\ sent \in 0 .. MaxWrites
  /\ push \in {"begin", "skip", "get", "send", "release", "next", "back",
               "drain", "discard"}
  /\ slot \in Slots \cup {NoSlot}
  /\ count \in -1 .. Length
  /\ skip \in [pre : Nat, loops : Nat, left : Nat, post : Nat]
  /\ deletion \in {"no", "resumed", "finalized"}
  /\ accepted \in Seq(Values)
  /\ delivered \subseteq Values \cup {Blank}
  /\ due \subseteq Values \cup {Blank}

Init ==
  /\ \E s \in Setups : m_pushPolicy = s[1] /\ putMayFail = s[2]
  /\ TaskInit
  /\ buf = Fresh(Blank)
  /\ m_retcode = "PORT_OK" /\ m_leftskip = 0
  /\ wpc = "idle" /\ sent = 0 /\ reply = "PORT_OK" /\ answer = "PORT_OK"
  /\ push = "begin" /\ slot = NoSlot /\ count = 0 /\ skip = NoSkip
  /\ deletion = "no"
  /\ accepted = << >> /\ delivered = {} /\ due = {}

-----------------------------------------------------------------------------
(* write, called by the component through the connector *)

WriterGoesTo(p) == wpc' = p

Write ==
  /\ wpc = "idle" /\ deletion = "no" /\ sent < MaxWrites
  /\ sent' = sent + 1
  /\ IF m_retcode = "CONNECTION_LOST"
       THEN answer' = "CONNECTION_LOST" /\ UNCHANGED wpc
       ELSE WriterGoesTo("check") /\ UNCHANGED answer
  /\ UNCHANGED <<buf, taskVars, reply, pushVars, deletion, historyVars>>

\* After SEND_FULL the value is stored all the same.
Check ==
  /\ wpc = "check"
  /\ WriterGoesTo("test")
  /\ reply' = IF m_retcode = "SEND_FULL" THEN "BUFFER_FULL" ELSE "PORT_OK"
  /\ UNCHANGED <<buf, taskVars, sent, answer, pushVars, deletion, historyVars>>

(***************************************************************************)
(* The write of a value to the ring buffer.  The connector always passes a *)
(* timeout, of zero, so that a full buffer makes the write wait, and give  *)
(* up at once, under every full_policy, "overwrite" included.              *)
(***************************************************************************)

\* A faulty variant: the oldest value is dropped whatever the timeout.
OldestDropped ==
  /\ wpc = "test"
  /\ buf' = IF Full(buf) THEN RptrAdvanced(buf, 1) ELSE buf
  /\ WriterGoesTo("put")
  /\ UNCHANGED <<taskVars, sent, reply, answer, pushVars, deletion, historyVars>>

TestRoom ==
  /\ wpc = "test"
  /\ IF Full(buf)
       THEN /\ reply' = IF reply = "PORT_OK" THEN "BUFFER_TIMEOUT" ELSE reply
            /\ WriterGoesTo("signal")
       ELSE WriterGoesTo("put") /\ UNCHANGED reply
  /\ UNCHANGED <<buf, taskVars, sent, answer, pushVars, deletion, historyVars>>

Put ==
  /\ wpc = "put"
  /\ buf' = Filled(buf, sent)
  /\ WriterGoesTo("advance")
  /\ UNCHANGED <<taskVars, sent, reply, answer, pushVars, deletion, historyVars>>

AdvanceWptr ==
  /\ wpc = "advance"
  /\ buf' = WptrAdvanced(buf, 1)
  /\ accepted' = Append(accepted, sent)
  /\ WriterGoesTo("signal")
  /\ UNCHANGED <<taskVars, sent, reply, answer, pushVars, deletion, delivered,
                 due>>

\* m_task->signal(), and the return.
SignalTask ==
  /\ wpc = "signal"
  /\ Signal
  /\ answer' = reply
  /\ WriterGoesTo("idle")
  /\ UNCHANGED <<buf, sent, reply, pushVars, deletion, historyVars>>

WriterStep ==
  /\ Write \/ Check \/ TestRoom \/ Put \/ AdvanceWptr \/ SignalTask
  /\ UNCHANGED setup

-----------------------------------------------------------------------------
(* svc, called by the task's thread *)

At(p) == task = "work" /\ push = p

\* The push goes on; deletion and the writer are left alone.
PushGoesTo(p) ==
  /\ push' = p
  /\ UNCHANGED <<taskVars, m_retcode, writerVars, deletion, accepted>>

Finish(ret) ==
  /\ WorkDone
  /\ m_retcode' = ret
  /\ push' = "begin" /\ slot' = NoSlot /\ count' = 0 /\ skip' = NoSkip
  /\ due' = {}
  /\ UNCHANGED <<writerVars, deletion, accepted>>

Look == due' = due \cup Range(Stored(buf))

\* pushAll: while readable() > 0
BeginAll ==
  /\ m_pushPolicy = "all" /\ At("begin")
  /\ IF Empty(buf)
       THEN Finish("PORT_OK")
       ELSE /\ PushGoesTo("get")
            /\ Look
            /\ UNCHANGED <<slot, count, skip>>
  /\ UNCHANGED <<buf, m_leftskip, delivered>>

\* pushFifo: whether there is anything to send is not tested.
BeginFifo ==
  /\ m_pushPolicy = "fifo" /\ At("begin")
  /\ PushGoesTo("get")
  /\ Look
  /\ UNCHANGED <<buf, slot, count, skip, m_leftskip, delivered>>

\* pushNew: readable() - 1, which is -1 when there is nothing to send.
BeginNew ==
  /\ m_pushPolicy = "new" /\ At("begin")
  /\ count' = buf.fill - 1
  /\ PushGoesTo("skip")
  /\ Look
  /\ UNCHANGED <<buf, slot, skip, m_leftskip, delivered>>

SkipOlder ==
  /\ At("skip")
  /\ buf' = RptrAdvanced(buf, count)
  /\ PushGoesTo("get")
  /\ UNCHANGED <<slot, count, skip, m_leftskip, delivered, due>>

(***************************************************************************)
(* pushSkip: of preskip values, counting those left over from earlier,     *)
(* every (SkipCount + 1)-th is sent.                                       *)
(***************************************************************************)
BeginSkip ==
  /\ m_pushPolicy = "skip" /\ At("begin")
  /\ LET preskip == buf.fill + m_leftskip
         loopcnt == preskip \div (SkipCount + 1) IN
       skip' = [pre |-> preskip, loops |-> loopcnt, left |-> loopcnt,
                post |-> SkipCount - m_leftskip]
  /\ PushGoesTo("next")
  /\ Look
  /\ UNCHANGED <<buf, slot, count, m_leftskip, delivered>>

NextSkip ==
  /\ At("next")
  /\ IF skip.left > 0
       THEN buf' = RptrAdvanced(buf, skip.post) /\ PushGoesTo("get")
       ELSE PushGoesTo("drain") /\ UNCHANGED buf
  /\ UNCHANGED <<slot, count, skip, m_leftskip, delivered, due>>

Get ==
  /\ At("get")
  /\ slot' = buf.rpos
  /\ PushGoesTo("send")
  /\ UNCHANGED <<buf, count, skip, m_leftskip, delivered, due>>

(***************************************************************************)
(* The consumer's put of the borrowed slot.                                *)
(***************************************************************************)
SendOk ==
  /\ At("send")
  /\ delivered' = delivered \cup {buf.data[slot]}
  /\ IF m_pushPolicy = "skip"
       THEN /\ skip' = [skip EXCEPT !.left = @ - 1, !.post = SkipCount + 1]
            /\ slot' = NoSlot
            /\ PushGoesTo("next")
       ELSE PushGoesTo("release") /\ UNCHANGED <<skip, slot>>
  /\ UNCHANGED <<buf, count, m_leftskip, due>>

\* A faulty variant: the value is released although it was not sent.
DroppedOnFailure(ret) ==
  /\ At("send") /\ putMayFail
  /\ buf' = RptrAdvanced(buf, 1)
  /\ Finish(ret)
  /\ UNCHANGED <<m_leftskip, delivered>>

SendFails(ret) ==
  /\ At("send") /\ putMayFail
  /\ buf' = IF m_pushPolicy = "skip" THEN RptrAdvanced(buf, - skip.post) ELSE buf
  /\ Finish(ret)
  /\ UNCHANGED <<m_leftskip, delivered>>

\* Faulty variants: the value sent is not released; "all" sends one value.
ReleaseForgotten ==
  /\ At("release")
  /\ PushGoesTo("begin")
  /\ slot' = NoSlot
  /\ UNCHANGED <<buf, count, skip, m_leftskip, delivered, due>>

ReleaseAndFinish ==
  /\ At("release")
  /\ buf' = RptrAdvanced(buf, 1)
  /\ Finish("PORT_OK")
  /\ UNCHANGED <<m_leftskip, delivered>>

\* advanceRptr() after a successful put.
Release ==
  /\ At("release")
  /\ buf' = RptrAdvanced(buf, 1)
  /\ IF m_pushPolicy = "all"
       THEN /\ PushGoesTo("begin")
            /\ slot' = NoSlot /\ UNCHANGED <<count, skip, due>>
       ELSE Finish("PORT_OK")
  /\ UNCHANGED <<m_leftskip, delivered>>

\* advanceRptr(readable()), in two steps.
Drain ==
  /\ At("drain")
  /\ count' = buf.fill
  /\ PushGoesTo("discard")
  /\ UNCHANGED <<buf, slot, skip, m_leftskip, delivered, due>>

\* m_retcode is still what the previous push returned.
Discard ==
  /\ At("discard")
  /\ buf' = RptrAdvanced(buf, count)
  /\ m_leftskip' = IF skip.loops > 0 /\ m_retcode # "PORT_OK"
                     THEN 0 ELSE skip.pre % (SkipCount + 1)
  /\ Finish("PORT_OK")
  /\ UNCHANGED delivered

SvcStep ==
  \/ BeginAll \/ BeginFifo \/ BeginNew \/ BeginSkip
  \/ SkipOlder \/ NextSkip \/ Get
  \/ SendOk \/ \E ret \in Failures : SendFails(ret)
  \/ Release \/ Drain \/ Discard

ThreadStep ==
  /\ \/ SvcStep
     \/ TaskStep /\ UNCHANGED <<buf, writerVars, pushVars, deletion, historyVars>>
  /\ UNCHANGED setup

-----------------------------------------------------------------------------
(* The destructor, in the thread that disconnects the port.  It then waits *)
(* for the thread of the task to end.                                      *)

ResumeTask ==
  /\ Disconnects /\ deletion = "no" /\ wpc = "idle"
  /\ deletion' = "resumed"
  /\ Resume
  /\ UNCHANGED <<setup, buf, writerVars, pushVars, historyVars>>

FinalizeTask ==
  /\ deletion = "resumed"
  /\ deletion' = "finalized"
  /\ Finalize
  /\ UNCHANGED <<setup, buf, writerVars, pushVars, historyVars>>

Next == WriterStep \/ ThreadStep \/ ResumeTask \/ FinalizeTask

Spec == Init /\ [][Next]_vars

(***************************************************************************)
(* Fairness: the writer and the destructor finish what they began, and the *)
(* thread runs when it can.  Nobody has to write or to disconnect.         *)
(***************************************************************************)
FairSpec ==
  /\ Spec
  /\ WF_vars(wpc # "idle" /\ WriterStep)
  /\ WF_vars(task # "wait" /\ ThreadStep)
  /\ WF_vars(FinalizeTask)

-----------------------------------------------------------------------------
(***************************************************************************)
(* Properties.                                                             *)
(***************************************************************************)

(***************************************************************************)
(* A value is sent successfully once, and after the values that were       *)
(* stored before it, although the thread is woken when there is nothing    *)
(* new and a failed put leaves its value in the buffer.  The two policies  *)
(* that look what is unread before they send give this promise, "skip" as  *)
(* long as no put fails.                                                   *)
(***************************************************************************)
LooksFirst ==
  m_pushPolicy = "all" \/ (m_pushPolicy = "skip" /\ ~ putMayFail)

SentInOrder ==
  [][LooksFirst /\ SendOk => \A v \in delivered : v < buf.data[slot]]_vars

(***************************************************************************)
(* A push that returns PORT_OK has served what it found in the buffer:     *)
(* "all" has sent all of it and "fifo" the oldest value.                   *)
(***************************************************************************)
Served(sentValues) ==
  CASE m_pushPolicy = "all"  -> due \subseteq sentValues
    [] m_pushPolicy = "fifo" -> due # {} => Min(due) \in sentValues
    [] OTHER -> TRUE

PushKeepsUp ==
  [][(task = "work" /\ task' = "loop" /\ m_retcode' = "PORT_OK")
       => Served(delivered')]_vars

(***************************************************************************)
(* Under "all" a value for which write found room is sent or still stored, *)
(* whatever the consumer answered.                                         *)
(***************************************************************************)
NothingLost ==
  m_pushPolicy = "all" =>
    Range(accepted) \subseteq delivered \cup Range(Stored(buf))

(***************************************************************************)
(* The slot that the consumer reads through a reference, while put may be  *)
(* blocked in a remote call, is not written meanwhile.                     *)
(***************************************************************************)
BorrowedSlotKept ==
  [][(LooksFirst /\ slot # NoSlot /\ slot' = slot)
       => buf'.data[slot] = buf.data[slot]]_vars

(***************************************************************************)
(* A value that was stored is sent, or one that is newer.                  *)
(***************************************************************************)
StoredIsSent ==
  \A v \in Values :
    v \in Range(accepted) ~> \E d \in delivered : v <= d

(***************************************************************************)
(* The destructor, which waits for the thread to end, comes back: whatever *)
(* the thread is doing, whether it waits or the consumer keeps failing.    *)
(***************************************************************************)
DeletionEnds == deletion = "finalized" ~> task = "end"
=============================================================================
