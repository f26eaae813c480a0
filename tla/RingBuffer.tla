----------------------------- MODULE RingBuffer -----------------------------
(***************************************************************************)
(* RTC::RingBuffer under concurrent calls to write and read:               *)
(* src/src/lib/rtm/RingBuffer.h.  The buffer of an InPort is one object    *)
(* that all the connectors of the port write (InPortBase.cpp:121); a       *)
(* connector of an OutPort writes its buffer from the component and reads  *)
(* it from the thread of a publisher or of an ORB request.                 *)
(*                                                                         *)
(* write tests for room under m_full.mutex, releases it, puts the value    *)
(* under m_posmutex, and advances the write position under m_empty.mutex;  *)
(* read is its mirror image.  Module RingPointers has the critical         *)
(* sections of m_posmutex.  Both kinds of waiting use m_empty.cond.        *)
(* Nothing waits on m_full.cond, and everything done under m_full.mutex is *)
(* one step here: the only fields that change meanwhile do not affect it.  *)
(* m_empty.mutex is held over two steps of write, hence emptyLock.         *)
(*                                                                         *)
(* Time is left out: a timer that can expire does so at any moment.  As    *)
(* wait_for reports a timeout by the clock, a thread that was notified may *)
(* report one too.                                                         *)
(***************************************************************************)
EXTENDS RingPointers, SequencesExt

CONSTANTS
  Writers, Readers, Nobody,
  WritePolicy,    \* buffer.write.full_policy
  ReadPolicy,     \* buffer.read.empty_policy
  TimeoutGiven,   \* SUBSET BOOLEAN: do callers pass the timeout argument?
  TimersExpire,   \* FALSE: a wait is longer than any behaviour
  SpuriousWakes,  \* does wait_for return without a notification?
  MaxWrites, MaxReads    \* bounds: calls to write, reads that return a value

ASSUME RingBufferAssumption ==
  /\ Writers \cap Readers = {} /\ Nobody \notin Writers \cup Readers
  /\ WritePolicy \in {"overwrite", "do_nothing", "block"}
  /\ ReadPolicy \in {"readback", "do_nothing", "block"}
  /\ TimeoutGiven \subseteq BOOLEAN
  /\ {TimersExpire, SpuriousWakes} \subseteq BOOLEAN
  /\ MaxWrites \in Nat /\ MaxReads \in Nat

Threads == Writers \cup Readers
Blank == 0                        \* what a slot holds that was never written
Values == 1 .. MaxWrites          \* the n-th call to write writes n

VARIABLES
  buf,          \* the buffer, a record of RingPointers
  emptyLock,    \* who holds m_empty.mutex
  pc,           \* where each thread's call is
  value,        \* the value the call writes, or has read
  empty_,       \* local to advanceWptr: was the buffer empty?
  answer,       \* what the last call returned
  sent,         \* how many calls to write were made
  written,      \* history: the values of the calls to write that returned OK
  received,     \* history: the values that calls to read returned
  disturbed     \* history: has a call started during another, or a wait
                \* ended without a notification?

vars == <<buf, emptyLock, pc, value, empty_, answer, sent, written, received,
          disturbed>>

Points == {"idle", "wait", "woken",            \* both calls
           "put", "lock", "advance",           \* write
           "get", "release"}                   \* read

TypeOK ==
  /\ buf \in Buffers(Values \cup {Blank})
  /\ emptyLock \in Writers \cup {Nobody}
  /\ pc \in [Threads -> Points]
  /\ value \in [Threads -> Values \cup {Blank}]
  /\ empty_ \in [Writers -> BOOLEAN]
  /\ answer \in [Threads -> {"none", "OK", "FULL", "EMPTY", "TIMEOUT"}]
  /\ sent \in 0 .. MaxWrites
  /\ {written, received} \subseteq Seq(Values \cup {Blank})
  /\ disturbed \in BOOLEAN

Init ==
  /\ buf = Fresh(Blank)
  /\ emptyLock = Nobody
  /\ pc = [t \in Threads |-> "idle"]
  /\ value = [t \in Threads |-> Blank]
  /\ empty_ = [w \in Writers |-> FALSE]
  /\ answer = [t \in Threads |-> "none"]
  /\ sent = 0 /\ written = << >> /\ received = << >> /\ disturbed = FALSE

Idle == \A t \in Threads : pc[t] = "idle"
Waiting == {t \in Threads : pc[t] = "wait"}

Call(t) ==
  /\ pc[t] = "idle"
  /\ disturbed' = (disturbed \/ ~ Idle)

GoTo(t, p) == pc' = [pc EXCEPT ![t] = p]
Return(t, status) == GoTo(t, "idle") /\ answer' = [answer EXCEPT ![t] = status]

-----------------------------------------------------------------------------
(* write: the test for room, under m_full.mutex *)

FindRoom(w) ==
  /\ ~ Full(buf)
  /\ GoTo(w, "put") /\ UNCHANGED <<buf, answer>>

\* A faulty variant: more than the oldest value is dropped.
TwoDropped(w, mode) ==
  /\ Full(buf) /\ mode = "overwrite"
  /\ buf' = RptrAdvanced(buf, 2)
  /\ GoTo(w, "put") /\ UNCHANGED answer

\* "overwrite": the oldest value is dropped.
MakeRoom(w, mode) ==
  /\ Full(buf) /\ mode = "overwrite"
  /\ buf' = RptrAdvanced(buf, 1)
  /\ GoTo(w, "put") /\ UNCHANGED answer

GiveUpFull(w, mode) ==
  /\ Full(buf) /\ mode = "do_nothing"
  /\ Return(w, "FULL") /\ UNCHANGED buf

WaitForRoom(w, mode) ==
  /\ Full(buf) /\ mode = "block"
  /\ GoTo(w, "wait") /\ UNCHANGED <<buf, answer>>

Write(w) ==
  /\ Call(w)
  /\ sent < MaxWrites
  /\ sent' = sent + 1
  /\ value' = [value EXCEPT ![w] = sent + 1]
  /\ \E given \in TimeoutGiven :
       LET mode == Mode(WritePolicy, given) IN
         \/ FindRoom(w)
         \/ MakeRoom(w, mode)
         \/ GiveUpFull(w, mode)
         \/ WaitForRoom(w, mode)
  /\ UNCHANGED <<emptyLock, empty_, written, received>>

Put(w) ==
  /\ pc[w] = "put"
  /\ buf' = Filled(buf, value[w])
  /\ GoTo(w, "lock")
  /\ UNCHANGED <<emptyLock, value, empty_, answer, sent, written, received,
                 disturbed>>

\* advanceWptr(1): lock m_empty.mutex and look whether the buffer is empty.
LockEmpty(w) ==
  /\ pc[w] = "lock"
  /\ emptyLock = Nobody
  /\ emptyLock' = w
  /\ empty_' = [empty_ EXCEPT ![w] = Empty(buf)]
  /\ GoTo(w, "advance")
  /\ UNCHANGED <<buf, value, answer, sent, written, received, disturbed>>

(***************************************************************************)
(* The rest of advanceWptr(1), and the return from write, which does not   *)
(* look at what advanceWptr returned.  m_empty.cond is notified if the     *)
(* buffer was empty and the advance was not refused.                       *)
(***************************************************************************)
NotifyOne(p, notified) == [p EXCEPT ![notified] = "woken"]

\* A faulty variant: notification when there were values already.
NotifiesWhenFilled(w) == ~ empty_[w] /\ MayAdvanceWptr(buf, 1)

Notifies(w) == empty_[w] /\ MayAdvanceWptr(buf, 1)

AdvanceWptr(w) ==
  /\ pc[w] = "advance"
  /\ buf' = WptrAdvanced(buf, 1)
  /\ LET returned == [pc EXCEPT ![w] = "idle"] IN
       IF Notifies(w) /\ Waiting # {}
         THEN \E t \in Waiting : pc' = NotifyOne(returned, t)
         ELSE pc' = returned
  /\ emptyLock' = Nobody
  /\ answer' = [answer EXCEPT ![w] = "OK"]
  /\ written' = Append(written, value[w])
  /\ UNCHANGED <<value, empty_, sent, received, disturbed>>

-----------------------------------------------------------------------------
(* read: the test for data, under m_empty.mutex *)

FindData(r) ==
  /\ ~ Empty(buf)
  /\ GoTo(r, "get") /\ UNCHANGED <<buf, answer>>

\* "readback": the value read last is made available once more.
StepBack(r, mode) ==
  /\ Empty(buf) /\ mode = "readback" /\ buf.wcount > 0
  /\ buf' = RptrAdvanced(buf, -1)
  /\ GoTo(r, "get") /\ UNCHANGED answer

GiveUpEmpty(r, mode) ==
  /\ Empty(buf)
  /\ \/ mode = "readback" /\ buf.wcount = 0
     \/ mode = "do_nothing"
  /\ Return(r, "EMPTY") /\ UNCHANGED buf

WaitForData(r, mode) ==
  /\ Empty(buf) /\ mode = "block"
  /\ GoTo(r, "wait") /\ UNCHANGED <<buf, answer>>

Read(r) ==
  /\ Call(r)
  /\ emptyLock = Nobody
  /\ Len(received) < MaxReads
  /\ \E given \in TimeoutGiven :
       LET mode == Mode(ReadPolicy, given) IN
         \/ FindData(r)
         \/ StepBack(r, mode)
         \/ GiveUpEmpty(r, mode)
         \/ WaitForData(r, mode)
  /\ UNCHANGED <<emptyLock, value, empty_, sent, written, received>>

Get(r) ==
  /\ pc[r] = "get"
  /\ value' = [value EXCEPT ![r] = Oldest(buf)]
  /\ GoTo(r, "release")
  /\ UNCHANGED <<buf, emptyLock, empty_, answer, sent, written, received,
                 disturbed>>

(***************************************************************************)
(* advanceRptr(1), and the return from read, which does not look at what   *)
(* advanceRptr returned.  Its notification of m_full.cond reaches nobody.  *)
(***************************************************************************)
AdvanceRptr(r) ==
  /\ pc[r] = "release"
  /\ buf' = RptrAdvanced(buf, 1)
  /\ Return(r, "OK")
  /\ received' = Append(received, value[r])
  /\ UNCHANGED <<emptyLock, value, empty_, sent, written, disturbed>>

-----------------------------------------------------------------------------
(* Waiting.  A reader that leaves wait_for takes m_empty.mutex again. *)

MayLeaveWait(t) == t \in Readers => emptyLock = Nobody

\* Neither call tests the buffer again.
Wake(t) ==
  /\ \/ pc[t] = "woken"
     \/ SpuriousWakes /\ pc[t] = "wait"
  /\ MayLeaveWait(t)
  /\ GoTo(t, IF t \in Writers THEN "put" ELSE "get")
  /\ disturbed' = (disturbed \/ pc[t] = "wait")
  /\ UNCHANGED <<buf, emptyLock, value, empty_, answer, sent, written, received>>

TimeOut(t) ==
  /\ TimersExpire
  /\ pc[t] \in {"wait", "woken"}
  /\ MayLeaveWait(t)
  /\ Return(t, "TIMEOUT")
  /\ UNCHANGED <<buf, emptyLock, value, empty_, sent, written, received,
                 disturbed>>

-----------------------------------------------------------------------------
WriterStep(w) == Write(w) \/ Put(w) \/ LockEmpty(w) \/ AdvanceWptr(w)

ReaderStep(r) == Read(r) \/ Get(r) \/ AdvanceRptr(r)

Next ==
  \/ \E w \in Writers : WriterStep(w)
  \/ \E r \in Readers : ReaderStep(r)
  \/ \E t \in Threads : Wake(t) \/ TimeOut(t)

Spec == Init /\ [][Next]_vars

(***************************************************************************)
(* Fairness: a thread inside a call is scheduled, and a reader calls read  *)
(* again and again.  Nobody has to write.                                  *)
(***************************************************************************)
FairSpec ==
  /\ Spec
  /\ \A w \in Writers : WF_vars(Put(w) \/ LockEmpty(w) \/ AdvanceWptr(w))
  /\ \A r \in Readers : WF_vars(ReaderStep(r))
  /\ \A t \in Threads : WF_vars(pc[t] = "woken" /\ Wake(t))

-----------------------------------------------------------------------------
(***************************************************************************)
(* Properties.                                                             *)
(***************************************************************************)

(***************************************************************************)
(* The positions and the count, which advanceWptr and advanceRptr move     *)
(* separately and which a refused advance must leave alone, always agree.  *)
(***************************************************************************)
PointersAgree == Consistent(buf)

(***************************************************************************)
(* With one writer and one reader and no policy that drops or repeats, the *)
(* buffer is the bounded queue of module BufferFifo: a value joins the     *)
(* queue when the write position advances and leaves it when the read      *)
(* position does.                                                          *)
(***************************************************************************)
Fifo == INSTANCE BufferFifo
          WITH NoValue <- Blank,
               queue   <- Stored(buf),
               offered <- [w \in Writers |->
                             IF pc[w] = "idle" THEN Blank ELSE value[w]]

BehavesAsFifo == Fifo!Spec

(***************************************************************************)
(* As long as no call has started during another, and no wait has ended    *)
(* without a notification (after which a writer writes to a full buffer),  *)
(* each of the last Length values written can still be read or has been:   *)
(* writing to a full buffer drops the oldest value only, and reading an    *)
(* empty one again loses none (RingBuffer.h:460, 753).                     *)
(***************************************************************************)
LatestKept ==
  Idle /\ ~ disturbed =>
    \A k \in DOMAIN written :
      k > Len(written) - Length =>
        written[k] \in Range(received) \cup Range(Stored(buf))

(***************************************************************************)
(* Every value written is read in the end, by a reader that waits for data *)
(* and relies on the writer to notify it.                                  *)
(***************************************************************************)
WrittenIsRead ==
  \A v \in Values : v \in Range(written) ~> v \in Range(received)

(***************************************************************************)
(* A writer that waits for room is released by the read that makes some.   *)
(***************************************************************************)
WriterReleased ==
  \A w \in Writers :
    (pc[w] = "wait" /\ ~ Full(buf)) ~> pc[w] # "wait"

=============================================================================
