--------------------------- MODULE PublisherProofs ---------------------------
(***************************************************************************)
(* Theorems about PublisherNew and PublisherPeriodic, for every length of  *)
(* the buffer, every skip count, push policy and number of writes.         *)
(***************************************************************************)
EXTENDS PublisherPeriodic, RingPointersProofs, TLAPS

Data == Values \cup {Blank}

(***************************************************************************)
(* A write is under way; a value stored before the one it writes.          *)
(***************************************************************************)
Pending == wpc \in {"check", "test", "put", "advance"}

Earlier(v) == v <= sent /\ (Pending => v < sent)

(***************************************************************************)
(* How many values n rounds of "skip" go over.                             *)
(***************************************************************************)
Loops(n) == n * (SkipCount + 1)

(***************************************************************************)
(* Which policy takes which steps, and what the thread has borrowed.       *)
(***************************************************************************)
PushInv ==
  /\ Pending => sent > 0
  /\ push = "skip" => m_pushPolicy = "new"
  /\ push \in {"next", "drain", "discard"} => m_pushPolicy = "skip"
  /\ push = "release" => m_pushPolicy # "skip"
  /\ (push \in {"get", "send"} /\ m_pushPolicy = "skip") => skip.left > 0
  /\ slot = IF push \in {"send", "release"} THEN buf.rpos ELSE NoSlot

(***************************************************************************)
(* What a push under "skip" has still to go over is in the buffer.         *)
(***************************************************************************)
SkipInv ==
  m_pushPolicy = "skip" =>
    /\ (push = "next" /\ skip.left > 0) =>
         buf.fill >= skip.post + 1 + Loops(skip.left - 1)
    /\ push \in {"get", "send"} => buf.fill >= 1 + Loops(skip.left - 1)
    /\ push = "discard" => count \in 0 .. buf.fill
    /\ push \in {"next", "drain", "discard"} => skip.post \in 0 .. SkipCount + 1

BaseInv == TypeOK /\ Consistent(buf) /\ PushInv /\ SkipInv

-----------------------------------------------------------------------------
(* Facts about the operators *)

(***************************************************************************)
(* One round goes over SkipCount + 1 values, and no more rounds are made   *)
(* than the values are enough for.                                         *)
(***************************************************************************)
LEMMA LoopsStep ==
  ASSUME NEW n \in Nat
  PROVE  /\ Loops(n) \in Nat
         /\ n > 0 => Loops(n) = Loops(n - 1) + SkipCount + 1 /\ Loops(n - 1) \in Nat
<1>. USE PublisherAssumption
<1>1. \A m \in Nat : Loops(m) \in Nat
  BY DEF Loops
<1>2. n > 0 => n * (SkipCount + 1) = (n - 1) * (SkipCount + 1) + SkipCount + 1
  OBVIOUS
<1>. QED BY <1>1, <1>2 DEF Loops

LEMMA LoopsFit ==
  ASSUME NEW x \in Nat
  PROVE  /\ x \div (SkipCount + 1) \in Nat
         /\ Loops(x \div (SkipCount + 1)) <= x
         /\ x % (SkipCount + 1) \in 0 .. SkipCount
<1>. DEFINE d == SkipCount + 1
<1>1. d \in Nat \ {0}
  BY PublisherAssumption
<1>2. /\ x \div d \in Nat /\ x % d \in 0 .. d - 1
      /\ x = d * (x \div d) + (x % d)
  <2>. HIDE DEF d
  <2>. QED BY <1>1
<1>3. (x \div d) * d = d * (x \div d)
  <2>. HIDE DEF d
  <2>. QED BY <1>1, <1>2
<1>. QED BY <1>1, <1>2, <1>3, PublisherAssumption DEF Loops

(***************************************************************************)
(* What the types say, spelled out.                                        *)
(***************************************************************************)
LEMMA BaseFacts ==
  ASSUME TypeOK, Consistent(buf)
  PROVE  /\ buf \in Buffers(Data) /\ Length \in Nat \ {0}
         /\ buf.fill \in 0 .. Length /\ buf.rpos \in Slots /\ buf.wpos \in Slots
         /\ buf.data \in [Slots -> Data]
         /\ Data \subseteq Nat /\ sent \in Nat /\ SkipCount \in Nat
         /\ Stored(buf) \in Seq(Data) /\ Len(Stored(buf)) = buf.fill
         /\ \A k \in 1 .. buf.fill : Stored(buf)[k] \in Data
         /\ \A x : x \in Range(Stored(buf)) <=>
                     \E k \in 1 .. buf.fill : Stored(buf)[k] = x
         /\ m_pushPolicy \in {"all", "fifo", "skip", "new"}
         /\ putMayFail \in BOOLEAN
<1>1. /\ buf \in Buffers(Data) /\ Length \in Nat \ {0}
      /\ buf.fill \in 0 .. Length /\ buf.rpos \in Slots /\ buf.wpos \in Slots
      /\ buf.data \in [Slots -> Data]
  BY LengthAssumption DEF TypeOK, Buffers, Data
<1>2. Data \subseteq Nat /\ sent \in Nat /\ SkipCount \in Nat
  BY PublisherAssumption DEF TypeOK, Data, Values, Blank
<1>3. Stored(buf) \in Seq(Data) /\ Len(Stored(buf)) = buf.fill
  BY <1>1, StoredIsSeq
<1>4. DOMAIN Stored(buf) = 1 .. buf.fill
  BY <1>3
<1>5. /\ \A k \in 1 .. buf.fill : Stored(buf)[k] \in Data
      /\ \A x : x \in Range(Stored(buf)) <=>
                  \E k \in 1 .. buf.fill : Stored(buf)[k] = x
  BY <1>3, <1>4 DEF Range
<1>6. setup \in {"all", "fifo", "skip", "new"} \X BOOLEAN
  BY PublisherAssumption DEF TypeOK
<1>. QED BY <1>1, <1>2, <1>3, <1>5, <1>6 DEF setup

-----------------------------------------------------------------------------
(* Types *)

(***************************************************************************)
(* The steps of the writer keep the types and PushInv.                     *)
(***************************************************************************)
Storing ==
  Write \/ Check \/ TestRoom \/ Put \/ AdvanceWptr \/ SignalTask \/ ResumeOrNot

LEMMA TaskKept ==
  ASSUME TaskTypeOK,
         UNCHANGED taskVars \/ Signal \/ Resume \/ Finalize \/ TaskStep
           \/ WorkDone \/ (suspended' = TRUE /\ UNCHANGED <<alive, task>>)
  PROVE  TaskTypeOK'
  BY DEF TaskTypeOK, taskVars, Signal, Resume, Finalize, TaskStep, WorkDone,
         Notified, TestAlive, TestSuspended, WakeUp

LEMMA StoringBuffer ==
  ASSUME BaseInv, Storing
  PROVE  /\ buf' \in Buffers(Data) /\ Consistent(buf')
         /\ buf'.rpos = buf.rpos
         /\ buf'.fill \in buf.fill .. Length
<1>. USE BaseFacts DEF BaseInv
<1>1. CASE Put
  <2>1. sent \in Data
    BY <1>1 DEF Put, PushInv, Pending, TypeOK, Data, Values
  <2>2. buf' = Filled(buf, sent)
    BY <1>1 DEF Put
  <2>3. buf' \in Buffers(Data) /\ Consistent(buf')
    BY <2>1, <2>2, FilledOK
  <2>4. buf'.rpos = buf.rpos /\ buf'.fill = buf.fill
    BY <2>2 DEF Filled, Buffers
  <2>. QED BY <2>3, <2>4
<1>2. CASE AdvanceWptr
  <2>1. buf' = WptrAdvanced(buf, 1)
    BY <1>2 DEF AdvanceWptr
  <2>2. buf'.rpos = buf.rpos /\ buf'.fill \in {buf.fill, buf.fill + 1}
    BY <2>1 DEF WptrAdvanced, Buffers
  <2>3. buf' \in Buffers(Data) /\ Consistent(buf')
    BY <2>1, WptrAdvancedOK
  <2>. QED BY <2>2, <2>3, SMTT(60) DEF Buffers
<1>3. CASE UNCHANGED buf
  BY <1>3
<1>. QED BY <1>1, <1>2, <1>3 DEF Storing, Write, Check, TestRoom, SignalTask,
                                 ResumeOrNot

LEMMA StoringTypes ==
  ASSUME BaseInv, Storing, UNCHANGED setup
  PROVE  BaseInv'
<1>1. /\ buf' \in Buffers(Data) /\ Consistent(buf')
      /\ buf'.rpos = buf.rpos
      /\ buf'.fill \in buf.fill .. Length
  BY StoringBuffer
<1>2. TaskTypeOK'
  <2>1. UNCHANGED taskVars \/ Signal \/ Resume
    BY DEF Storing, Write, Check, TestRoom, Put, AdvanceWptr, SignalTask,
           ResumeOrNot
  <2>. QED BY <2>1, TaskKept DEF BaseInv, TypeOK
<1>3. UNCHANGED <<pushVars, deletion, delivered, due>>
  BY DEF Storing, Write, Check, TestRoom, Put, AdvanceWptr, SignalTask,
         ResumeOrNot, historyVars
<1>4. /\ {m_retcode', reply', answer'} \subseteq Codes
      /\ wpc' \in {"idle", "check", "test", "put", "advance", "signal"}
      /\ sent' \in 0 .. MaxWrites
  <2>1. {m_retcode', reply', answer'} \subseteq Codes
    BY <1>3 DEF BaseInv, TypeOK, Storing, Write, Check, TestRoom, Put, AdvanceWptr,
                SignalTask, ResumeOrNot, WriterGoesTo, Codes, pushVars
  <2>2. wpc' \in {"idle", "check", "test", "put", "advance", "signal"}
    BY DEF BaseInv, TypeOK, Storing, Write, Check, TestRoom, Put, AdvanceWptr,
           SignalTask, ResumeOrNot, WriterGoesTo
  <2>3. sent' \in 0 .. MaxWrites
    BY PublisherAssumption
       DEF BaseInv, TypeOK, Storing, Write, Check, TestRoom, Put, AdvanceWptr,
           SignalTask, ResumeOrNot, WriterGoesTo
  <2>. QED BY <2>1, <2>2, <2>3
<1>5. accepted' \in Seq(Values)
  <2>1. CASE AdvanceWptr
    BY <2>1 DEF AdvanceWptr, BaseInv, TypeOK, PushInv, Pending, Values
  <2>2. CASE UNCHANGED accepted
    BY <2>2 DEF BaseInv, TypeOK
  <2>. QED BY <2>1, <2>2 DEF Storing, Write, Check, TestRoom, Put, SignalTask,
                             ResumeOrNot, historyVars
<1>6. TypeOK'
  BY <1>1, <1>2, <1>3, <1>4, <1>5 DEF BaseInv, TypeOK, pushVars, Data, setup
<1>7. PushInv'
  <2>1. Pending' => sent' > 0
    BY DEF BaseInv, TypeOK, PushInv, Pending, Storing, Write, Check, TestRoom,
           Put, AdvanceWptr, SignalTask, ResumeOrNot, WriterGoesTo
  <2>. QED BY <1>1, <1>3, <2>1 DEF BaseInv, PushInv, pushVars, setup
<1>8. SkipInv'
  <2>1. buf.fill \in 0 .. Length /\ buf'.fill \in Nat /\ buf'.fill >= buf.fill
    BY <1>1, BaseFacts DEF BaseInv
  <2>2. \A n \in Int : buf.fill >= n => buf'.fill >= n
    BY <2>1
  <2>3. (push \in {"next", "get", "send"} /\ skip.left > 0) =>
           Loops(skip.left - 1) \in Nat
    BY LoopsStep DEF BaseInv, TypeOK
  <2>4. skip.post \in Nat
    BY DEF BaseInv, TypeOK
  <2>. QED BY <1>3, <2>1, <2>2, <2>3, <2>4 DEF BaseInv, SkipInv, PushInv, pushVars,
                                          setup
<1>. QED BY <1>1, <1>6, <1>7, <1>8 DEF BaseInv

(***************************************************************************)
(* The steps of a push, of either publisher.                               *)
(***************************************************************************)
Pushing ==
  \/ SvcStep
  \/ ReturnEmpty
  \/ DrainCounted /\ readable \in 0 .. Length

LEMMA PushingBuffer ==
  ASSUME BaseInv, Pushing
  PROVE  /\ buf' \in Buffers(Data) /\ Consistent(buf')
         /\ \/ UNCHANGED buf
            \/ \E n \in Int : buf' = RptrAdvanced(buf, n)
         /\ buf'.data = buf.data /\ buf'.wpos = buf.wpos
<1>. USE BaseFacts DEF BaseInv
<1>1. skip.post \in Int /\ count \in Int /\ buf.fill \in Int
  BY DEF TypeOK
<1>2. UNCHANGED buf \/ \E n \in Int : buf' = RptrAdvanced(buf, n)
  <2>1. CASE ReturnEmpty \/ (DrainCounted /\ readable \in 0 .. Length)
    BY <2>1, LengthAssumption DEF ReturnEmpty, DrainCounted
  <2>2. CASE BeginAll \/ BeginFifo \/ BeginNew \/ BeginSkip \/ Get \/ SendOk \/ Drain
    BY <2>2 DEF BeginAll, BeginFifo, BeginNew, BeginSkip, Get, SendOk, Drain
  <2>3. CASE SkipOlder \/ NextSkip \/ Release \/ Discard
    BY <2>3, <1>1 DEF SkipOlder, NextSkip, Release, Discard
  <2>4. CASE \E ret \in Failures : SendFails(ret)
    <3>1. - skip.post \in Int
      BY <1>1
    <3>. QED BY <2>4, <3>1 DEF SendFails
  <2>. QED BY <2>1, <2>2, <2>3, <2>4 DEF Pushing, SvcStep
<1>3. ASSUME NEW n \in Int
      PROVE  /\ RptrAdvanced(buf, n) \in Buffers(Data)
             /\ Consistent(RptrAdvanced(buf, n))
             /\ RptrAdvanced(buf, n).data = buf.data
             /\ RptrAdvanced(buf, n).wpos = buf.wpos
  <2>1. /\ RptrAdvanced(buf, n) \in Buffers(Data)
        /\ Consistent(RptrAdvanced(buf, n))
    BY RptrAdvancedOK
  <2>2. /\ RptrAdvanced(buf, n).data = buf.data
        /\ RptrAdvanced(buf, n).wpos = buf.wpos
    BY DEF RptrAdvanced, Buffers
  <2>. QED BY <2>1, <2>2
<1>. QED BY <1>2, <1>3

LEMMA PushingTypes ==
  ASSUME BaseInv, Pushing, UNCHANGED setup
  PROVE  TypeOK'
<1>. USE DEF BaseInv
<1>1. buf' \in Buffers(Data)
  BY PushingBuffer
<1>2. TaskTypeOK'
  <2>1. UNCHANGED taskVars \/ WorkDone
    BY DEF Pushing, SvcStep, ReturnEmpty, DrainCounted, BeginAll, BeginFifo,
           BeginNew, BeginSkip, SkipOlder, NextSkip, Get, SendOk, SendFails,
           Release, Drain, Discard, PushGoesTo, Finish
  <2>. QED BY <2>1, TaskKept DEF TypeOK
<1>3. UNCHANGED <<writerVars, deletion, accepted>>
  BY DEF Pushing, SvcStep, ReturnEmpty, DrainCounted, BeginAll, BeginFifo,
         BeginNew, BeginSkip, SkipOlder, NextSkip, Get, SendOk, SendFails,
         Release, Drain, Discard, PushGoesTo, Finish
<1>4. /\ m_retcode' \in Codes
      /\ push' \in {"begin", "skip", "get", "send", "release", "next", "back",
                    "drain", "discard"}
  BY PublisherAssumption
     DEF Pushing, SvcStep, ReturnEmpty, DrainCounted, BeginAll, BeginFifo,
         BeginNew, BeginSkip, SkipOlder, NextSkip, Get, SendOk, SendFails,
         Release, Drain, Discard, PushGoesTo, Finish, TypeOK, Codes
<1>5. slot' \in Slots \cup {NoSlot} /\ count' \in -1 .. Length
  <2>1. buf.rpos \in Slots /\ buf.fill \in 0 .. Length /\ Length \in Nat
    BY BaseFacts
  <2>2. slot' \in {slot, NoSlot, buf.rpos} /\ count' \in {count, 0, buf.fill, buf.fill - 1}
    BY DEF Pushing, SvcStep, ReturnEmpty, DrainCounted, BeginAll, BeginFifo,
           BeginNew, BeginSkip, SkipOlder, NextSkip, Get, SendOk, SendFails,
           Release, Drain, Discard, Finish
  <2>. QED BY <2>1, <2>2, SMTT(40) DEF TypeOK
<1>6. /\ m_leftskip' \in 0 .. SkipCount
      /\ skip' \in [pre : Nat, loops : Nat, left : Nat, post : Nat]
  <2>1. /\ buf.fill \in Nat /\ SkipCount \in Nat /\ m_leftskip \in 0 .. SkipCount
        /\ skip \in [pre : Nat, loops : Nat, left : Nat, post : Nat]
    BY BaseFacts, LengthAssumption DEF TypeOK
  <2>2. /\ skip.pre % (SkipCount + 1) \in 0 .. SkipCount
        /\ (buf.fill + m_leftskip) \div (SkipCount + 1) \in Nat
    <3>1. skip.pre \in Nat /\ buf.fill + m_leftskip \in Nat
      BY <2>1
    <3>. QED BY <3>1, LoopsFit
  <2>3. CASE BeginSkip
    BY <2>1, <2>2, <2>3 DEF BeginSkip
  <2>4. CASE SendOk
    <3>1. m_pushPolicy = "skip" => skip.left \in Nat \ {0}
      BY <2>1, <2>4 DEF SendOk, At, PushInv
    <3>2. m_pushPolicy = "skip" =>
            skip' \in [pre : Nat, loops : Nat, left : Nat, post : Nat]
      <4>1. m_pushPolicy = "skip" =>
              /\ skip' = [skip EXCEPT !.left = @ - 1, !.post = SkipCount + 1]
              /\ skip.left - 1 \in Nat /\ SkipCount + 1 \in Nat
        BY <2>1, <2>4, <3>1 DEF SendOk
      <4>. QED BY <2>1, <4>1
    <3>. QED BY <2>1, <2>4, <3>2 DEF SendOk
  <2>5. CASE DrainCounted \/ Discard
    BY <2>1, <2>2, <2>5 DEF DrainCounted, Discard, Finish, NoSkip
  <2>6. CASE UNCHANGED m_leftskip /\ skip' \in {skip, NoSkip}
    BY <2>1, <2>6 DEF NoSkip
  <2>. QED BY <2>3, <2>4, <2>5, <2>6
           DEF Pushing, SvcStep, ReturnEmpty, BeginAll, BeginFifo, BeginNew,
               SkipOlder, NextSkip, Get, SendFails, Release, Drain, Finish
<1>7. delivered' \subseteq Data /\ due' \subseteq Data
  <2>1. CASE SendOk
    <3>1. slot = buf.rpos
      BY <2>1 DEF SendOk, At, PushInv
    <3>2. buf.data[slot] \in Data
      BY <3>1, BaseFacts
    <3>. QED BY <2>1, <3>2 DEF SendOk, TypeOK, Data
  <2>2. CASE UNCHANGED delivered /\ due' \in {due, {}, due \cup Range(Stored(buf))}
    <3>1. Range(Stored(buf)) \subseteq Data
      BY BaseFacts
    <3>. QED BY <2>2, <3>1 DEF TypeOK, Data
  <2>. QED BY <2>1, <2>2
           DEF Pushing, SvcStep, ReturnEmpty, DrainCounted, BeginAll,
               BeginFifo,
               BeginNew, BeginSkip, SkipOlder, NextSkip, Get, SendFails,
               Release, Drain, Discard, Finish, Look
<1>. QED BY <1>1, <1>2, <1>3, <1>4, <1>5, <1>6, <1>7
         DEF TypeOK, Data, writerVars, setup

LEMMA PushingInv ==
  ASSUME BaseInv, Pushing, UNCHANGED setup
  PROVE  PushInv'
<1>. USE DEF BaseInv
<1>1. UNCHANGED writerVars
  BY DEF Pushing, SvcStep, ReturnEmpty, DrainCounted, BeginAll, BeginFifo,
         BeginNew, BeginSkip, SkipOlder, NextSkip, Get, SendOk, SendFails,
         Release, Drain, Discard, PushGoesTo, Finish
<1>2. Pending' => sent' > 0
  BY <1>1 DEF PushInv, Pending, writerVars
<1>3. /\ push' = "skip" => m_pushPolicy = "new"
      /\ push' \in {"next", "drain", "discard"} => m_pushPolicy = "skip"
      /\ push' = "release" => m_pushPolicy # "skip"
      /\ slot' = IF push' \in {"send", "release"} THEN buf'.rpos ELSE NoSlot
  <2>1. CASE Get \/ SendOk \/ SkipOlder \/ NextSkip
    BY <2>1 DEF Get, SendOk, SkipOlder, NextSkip, PushGoesTo, At, PushInv
  <2>2. CASE BeginAll \/ BeginFifo \/ BeginNew \/ BeginSkip \/ ReturnEmpty
    BY <2>2 DEF BeginAll, BeginFifo, BeginNew, BeginSkip, ReturnEmpty,
                PushGoesTo, Finish, At, PushInv
  <2>3. CASE \/ (\E ret \in Failures : SendFails(ret)) \/ Release \/ Drain
             \/ Discard \/ DrainCounted
    BY <2>3 DEF SendFails, Release, Drain, Discard, DrainCounted, PushGoesTo,
                Finish, At, PushInv
  <2>. QED BY <2>1, <2>2, <2>3 DEF Pushing, SvcStep
<1>4. (push' \in {"get", "send"} /\ m_pushPolicy = "skip") => skip'.left > 0
  BY DEF Pushing, SvcStep, ReturnEmpty, DrainCounted, BeginAll, BeginFifo,
         BeginNew, BeginSkip, SkipOlder, NextSkip, Get, SendOk, SendFails,
         Release, Drain, Discard, PushGoesTo, Finish, PushInv, At
<1>. QED BY <1>2, <1>3, <1>4 DEF PushInv, setup

(***************************************************************************)
(* The rounds of "skip": the values one goes over are there.               *)
(***************************************************************************)
LEMMA SkipForward ==
  ASSUME BaseInv, NEW n \in 0 .. buf.fill
  PROVE  RptrAdvanced(buf, n).fill = buf.fill - n
  BY BaseFacts, StoredSkipped DEF BaseInv

LEMMA NextFits ==
  ASSUME BaseInv, NextSkip, skip.left > 0
  PROVE  /\ skip.post \in 0 .. buf.fill - 1
         /\ buf' = RptrAdvanced(buf, skip.post)
         /\ buf'.fill = buf.fill - skip.post
         /\ buf'.fill >= 1 + Loops(skip.left - 1)
<1>1. m_pushPolicy = "skip" /\ push = "next"
  BY DEF NextSkip, At, BaseInv, PushInv
<1>2. skip.post \in Nat /\ skip.left \in Nat
  BY DEF BaseInv, TypeOK
<1>3. Loops(skip.left - 1) \in Nat
  BY <1>2, LoopsStep
<1>4. buf.fill >= skip.post + 1 + Loops(skip.left - 1) /\ buf.fill \in Nat
  BY <1>1, BaseFacts, LengthAssumption DEF BaseInv, SkipInv
<1>5. skip.post \in 0 .. buf.fill - 1
  BY <1>2, <1>3, <1>4
<1>6. buf' = RptrAdvanced(buf, skip.post)
  BY DEF NextSkip
<1>7. buf'.fill = buf.fill - skip.post
  BY <1>2, <1>4, <1>5, <1>6, SkipForward
<1>. QED BY <1>2, <1>3, <1>4, <1>5, <1>6, <1>7

LEMMA PushingSkip ==
  ASSUME BaseInv, Pushing, UNCHANGED setup
  PROVE  SkipInv'
<1>. USE DEF BaseInv
<1>1. SUFFICES ASSUME m_pushPolicy = "skip"
               PROVE  SkipInv'
  BY DEF SkipInv, setup
<1>2. /\ buf.fill \in 0 .. Length /\ SkipCount \in Nat /\ Length \in Nat
      /\ m_leftskip \in 0 .. SkipCount
      /\ skip \in [pre : Nat, loops : Nat, left : Nat, post : Nat]
  BY BaseFacts DEF TypeOK
<1>3. CASE BeginSkip
  <2>. DEFINE pre == buf.fill + m_leftskip
             n == pre \div (SkipCount + 1)
  <2>1. pre \in Nat /\ n \in Nat /\ Loops(n) <= pre
    <3>1. pre \in Nat
      BY <1>2
    <3>. HIDE DEF pre
    <3>. QED BY <3>1, LoopsFit
  <2>2. /\ n > 0 => Loops(n) = Loops(n - 1) + SkipCount + 1 /\ Loops(n - 1) \in Nat
        /\ Loops(n) \in Nat
    BY <2>1, LoopsStep
  <2>3. /\ skip'.left = n /\ skip'.post = SkipCount - m_leftskip
        /\ push' = "next" /\ UNCHANGED buf
    BY <1>3 DEF BeginSkip, PushGoesTo
  <2>4. n > 0 => buf.fill >= skip'.post + 1 + Loops(n - 1)
    <3>. HIDE DEF n
    <3>. QED BY <1>2, <2>1, <2>2, <2>3
  <2>5. skip'.post \in 0 .. SkipCount + 1
    BY <1>2, <2>3
  <2>. QED BY <2>3, <2>4, <2>5 DEF SkipInv
<1>4. CASE NextSkip
  <2>1. CASE skip.left > 0
    <3>1. buf'.fill >= 1 + Loops(skip.left - 1)
      BY <1>4, <2>1, NextFits
    <3>. QED BY <1>1, <1>4, <2>1, <3>1 DEF NextSkip, PushGoesTo, SkipInv, At
  <2>2. CASE ~ skip.left > 0
    BY <1>1, <1>4, <2>2 DEF NextSkip, PushGoesTo, SkipInv, At
  <2>. QED BY <2>1, <2>2
<1>5. CASE Get
  BY <1>1, <1>5 DEF Get, PushGoesTo, SkipInv, At
<1>6. CASE SendOk
  <2>1. /\ skip'.left = skip.left - 1 /\ skip'.post = SkipCount + 1
        /\ push' = "next" /\ UNCHANGED buf
        /\ skip.left > 0 /\ buf.fill >= 1 + Loops(skip.left - 1)
    BY <1>1, <1>2, <1>6 DEF SendOk, PushGoesTo, PushInv, SkipInv, At
  <2>2. skip.left - 1 \in Nat
    BY <1>2, <2>1
  <2>3. skip.left - 1 > 0 =>
          /\ Loops(skip.left - 1) = Loops((skip.left - 1) - 1) + SkipCount + 1
          /\ Loops((skip.left - 1) - 1) \in Nat
    BY <2>2, LoopsStep
  <2>4. skip.left - 1 > 0 =>
          buf.fill >= skip'.post + 1 + Loops((skip.left - 1) - 1)
    <3>. DEFINE m == Loops((skip.left - 1) - 1)
    <3>1. SUFFICES ASSUME skip.left - 1 > 0
                   PROVE  buf.fill >= SkipCount + 1 + 1 + m
      BY <2>1
    <3>2. m \in Nat /\ buf.fill >= 1 + (m + SkipCount + 1)
      BY <2>1, <2>3, <3>1
    <3>. HIDE DEF m
    <3>. QED BY <1>2, <3>2
  <2>. QED BY <1>2, <2>1, <2>4 DEF SkipInv
<1>7. CASE Drain
  BY <1>1, <1>7, <1>2 DEF Drain, PushGoesTo, SkipInv, At
<1>8. CASE push' = "begin"
  BY <1>8 DEF SkipInv
<1>9. ~ BeginAll /\ ~ BeginFifo /\ ~ BeginNew /\ ~ SkipOlder
  BY <1>1 DEF BeginAll, BeginFifo, BeginNew, SkipOlder, PushInv, At
<1>. QED BY <1>3, <1>4, <1>5, <1>6, <1>7, <1>8, <1>9
         DEF Pushing, SvcStep, ReturnEmpty, DrainCounted, SendFails, Release,
             Discard, Finish, PushGoesTo

LEMMA PushingBase ==
  ASSUME BaseInv, Pushing, UNCHANGED setup
  PROVE  BaseInv'
  BY PushingBuffer, PushingTypes, PushingInv, PushingSkip DEF BaseInv

(***************************************************************************)
(* What the task and the destructor do does not touch the rest.            *)
(***************************************************************************)
Calling == UNCHANGED <<setup, buf, writerVars, pushVars, historyVars>>

LEMMA CallingBase ==
  ASSUME BaseInv, Calling, TaskTypeOK', deletion' \in {"no", "resumed", "finalized"}
  PROVE  BaseInv'
<1>1. TypeOK'
  BY DEF BaseInv, TypeOK, Calling, setup, writerVars, pushVars, historyVars
<1>2. PushInv' /\ SkipInv' /\ Consistent(buf')
  BY DEF BaseInv, PushInv, SkipInv, Pending, Calling, setup, writerVars,
         pushVars
<1>. QED BY <1>1, <1>2 DEF BaseInv

-----------------------------------------------------------------------------
(* Order *)

(***************************************************************************)
(* The policies that never move the read position back.                    *)
(***************************************************************************)
Steady ==
  \/ m_pushPolicy \in {"all", "fifo"}
  \/ m_pushPolicy = "skip" /\ ~ putMayFail

(***************************************************************************)
(* A write that found room finds it again, as only the thread makes more.  *)
(***************************************************************************)
RoomInv ==
  /\ wpc \in {"put", "advance"} => buf.fill < Length
  /\ wpc = "advance" => buf.data[buf.wpos] = sent

(***************************************************************************)
(* The values are stored in the order in which they were written.          *)
(***************************************************************************)
OrderInv ==
  /\ \A i, j \in 1 .. buf.fill : i < j => Stored(buf)[i] < Stored(buf)[j]
  /\ \A k \in 1 .. buf.fill : Earlier(Stored(buf)[k])

(***************************************************************************)
(* What is written is newer than what was, once it is written.             *)
(***************************************************************************)
LEMMA EarlierKept ==
  ASSUME BaseInv, Storing, NEW v \in Int, Earlier(v)
  PROVE  Earlier(v)'
<1>1. sent \in Nat
  BY DEF BaseInv, TypeOK
<1>. QED BY <1>1 DEF Earlier, Pending, Storing, Write, Check, TestRoom, Put,
                     AdvanceWptr, SignalTask, ResumeOrNot, WriterGoesTo

(***************************************************************************)
(* What the writer's steps do to the values stored.                        *)
(***************************************************************************)
LEMMA StoringStored ==
  ASSUME BaseInv, RoomInv, Storing
  PROVE  /\ ~ AdvanceWptr => Stored(buf') = Stored(buf) /\ buf'.fill = buf.fill
         /\ AdvanceWptr => /\ Stored(buf') = Append(Stored(buf), sent)
                           /\ buf'.fill = buf.fill + 1 /\ buf.fill < Length
                           /\ sent \in Data
         /\ buf.fill > 0 => Oldest(buf') = Oldest(buf)
<1>. USE BaseFacts DEF BaseInv
<1>1. CASE Put
  <2>1. sent \in Data
    BY <1>1 DEF Put, PushInv, Pending, TypeOK, Data, Values
  <2>2. buf' = Filled(buf, sent) /\ buf.fill < Length
    BY <1>1 DEF Put, RoomInv
  <2>3. Stored(buf') = Stored(buf)
    BY <2>1, <2>2, StoredFilled
  <2>4. buf'.fill = buf.fill /\ buf'.rpos = buf.rpos
    BY <2>2 DEF Filled, Buffers
  <2>5. buf.fill > 0 => Oldest(buf') = Oldest(buf)
    <3>1. buf.fill > 0 => buf.rpos # buf.wpos
      BY <2>2, Apart
    <3>. QED BY <2>2, <2>4, <3>1 DEF Oldest, Filled, Buffers
  <2>. QED BY <1>1, <2>3, <2>4, <2>5 DEF Put, AdvanceWptr
<1>2. CASE AdvanceWptr
  <2>1. buf' = WptrAdvanced(buf, 1) /\ buf.fill < Length
    BY <1>2 DEF AdvanceWptr, RoomInv
  <2>2. Stored(buf') = Append(Stored(buf), buf.data[buf.wpos])
    BY <2>1, StoredAppended
  <2>3. buf.data[buf.wpos] = sent
    BY <1>2 DEF AdvanceWptr, RoomInv
  <2>4. sent \in Data
    BY <2>3
  <2>5. /\ buf'.fill = buf.fill + 1 /\ buf'.rpos = buf.rpos
        /\ buf'.data = buf.data
    BY <2>1 DEF WptrAdvanced, MayAdvanceWptr, Buffers
  <2>. QED BY <1>2, <2>1, <2>2, <2>3, <2>4, <2>5 DEF Oldest
<1>3. CASE UNCHANGED buf /\ ~ AdvanceWptr
  BY <1>3
<1>. QED BY <1>1, <1>2, <1>3 DEF Storing, Write, Check, TestRoom, SignalTask,
                                 ResumeOrNot, AdvanceWptr

(***************************************************************************)
(* An element of a sequence that was appended to.                          *)
(***************************************************************************)
LEMMA AppendedAt ==
  ASSUME NEW S, NEW s \in Seq(S), NEW v \in S, NEW k \in 1 .. Len(s) + 1
  PROVE  Append(s, v)[k] = IF k = Len(s) + 1 THEN v ELSE s[k]
OBVIOUS

LEMMA StoringOrder ==
  ASSUME BaseInv, RoomInv, OrderInv, Storing
  PROVE  RoomInv' /\ OrderInv'
<1>. USE BaseFacts DEF BaseInv
<1>1. RoomInv'
  <2>1. CASE Put
    <3>1. buf' = Filled(buf, sent)
      BY <2>1 DEF Put
    <3>2. buf'.data[buf'.wpos] = sent /\ buf'.fill = buf.fill
      BY <3>1 DEF Filled, Buffers
    <3>. QED BY <2>1, <3>2 DEF Put, RoomInv, WriterGoesTo
  <2>2. CASE TestRoom
    BY <2>2 DEF TestRoom, RoomInv, WriterGoesTo, Full
  <2>3. CASE wpc' \notin {"put", "advance"}
    BY <2>3 DEF RoomInv
  <2>. QED BY <2>1, <2>2, <2>3 DEF Storing, Write, Check, AdvanceWptr,
                                   SignalTask, ResumeOrNot, WriterGoesTo
<1>2. CASE ~ AdvanceWptr
  <2>1. Stored(buf') = Stored(buf) /\ buf'.fill = buf.fill
    BY <1>2, StoringStored
  <2>2. \A k \in 1 .. buf.fill : Earlier(Stored(buf)[k])'
    <3>. TAKE k \in 1 .. buf.fill
    <3>1. Stored(buf)[k] \in Int /\ Earlier(Stored(buf)[k])
      BY DEF OrderInv
    <3>2. ASSUME NEW v \in Int, Earlier(v) PROVE Earlier(v)'
      BY <3>2, EarlierKept
    <3>. DEFINE v == Stored(buf)[k]
    <3>3. v' = Stored(buf)[k]
      BY <2>1
    <3>4. v <= sent' /\ (Pending' => v < sent')
      BY <3>1, <3>2 DEF Earlier
    <3>. QED BY <3>3, <3>4 DEF Earlier
  <2>. QED BY <1>1, <2>1, <2>2 DEF OrderInv
<1>3. CASE AdvanceWptr
  <2>1. /\ Stored(buf') = Append(Stored(buf), sent)
        /\ buf'.fill = buf.fill + 1 /\ sent \in Data
    BY <1>3, StoringStored
  <2>2. \A k \in 1 .. buf.fill + 1 :
          Stored(buf')[k] = IF k = buf.fill + 1 THEN sent ELSE Stored(buf)[k]
    BY <2>1, AppendedAt
  <2>3. UNCHANGED sent /\ Pending /\ ~ Pending'
    BY <1>3 DEF AdvanceWptr, Pending, WriterGoesTo
  <2>4. \A k \in 1 .. buf.fill : Stored(buf)[k] < sent
    BY <2>3 DEF OrderInv, Earlier
  <2>5. ASSUME NEW i \in 1 .. buf.fill + 1, NEW j \in 1 .. buf.fill + 1, i < j
        PROVE  Stored(buf')[i] < Stored(buf')[j]
    <3>1. i \in 1 .. buf.fill /\ Stored(buf')[i] = Stored(buf)[i]
      BY <2>2, <2>5, SMTT(40)
    <3>2. CASE j = buf.fill + 1
      BY <2>2, <2>4, <3>1, <3>2
    <3>3. CASE j # buf.fill + 1
      <4>1. j \in 1 .. buf.fill /\ Stored(buf')[j] = Stored(buf)[j]
        BY <2>2, <3>3, SMTT(40)
      <4>. QED BY <2>5, <3>1, <4>1 DEF OrderInv
    <3>. QED BY <3>2, <3>3
  <2>6. ASSUME NEW k \in 1 .. buf.fill + 1
        PROVE  Stored(buf')[k] <= sent'
    <3>1. CASE k = buf.fill + 1
      <4>1. Stored(buf')[k] = sent
        BY <2>2, <3>1
      <4>. QED BY <2>3, <4>1
    <3>2. CASE k # buf.fill + 1
      <4>1. k \in 1 .. buf.fill
        BY <3>2
      <4>2. Stored(buf')[k] = Stored(buf)[k] /\ Stored(buf)[k] \in Nat
        BY <2>2, <3>2, <4>1
      <4>. QED BY <2>3, <2>4, <4>1, <4>2
    <3>. QED BY <3>1, <3>2
  <2>7. OrderInv'
    BY <2>1, <2>3, <2>5, <2>6 DEF OrderInv, Earlier
  <2>. QED BY <1>1, <2>7
<1>. QED BY <1>2, <1>3

(***************************************************************************)
(* The thread takes some of the oldest values, or none.                    *)
(***************************************************************************)
Consumed == UNCHANGED buf \/ \E n \in 0 .. buf.fill : buf' = RptrAdvanced(buf, n)

LEMMA ConsumedOrder ==
  ASSUME BaseInv, RoomInv, OrderInv, Consumed, UNCHANGED writerVars
  PROVE  RoomInv' /\ OrderInv'
<1>. USE BaseFacts DEF BaseInv
<1>1. UNCHANGED <<wpc, sent>> /\ \A v : Earlier(v)' <=> v' <= sent /\ (Pending => v' < sent)
  BY DEF writerVars, Earlier, Pending
<1>2. CASE UNCHANGED buf
  BY <1>1, <1>2 DEF RoomInv, OrderInv, Earlier, Pending
<1>3. ASSUME NEW n \in 0 .. buf.fill, buf' = RptrAdvanced(buf, n)
      PROVE  RoomInv' /\ OrderInv'
  <2>1. /\ buf'.fill = buf.fill - n
        /\ \A k \in 1 .. buf.fill - n : Stored(buf')[k] = Stored(buf)[k + n]
    BY <1>3, StoredSkipped, SMTT(40)
  <2>2. buf'.data = buf.data /\ buf'.wpos = buf.wpos
    BY <1>3 DEF RptrAdvanced, Buffers
  <2>3. RoomInv'
    BY <1>1, <2>1, <2>2 DEF RoomInv
  <2>4. \A k \in 1 .. buf.fill - n : k + n \in 1 .. buf.fill
    BY SMTT(60)
  <2>5. \A i, j \in 1 .. buf.fill - n : i < j => Stored(buf')[i] < Stored(buf')[j]
    <3>. TAKE i, j \in 1 .. buf.fill - n
    <3>1. i < j => i + n < j + n
      OBVIOUS
    <3>. QED BY <2>1, <2>4, <3>1 DEF OrderInv
  <2>6. \A k \in 1 .. buf.fill - n :
          Stored(buf')[k] <= sent /\ (Pending => Stored(buf')[k] < sent)
    BY <2>1, <2>4 DEF OrderInv, Earlier
  <2>7. OrderInv'
    BY <1>1, <2>1, <2>5, <2>6 DEF OrderInv, Earlier, Pending
  <2>. QED BY <2>3, <2>7
<1>. QED BY <1>2, <1>3 DEF Consumed

LEMMA PushingConsumes ==
  ASSUME BaseInv, Steady, Pushing,
         DrainCounted => readable \in 0 .. buf.fill
  PROVE  Consumed
<1>. USE BaseFacts DEF BaseInv
<1>1. CASE NextSkip
  <2>1. CASE skip.left > 0
    <3>1. skip.post \in 0 .. buf.fill
      BY <1>1, <2>1, NextFits
    <3>. QED BY <1>1, <2>1, <3>1, NextFits DEF Consumed
  <2>. QED BY <1>1, <2>1 DEF NextSkip, Consumed
<1>2. CASE Release
  <2>1. buf' = RptrAdvanced(buf, 1)
    BY <1>2 DEF Release
  <2>2. CASE buf.fill = 0
    BY <2>1, <2>2 DEF RptrAdvanced, MayAdvanceRptr, Consumed
  <2>3. CASE buf.fill # 0
    BY <2>1, <2>3, SMTT(40) DEF Consumed
  <2>. QED BY <2>2, <2>3
<1>3. CASE Discard
  <2>1. count \in 0 .. buf.fill
    BY <1>3 DEF Discard, At, PushInv, SkipInv
  <2>. QED BY <1>3, <2>1 DEF Discard, Consumed
<1>4. CASE DrainCounted
  BY <1>4 DEF DrainCounted, Consumed
<1>5. CASE \E ret \in Failures : SendFails(ret)
  BY <1>5 DEF SendFails, Steady, Consumed
<1>6. ~ SkipOlder
  BY DEF SkipOlder, At, PushInv, Steady
<1>7. CASE UNCHANGED buf
  BY <1>7 DEF Consumed
<1>. QED BY <1>1, <1>2, <1>3, <1>4, <1>5, <1>6, <1>7
         DEF Pushing, SvcStep, ReturnEmpty, BeginAll, BeginFifo, BeginNew,
             BeginSkip, Get, SendOk, Drain

-----------------------------------------------------------------------------
(* What "all" and "fifo" owe *)

(***************************************************************************)
(* Under "all" what was stored, and what the push found, is sent or still  *)
(* stored.                                                                 *)
(***************************************************************************)
AllInv ==
  m_pushPolicy = "all" =>
    /\ Range(accepted) \cup due \subseteq delivered \cup Range(Stored(buf))
    /\ push \in {"get", "send", "release"} => buf.fill > 0
    /\ push = "release" => Oldest(buf) \in delivered

(***************************************************************************)
(* Under "fifo" the oldest of what the push found is served first.         *)
(***************************************************************************)
FifoDue ==
  m_pushPolicy = "fifo" =>
    /\ push = "begin" => due = {}
    /\ (push \in {"get", "send"} /\ due # {}) =>
         buf.fill > 0 /\ Oldest(buf) = Min(due)
    /\ (push = "release" /\ due # {}) => Min(due) \in delivered

SteadyInv == RoomInv /\ OrderInv /\ AllInv /\ FifoDue

(***************************************************************************)
(* The oldest value is the first, and the least.                           *)
(***************************************************************************)
LEMMA OldestFirst ==
  ASSUME BaseInv, buf.fill > 0
  PROVE  Oldest(buf) = Stored(buf)[1] /\ Oldest(buf) \in Range(Stored(buf))
<1>. USE BaseFacts DEF BaseInv
<1>1. Head(Stored(buf)) = Oldest(buf) /\ Stored(buf) # << >>
  BY StoredTail
<1>2. Head(Stored(buf)) = Stored(buf)[1]
  BY <1>1
<1>. QED BY <1>1, <1>2

LEMMA OldestLeast ==
  ASSUME BaseInv, OrderInv, Range(Stored(buf)) # {}
  PROVE  buf.fill > 0 /\ Oldest(buf) = Min(Range(Stored(buf)))
<1>. USE BaseFacts DEF BaseInv
<1>1. buf.fill > 0
  OBVIOUS
<1>2. Oldest(buf) = Stored(buf)[1] /\ Oldest(buf) \in Range(Stored(buf))
  BY <1>1, OldestFirst
<1>3. \A k \in 1 .. buf.fill : Stored(buf)[1] <= Stored(buf)[k]
  <2>. TAKE k \in 1 .. buf.fill
  <2>1. CASE k = 1
    BY <2>1
  <2>2. CASE k # 1
    BY <1>1, <2>2, SMTT(40) DEF OrderInv
  <2>. QED BY <2>1, <2>2
<1>4. \A x \in Range(Stored(buf)) : Oldest(buf) <= x
  BY <1>2, <1>3
<1>5. \A x \in Range(Stored(buf)) : x \in Int
  OBVIOUS
<1>6. \A m \in Range(Stored(buf)) :
        (\A y \in Range(Stored(buf)) : m <= y) => m = Oldest(buf)
  BY <1>2, <1>4, <1>5
<1>. QED BY <1>1, <1>2, <1>4, <1>6 DEF Min

(***************************************************************************)
(* A write adds its value to what was accepted and to what is stored.      *)
(***************************************************************************)
LEMMA StoringRanges ==
  ASSUME BaseInv, RoomInv, Storing
  PROVE  \/ Range(accepted') = Range(accepted) /\ Range(Stored(buf')) = Range(Stored(buf))
         \/ /\ Range(accepted') = Range(accepted) \cup {sent}
            /\ Range(Stored(buf')) = Range(Stored(buf)) \cup {sent}
<1>. USE BaseFacts DEF BaseInv
<1>1. CASE AdvanceWptr
  <2>1. Stored(buf') = Append(Stored(buf), sent) /\ sent \in Data
    BY <1>1, StoringStored
  <2>2. Range(Stored(buf')) = Range(Stored(buf)) \cup {sent}
    BY <2>1, RangeAppended
  <2>3. accepted' = Append(accepted, sent) /\ accepted \in Seq(Values) /\ sent \in Values
    BY <1>1 DEF AdvanceWptr, TypeOK, PushInv, Pending, Values
  <2>4. Range(accepted') = Range(accepted) \cup {sent}
    BY <2>3, RangeAppended
  <2>. QED BY <2>2, <2>4
<1>2. CASE ~ AdvanceWptr
  <2>1. UNCHANGED accepted
    BY <1>2 DEF Storing, Write, Check, TestRoom, Put, SignalTask, ResumeOrNot,
                historyVars
  <2>2. Stored(buf') = Stored(buf)
    BY <1>2, StoringStored
  <2>. QED BY <2>1, <2>2
<1>. QED BY <1>1, <1>2

LEMMA StoringSteady ==
  ASSUME BaseInv, SteadyInv, Storing, UNCHANGED setup
  PROVE  SteadyInv'
<1>. USE BaseFacts DEF BaseInv, SteadyInv
<1>1. UNCHANGED <<push, delivered, due, m_pushPolicy>>
  BY DEF Storing, Write, Check, TestRoom, Put, AdvanceWptr, SignalTask,
         ResumeOrNot, historyVars, pushVars, setup
<1>2. RoomInv' /\ OrderInv'
  BY StoringOrder
<1>3. buf.fill > 0 => buf'.fill > 0 /\ Oldest(buf') = Oldest(buf)
  BY StoringStored
<1>4. AllInv'
  BY <1>1, <1>3, StoringRanges DEF AllInv
<1>5. FifoDue'
  BY <1>1, <1>3 DEF FifoDue
<1>. QED BY <1>2, <1>4, <1>5

(***************************************************************************)
(* Releasing takes the oldest value only.                                  *)
(***************************************************************************)
LEMMA ReleasedRange ==
  ASSUME BaseInv, buf.fill > 0, buf' = RptrAdvanced(buf, 1)
  PROVE  Range(Stored(buf)) \subseteq {Oldest(buf)} \cup Range(Stored(buf'))
<1>. USE BaseFacts DEF BaseInv
<1>1. /\ buf'.fill = buf.fill - 1
      /\ \A k \in 1 .. buf.fill - 1 : Stored(buf')[k] = Stored(buf)[k + 1]
  BY StoredSkipped, SMTT(40)
<1>2. buf' \in Buffers(Data)
  BY RptrAdvancedOK
<1>3. Stored(buf') \in Seq(Data) /\ Len(Stored(buf')) = buf'.fill
  BY <1>2, StoredIsSeq
<1>4. DOMAIN Stored(buf') = 1 .. buf.fill - 1
  BY <1>1, <1>3
<1>5. \A k \in 1 .. buf.fill - 1 : Stored(buf')[k] \in Range(Stored(buf'))
  BY <1>4 DEF Range
<1>6. ASSUME NEW k \in 1 .. buf.fill
      PROVE  Stored(buf)[k] \in {Oldest(buf)} \cup Range(Stored(buf'))
  <2>1. CASE k = 1
    BY <2>1, OldestFirst
  <2>2. CASE k # 1
    <3>1. k - 1 \in 1 .. buf.fill - 1 /\ (k - 1) + 1 = k
      BY <2>2
    <3>. QED BY <1>1, <1>5, <3>1
  <2>. QED BY <2>1, <2>2
<1>. QED BY <1>6

LEMMA PushingAll ==
  ASSUME BaseInv, SteadyInv, Pushing, UNCHANGED setup, m_pushPolicy = "all"
  PROVE  AllInv'
<1>. USE BaseFacts DEF BaseInv, SteadyInv
<1>1. UNCHANGED accepted
  BY DEF Pushing, SvcStep, ReturnEmpty, DrainCounted, BeginAll, BeginFifo,
         BeginNew, BeginSkip, SkipOlder, NextSkip, Get, SendOk, SendFails,
         Release, Drain, Discard, PushGoesTo, Finish
<1>2. CASE BeginAll
  BY <1>1, <1>2 DEF BeginAll, Finish, PushGoesTo, Look, AllInv, Empty
<1>3. CASE Get
  BY <1>1, <1>3 DEF Get, PushGoesTo, AllInv, At
<1>4. CASE SendOk
  <2>1. /\ delivered' = delivered \cup {Oldest(buf)} /\ push' = "release"
        /\ UNCHANGED <<buf, due>> /\ buf.fill > 0
    BY <1>4 DEF SendOk, PushGoesTo, At, PushInv, AllInv, Oldest
  <2>. QED BY <1>1, <2>1 DEF AllInv
<1>5. CASE \E ret \in Failures : SendFails(ret)
  BY <1>1, <1>5 DEF SendFails, Finish, AllInv
<1>6. CASE Release
  <2>1. /\ buf' = RptrAdvanced(buf, 1) /\ push' = "begin"
        /\ UNCHANGED <<due, delivered>>
        /\ buf.fill > 0 /\ Oldest(buf) \in delivered
    BY <1>6 DEF Release, PushGoesTo, At, AllInv
  <2>2. Range(Stored(buf)) \subseteq {Oldest(buf)} \cup Range(Stored(buf'))
    BY <2>1, ReleasedRange
  <2>. QED BY <1>1, <2>1, <2>2 DEF AllInv
<1>7. CASE ReturnEmpty
  BY <1>1, <1>7 DEF ReturnEmpty, Finish, AllInv
<1>8. /\ ~ BeginFifo /\ ~ BeginNew /\ ~ BeginSkip /\ ~ SkipOlder /\ ~ NextSkip
      /\ ~ Drain /\ ~ Discard /\ ~ DrainCounted
  BY DEF BeginFifo, BeginNew, BeginSkip, SkipOlder, NextSkip, Drain, Discard,
         DrainCounted, At, PushInv
<1>. QED BY <1>2, <1>3, <1>4, <1>5, <1>6, <1>7, <1>8 DEF Pushing, SvcStep

LEMMA PushingFifo ==
  ASSUME BaseInv, SteadyInv, Pushing, UNCHANGED setup, m_pushPolicy = "fifo"
  PROVE  FifoDue'
<1>. USE DEF BaseInv, SteadyInv
<1>1. CASE BeginFifo
  <2>1. push' = "get" /\ due' = Range(Stored(buf)) /\ UNCHANGED buf
    BY <1>1 DEF BeginFifo, PushGoesTo, Look, FifoDue, At
  <2>. QED BY <2>1, OldestLeast DEF FifoDue
<1>2. CASE Get
  BY <1>2 DEF Get, PushGoesTo, FifoDue, At
<1>3. CASE SendOk
  <2>1. /\ delivered' = delivered \cup {Oldest(buf)} /\ push' = "release"
        /\ UNCHANGED due /\ (due # {} => Oldest(buf) = Min(due))
    BY <1>3 DEF SendOk, PushGoesTo, At, PushInv, FifoDue, Oldest
  <2>. QED BY <2>1 DEF FifoDue
<1>4. CASE push' = "begin" /\ due' = {}
  BY <1>4 DEF FifoDue
<1>5. /\ ~ BeginAll /\ ~ BeginNew /\ ~ BeginSkip /\ ~ SkipOlder /\ ~ NextSkip
      /\ ~ Drain /\ ~ Discard /\ ~ DrainCounted
  BY DEF BeginAll, BeginNew, BeginSkip, SkipOlder, NextSkip, Drain, Discard,
         DrainCounted, At, PushInv
<1>. QED BY <1>1, <1>2, <1>3, <1>4, <1>5
         DEF Pushing, SvcStep, SendFails, Release, ReturnEmpty, Finish

LEMMA PushingSteady ==
  ASSUME BaseInv, Steady, SteadyInv, Pushing, UNCHANGED setup,
         DrainCounted => readable \in 0 .. buf.fill
  PROVE  SteadyInv'
<1>1. UNCHANGED writerVars
  BY DEF Pushing, SvcStep, ReturnEmpty, DrainCounted, BeginAll, BeginFifo,
         BeginNew, BeginSkip, SkipOlder, NextSkip, Get, SendOk, SendFails,
         Release, Drain, Discard, PushGoesTo, Finish
<1>2. RoomInv' /\ OrderInv'
  BY <1>1, PushingConsumes, ConsumedOrder DEF SteadyInv
<1>3. AllInv'
  BY PushingAll DEF AllInv, setup
<1>4. FifoDue'
  BY PushingFifo DEF FifoDue, setup
<1>. QED BY <1>2, <1>3, <1>4 DEF SteadyInv

LEMMA CallingSteady ==
  ASSUME SteadyInv, Calling
  PROVE  SteadyInv'
<1>1. UNCHANGED <<m_pushPolicy, wpc, sent, buf, accepted, delivered, due, push>>
  BY DEF Calling, setup, writerVars, pushVars, historyVars
<1>. QED BY <1>1 DEF SteadyInv, RoomInv, OrderInv, AllInv, FifoDue, Earlier, Pending

-----------------------------------------------------------------------------
(* What was sent is older than what is still to be sent *)

(***************************************************************************)
(* The oldest value stored is the one that was just sent.                  *)
(***************************************************************************)
OldestSent ==
  \/ push = "release"
  \/ /\ m_pushPolicy = "skip" /\ push \in {"next", "drain", "discard"}
     /\ skip.post = SkipCount + 1

SentInv ==
  /\ \A v \in delivered : Earlier(v)
  /\ \A v \in delivered, k \in 1 .. buf.fill :
       k > 1 \/ ~ OldestSent => v < Stored(buf)[k]
  /\ push \in {"get", "send"} \/ OldestSent => buf.fill > 0
  /\ push = "discard" /\ OldestSent => count > 0

(***************************************************************************)
(* "all" and "skip" look before they send; so does "fifo" when it is       *)
(* pushed by the publisher "periodic".                                     *)
(***************************************************************************)
LooksUnder(fifoLooks) == LooksFirst \/ (fifoLooks /\ m_pushPolicy = "fifo")

LEMMA StoringSent ==
  ASSUME BaseInv, RoomInv, SentInv, Storing, UNCHANGED setup
  PROVE  SentInv'
<1>. USE BaseFacts DEF BaseInv
<1>1. UNCHANGED <<push, delivered, skip, count, m_pushPolicy>>
  BY DEF Storing, Write, Check, TestRoom, Put, AdvanceWptr, SignalTask,
         ResumeOrNot, historyVars, pushVars, setup
<1>2. OldestSent' <=> OldestSent
  BY <1>1 DEF OldestSent
<1>3. delivered \subseteq Int /\ buf.fill \in Nat
  BY LengthAssumption DEF TypeOK, Values, Blank
<1>4. \A v \in delivered : v <= sent' /\ (Pending' => v < sent')
  <2>1. ASSUME NEW v \in Int, Earlier(v) PROVE Earlier(v)'
    BY <2>1, EarlierKept
  <2>. QED BY <1>3, <2>1 DEF SentInv, Earlier
<1>5. buf'.fill \in Nat /\ buf'.fill >= buf.fill
  BY <1>3, StoringStored
<1>6. ASSUME NEW v \in delivered, NEW k \in 1 .. buf'.fill, k > 1 \/ ~ OldestSent
      PROVE  v < Stored(buf')[k]
  <2>1. CASE ~ AdvanceWptr
    BY <1>6, <2>1, StoringStored DEF SentInv
  <2>2. CASE AdvanceWptr
    <3>1. /\ Stored(buf') = Append(Stored(buf), sent)
          /\ buf'.fill = buf.fill + 1 /\ sent \in Data
      BY <2>2, StoringStored
    <3>2. Stored(buf')[k] = IF k = buf.fill + 1 THEN sent ELSE Stored(buf)[k]
      BY <3>1, AppendedAt
    <3>3. v < sent
      BY <2>2 DEF AdvanceWptr, SentInv, Earlier, Pending
    <3>4. k # buf.fill + 1 => k \in 1 .. buf.fill
      BY <1>3, <3>1, SMTT(40)
    <3>. QED BY <1>6, <3>2, <3>3, <3>4 DEF SentInv
  <2>. QED BY <2>1, <2>2
<1>7. \A v \in delivered, k \in 1 .. buf'.fill :
        k > 1 \/ ~ OldestSent => v < Stored(buf')[k]
  BY <1>6
<1>8. (push \in {"get", "send"} \/ OldestSent) => buf'.fill > 0
  BY <1>3, <1>5 DEF SentInv
<1>. QED BY <1>1, <1>2, <1>4, <1>7, <1>8 DEF SentInv, Earlier

(***************************************************************************)
(* A step that takes n of the oldest values, one at least if the oldest    *)
(* was sent, after which it is not.                                        *)
(***************************************************************************)
LEMMA TakenSent ==
  ASSUME BaseInv, SentInv, NEW n \in 0 .. buf.fill, buf' = RptrAdvanced(buf, n),
         OldestSent => n > 0, ~ OldestSent',
         UNCHANGED <<writerVars, delivered>>,
         push' \in {"get", "send"} => n < buf.fill
  PROVE  SentInv'
<1>. USE BaseFacts DEF BaseInv
<1>1. /\ buf'.fill = buf.fill - n
      /\ \A k \in 1 .. buf.fill - n : Stored(buf')[k] = Stored(buf)[k + n]
  BY StoredSkipped
<1>2. ASSUME NEW v \in delivered, NEW k \in 1 .. buf.fill - n
      PROVE  v < Stored(buf')[k]
  <2>1. k + n \in 1 .. buf.fill /\ (k + n > 1 \/ ~ OldestSent)
    BY SMTT(40)
  <2>. QED BY <1>1, <2>1 DEF SentInv
<1>3. \A v \in delivered : Earlier(v)'
  BY DEF SentInv, Earlier, Pending, writerVars
<1>4. \A v \in delivered', k \in 1 .. buf'.fill : v < Stored(buf')[k]
  BY <1>1, <1>2
<1>5. push' \in {"get", "send"} => buf'.fill > 0
  BY <1>1
<1>. QED BY <1>3, <1>4, <1>5 DEF SentInv, Earlier

LEMMA PushingSent ==
  ASSUME BaseInv, SteadyInv, SentInv, Pushing, UNCHANGED setup,
         NEW fifoLooks \in BOOLEAN, LooksUnder(fifoLooks),
         fifoLooks /\ BeginFifo => buf.fill > 0,
         DrainCounted => /\ readable \in 0 .. buf.fill
                         /\ OldestSent => readable > 0
  PROVE  SentInv'
<1>. USE BaseFacts DEF BaseInv, SteadyInv
<1>1. UNCHANGED <<writerVars, m_pushPolicy>>
  BY DEF Pushing, SvcStep, ReturnEmpty, DrainCounted, BeginAll, BeginFifo,
         BeginNew, BeginSkip, SkipOlder, NextSkip, Get, SendOk, SendFails,
         Release, Drain, Discard, PushGoesTo, Finish, setup
<1>2. Steady /\ m_pushPolicy \in {"all", "fifo", "skip"}
  BY DEF Steady, LooksUnder, LooksFirst
<1>3. buf.fill \in Nat /\ SkipCount \in Nat
  BY LengthAssumption
<1>4. \A v \in delivered : Earlier(v)'
  BY <1>1 DEF SentInv, Earlier, Pending, writerVars
<1>5. ASSUME UNCHANGED <<buf, delivered>>, OldestSent' <=> OldestSent,
             push' \in {"get", "send"} => buf.fill > 0,
             push' = "discard" /\ OldestSent' => count' > 0
      PROVE  SentInv'
  BY <1>4, <1>5 DEF SentInv, Earlier
<1>6. CASE BeginAll \/ BeginFifo
  <2>1. ~ OldestSent /\ ~ OldestSent' /\ UNCHANGED <<buf, delivered>>
        /\ push' # "discard"
    BY <1>6 DEF BeginAll, BeginFifo, OldestSent, At, PushGoesTo, Finish
  <2>2. push' \in {"get", "send"} => buf.fill > 0
    BY <1>3, <1>6
       DEF BeginAll, BeginFifo, Finish, Empty, LooksUnder, LooksFirst
  <2>. QED BY <1>5, <2>1, <2>2
<1>7. CASE BeginSkip
  <2>1. skip'.post = SkipCount - m_leftskip /\ m_leftskip \in 0 .. SkipCount
    BY <1>7 DEF BeginSkip, TypeOK
  <2>2. ~ OldestSent' /\ ~ OldestSent
    BY <1>3, <1>7, <2>1 DEF BeginSkip, PushGoesTo, OldestSent, At
  <2>. QED BY <1>5, <1>7, <2>2 DEF BeginSkip, PushGoesTo
<1>8. CASE NextSkip
  <2>1. CASE skip.left > 0
    <3>1. /\ skip.post \in 0 .. buf.fill - 1
          /\ buf' = RptrAdvanced(buf, skip.post)
      BY <1>8, <2>1, NextFits
    <3>2. push' = "get" /\ UNCHANGED <<writerVars, delivered>>
      BY <1>8, <2>1 DEF NextSkip, PushGoesTo
    <3>3. OldestSent => skip.post > 0
      BY <1>3, <1>8 DEF NextSkip, At, OldestSent
    <3>4. ~ OldestSent'
      BY <3>2 DEF OldestSent
    <3>5. skip.post \in 0 .. buf.fill /\ skip.post < buf.fill
      BY <1>3, <3>1
    <3>. QED BY <3>1, <3>2, <3>3, <3>4, <3>5, TakenSent
  <2>2. CASE ~ skip.left > 0
    <3>1. push' = "drain" /\ UNCHANGED <<buf, delivered, skip>> /\ push = "next"
      BY <1>8, <2>2 DEF NextSkip, PushGoesTo, At
    <3>2. OldestSent' <=> OldestSent
      BY <1>1, <3>1 DEF OldestSent
    <3>. QED BY <1>5, <3>1, <3>2
  <2>. QED BY <2>1, <2>2
<1>9. CASE Get
  BY <1>5, <1>9 DEF Get, PushGoesTo, At, OldestSent, SentInv
<1>10. CASE SendOk
  <2>1. /\ push = "send" /\ buf.fill > 0 /\ ~ OldestSent
        /\ delivered' = delivered \cup {Oldest(buf)} /\ UNCHANGED buf
        /\ push' \in {"release", "next"} /\ OldestSent'
    BY <1>1, <1>10
       DEF SendOk, PushGoesTo, At, PushInv, SentInv, Oldest, OldestSent,
                  TypeOK
  <2>2. Oldest(buf) = Stored(buf)[1]
    BY <2>1, OldestFirst
  <2>3. Earlier(Stored(buf)[1])'
    <3>1. Earlier(Stored(buf)[1])
      BY <2>1, <1>3 DEF OrderInv
    <3>. QED BY <1>1, <2>1, <3>1 DEF Earlier, Pending, writerVars
  <2>4. \A v \in delivered' : Earlier(v)'
    BY <1>4, <2>1, <2>2, <2>3 DEF Earlier
  <2>5. ASSUME NEW v \in delivered', NEW k \in 1 .. buf.fill, k > 1
        PROVE  v < Stored(buf)[k]
    <3>1. CASE v \in delivered
      BY <2>1, <2>5, <3>1 DEF SentInv
    <3>2. CASE v = Stored(buf)[1]
      BY <1>3, <2>1, <2>5, <3>2 DEF OrderInv
    <3>. QED BY <2>1, <2>2, <3>1, <3>2
  <2>. QED BY <2>1, <2>4, <2>5 DEF SentInv, Earlier
<1>11. CASE \E ret \in Failures : SendFails(ret)
  <2>1. push' = "begin" /\ push = "send" /\ UNCHANGED <<buf, delivered>>
    BY <1>2, <1>11 DEF SendFails, Finish, At, Steady
  <2>2. ~ OldestSent /\ ~ OldestSent'
    BY <2>1 DEF OldestSent
  <2>. QED BY <1>5, <2>1, <2>2
<1>12. CASE Release
  <2>1. /\ push = "release" /\ push' = "begin" /\ buf' = RptrAdvanced(buf, 1)
        /\ UNCHANGED delivered
    BY <1>12 DEF Release, At, PushGoesTo, Finish
  <2>2. buf.fill > 0 /\ ~ OldestSent'
    BY <2>1 DEF OldestSent, SentInv
  <2>3. 1 \in 0 .. buf.fill
    BY <1>3, <2>2
  <2>. QED BY <1>1, <2>1, <2>2, <2>3, TakenSent
<1>13. CASE Drain
  <2>1. /\ push = "drain" /\ push' = "discard" /\ count' = buf.fill
        /\ UNCHANGED <<buf, delivered, skip>>
    BY <1>13 DEF Drain, At, PushGoesTo
  <2>2. OldestSent' <=> OldestSent
    BY <1>1, <2>1 DEF OldestSent
  <2>3. OldestSent' => count' > 0
    BY <2>1, <2>2 DEF SentInv
  <2>. QED BY <1>5, <2>1, <2>2, <2>3
<1>14. CASE Discard
  <2>1. /\ push = "discard" /\ push' = "begin" /\ buf' = RptrAdvanced(buf, count)
        /\ UNCHANGED delivered
    BY <1>14 DEF Discard, At, Finish
  <2>2. count \in 0 .. buf.fill /\ (OldestSent => count > 0)
    BY <2>1 DEF PushInv, SkipInv, SentInv
  <2>3. ~ OldestSent'
    BY <2>1 DEF OldestSent
  <2>. QED BY <1>1, <2>1, <2>2, <2>3, TakenSent
<1>15. CASE DrainCounted
  <2>1. /\ push' = "begin" /\ buf' = RptrAdvanced(buf, readable)
        /\ UNCHANGED delivered
    BY <1>15 DEF DrainCounted, Finish
  <2>2. ~ OldestSent'
    BY <2>1 DEF OldestSent
  <2>. QED BY <1>1, <1>15, <2>1, <2>2, TakenSent
<1>16. CASE ReturnEmpty
  BY <1>5, <1>16 DEF ReturnEmpty, Finish, At, OldestSent
<1>17. ~ BeginNew /\ ~ SkipOlder
  BY <1>2 DEF BeginNew, SkipOlder, At, PushInv
<1>. QED BY <1>6, <1>7, <1>8, <1>9, <1>10, <1>11, <1>12, <1>13, <1>14, <1>15,
            <1>16, <1>17 DEF Pushing, SvcStep

LEMMA CallingSent ==
  ASSUME SentInv, Calling
  PROVE  SentInv'
<1>1. UNCHANGED <<m_pushPolicy, wpc, sent, buf, delivered, push, skip, count>>
  BY DEF Calling, setup, writerVars, pushVars, historyVars
<1>. QED BY <1>1 DEF SentInv, OldestSent, Earlier, Pending

-----------------------------------------------------------------------------
(* The publisher "new" *)

PushedInv ==
  /\ BaseInv
  /\ Steady => SteadyInv
  /\ LooksFirst => SentInv

LEMMA InitBase ==
  ASSUME Init
  PROVE  BaseInv /\ SteadyInv /\ SentInv
<1>. USE PublisherAssumption, LengthAssumption
<1>1. buf \in Buffers(Data) /\ Consistent(buf) /\ buf.fill = 0
  <2>1. buf = Fresh(Blank) /\ Blank \in Data
    BY DEF Init, Data
  <2>2. buf \in Buffers(Data) /\ Consistent(buf)
    BY <2>1, FreshOK
  <2>. QED BY <2>1, <2>2 DEF Fresh
<1>2. TypeOK
  <2>1. setup \in Setups
    BY DEF Init, setup
  <2>2. TaskTypeOK
    BY DEF Init, TaskInit, TaskTypeOK
  <2>3. skip \in [pre : Nat, loops : Nat, left : Nat, post : Nat]
    BY DEF Init, NoSkip
  <2>4. accepted \in Seq(Values)
    BY DEF Init
  <2>. QED BY <1>1, <2>1, <2>2, <2>3, <2>4 DEF Init, TypeOK, Codes, Data
<1>3. PushInv /\ SkipInv
  BY DEF Init, PushInv, SkipInv, Pending
<1>4. BaseInv
  BY <1>1, <1>2, <1>3 DEF BaseInv
<1>5. RoomInv /\ OrderInv
  BY <1>1 DEF Init, RoomInv, OrderInv
<1>6. Range(accepted) = {}
  BY DEF Init, Range
<1>7. AllInv /\ FifoDue
  BY <1>6 DEF Init, AllInv, FifoDue
<1>8. SentInv
  BY DEF Init, SentInv, OldestSent
<1>. QED BY <1>4, <1>5, <1>7, <1>8 DEF SteadyInv

LEMMA PushedStep ==
  ASSUME PushedInv, [Next]_vars
  PROVE  PushedInv'
<1>1. CASE WriterStep
  <2>1. Storing /\ UNCHANGED setup
    BY <1>1 DEF WriterStep, Storing
  <2>2. BaseInv'
    BY <2>1, StoringTypes DEF PushedInv
  <2>3. Steady' => SteadyInv'
    BY <2>1, StoringSteady DEF PushedInv, Steady, setup
  <2>4. LooksFirst' => SentInv'
    BY <2>1, StoringSent DEF PushedInv, SteadyInv, Steady, LooksFirst, setup
  <2>. QED BY <2>2, <2>3, <2>4 DEF PushedInv
<1>2. CASE SvcStep /\ UNCHANGED setup
  <2>1. Pushing /\ ~ DrainCounted
    <3>1. ~ DrainCounted
      BY <1>2
         DEF SvcStep, DrainCounted, BeginAll, BeginFifo, BeginNew, BeginSkip,
                  SkipOlder, NextSkip, Get, SendOk, SendFails, Release, Drain,
                  Discard, At, PushGoesTo, Finish
    <3>. QED BY <1>2, <3>1 DEF Pushing
  <2>2. BaseInv'
    BY <1>2, <2>1, PushingBase DEF PushedInv
  <2>3. Steady' => SteadyInv'
    BY <1>2, <2>1, PushingSteady DEF PushedInv, Steady, setup
  <2>4. LooksFirst' => SentInv'
    <3>1. SUFFICES ASSUME LooksFirst PROVE SentInv'
      BY <1>2 DEF LooksFirst, setup
    <3>2. SteadyInv /\ SentInv /\ BaseInv
      BY <3>1 DEF PushedInv, Steady, LooksFirst
    <3>3. LooksUnder(FALSE) /\ FALSE \in BOOLEAN
      BY <3>1 DEF LooksUnder
    <3>. QED BY <1>2, <2>1, <3>2, <3>3, PushingSent
  <2>. QED BY <2>2, <2>3, <2>4 DEF PushedInv
<1>3. ASSUME Calling, TaskTypeOK', deletion' \in {"no", "resumed", "finalized"}
      PROVE  PushedInv'
  <2>1. BaseInv'
    BY <1>3, CallingBase DEF PushedInv
  <2>2. Steady' => SteadyInv'
    BY <1>3, CallingSteady DEF PushedInv, Steady, Calling, setup
  <2>3. LooksFirst' => SentInv'
    BY <1>3, CallingSent DEF PushedInv, LooksFirst, Calling, setup
  <2>. QED BY <2>1, <2>2, <2>3 DEF PushedInv
<1>4. CASE TaskStep /\ UNCHANGED <<setup, buf, writerVars, pushVars, deletion, historyVars>>
  <2>1. TaskTypeOK'
    BY <1>4, TaskKept DEF PushedInv, BaseInv, TypeOK
  <2>2. Calling /\ deletion' \in {"no", "resumed", "finalized"}
    BY <1>4 DEF Calling, PushedInv, BaseInv, TypeOK
  <2>. QED BY <1>3, <2>1, <2>2
<1>5. CASE ResumeTask \/ FinalizeTask
  <2>1. TaskTypeOK'
    BY <1>5, TaskKept DEF ResumeTask, FinalizeTask, PushedInv, BaseInv, TypeOK
  <2>2. Calling /\ deletion' \in {"no", "resumed", "finalized"}
    BY <1>5 DEF ResumeTask, FinalizeTask, Calling
  <2>. QED BY <1>3, <2>1, <2>2
<1>6. CASE UNCHANGED vars
  <2>1. TaskTypeOK'
    BY <1>6, TaskKept DEF vars, PushedInv, BaseInv, TypeOK
  <2>2. Calling /\ deletion' \in {"no", "resumed", "finalized"}
    BY <1>6 DEF vars, Calling, PushedInv, BaseInv, TypeOK
  <2>. QED BY <1>3, <2>1, <2>2
<1>. QED BY <1>1, <1>2, <1>4, <1>5, <1>6 DEF Next, ThreadStep

LEMMA PushedAlways == Spec => []PushedInv
<1>1. Init => PushedInv
  BY InitBase DEF PushedInv
<1>2. PushedInv /\ [Next]_vars => PushedInv'
  BY PushedStep
<1>. QED BY <1>1, <1>2, PTL DEF Spec

(***************************************************************************)
(* Types: also that no local of a push leaves its range, as the number of  *)
(* rounds left, which is decremented, and the number of values to skip.    *)
(***************************************************************************)
THEOREM PublisherTypes == Spec => []TypeOK
<1>1. PushedInv => TypeOK
  BY DEF PushedInv, BaseInv
<1>. QED BY <1>1, PushedAlways, PTL

(***************************************************************************)
(* Under "all" no value for which write found room is lost, whatever the   *)
(* consumer answers and whenever the thread is woken.                      *)
(***************************************************************************)
THEOREM AllAreKept == Spec => []NothingLost
<1>1. PushedInv => NothingLost
  BY DEF PushedInv, Steady, SteadyInv, AllInv, NothingLost
<1>. QED BY <1>1, PushedAlways, PTL

(***************************************************************************)
(* What is sent next is younger than all that was sent.                    *)
(***************************************************************************)
LEMMA SentNext ==
  ASSUME BaseInv, SentInv, SendOk
  PROVE  \A v \in delivered : v < buf.data[slot]
<1>1. push = "send" /\ slot = buf.rpos
  BY DEF SendOk, At, BaseInv, PushInv
<1>2. buf.fill > 0 /\ ~ OldestSent
  BY <1>1 DEF SentInv, OldestSent
<1>3. Oldest(buf) = Stored(buf)[1] /\ buf.data[slot] = Oldest(buf)
  BY <1>1, <1>2, OldestFirst DEF Oldest
<1>4. 1 \in 1 .. buf.fill
  BY <1>2, BaseFacts, LengthAssumption DEF BaseInv
<1>. QED BY <1>2, <1>3, <1>4 DEF SentInv

(***************************************************************************)
(* Policies that look first send a value once, and in the order in which   *)
(* the values were written.                                                *)
(***************************************************************************)
THEOREM OnceAndInOrder == Spec => SentInOrder
<1>1. PushedInv /\ [Next]_vars =>
        [LooksFirst /\ SendOk => \A v \in delivered : v < buf.data[slot]]_vars
  BY SentNext DEF PushedInv
<1>. QED BY <1>1, PushedAlways, PTL DEF Spec, SentInOrder

(***************************************************************************)
(* A push that reports PORT_OK has sent everything that it found ("all")   *)
(* or the oldest of it ("fifo").                                           *)
(***************************************************************************)
THEOREM PushServes == Spec => PushKeepsUp
<1>. DEFINE P == (task = "work" /\ task' = "loop" /\ m_retcode' = "PORT_OK")
                   => Served(delivered')
<1>1. ASSUME PushedInv, [Next]_vars PROVE P
  <2>1. SUFFICES ASSUME task = "work", task' = "loop", m_retcode' = "PORT_OK"
                 PROVE  Served(delivered')
    OBVIOUS
  <2>2. SvcStep
    BY <1>1, <2>1 DEF Next, WriterStep, Write, Check, TestRoom, Put,
       AdvanceWptr, SignalTask, Signal, Notified, ThreadStep, TaskStep,
       TestAlive, TestSuspended, WakeUp, ResumeTask, FinalizeTask, Resume,
       Finalize, vars, taskVars
  <2>3. CASE m_pushPolicy = "all"
    <3>1. due \subseteq delivered \cup Range(Stored(buf))
      BY <1>1, <2>3 DEF PushedInv, Steady, SteadyInv, AllInv
    <3>2. BeginAll /\ Empty(buf)
      <4>1. ~ \E ret \in Failures : SendFails(ret)
        BY <2>1, PublisherAssumption DEF SendFails, Finish
      <4>. QED BY <1>1, <2>1, <2>2, <2>3, <4>1
               DEF SvcStep, BeginAll, BeginFifo, BeginNew, BeginSkip,
                   SkipOlder,
                   NextSkip, Get, SendOk, Release, Drain, Discard, PushGoesTo,
                   At, PushedInv, BaseInv, PushInv, taskVars
    <3>3. Range(Stored(buf)) = {} /\ UNCHANGED delivered
      BY <1>1, <3>2, BaseFacts DEF PushedInv, BaseInv, Empty, BeginAll
    <3>. QED BY <2>3, <3>1, <3>3 DEF Served
  <2>4. CASE m_pushPolicy = "fifo"
    <3>1. push = "release" /\ UNCHANGED delivered
      <4>1. ~ \E ret \in Failures : SendFails(ret)
        BY <2>1, PublisherAssumption DEF SendFails, Finish
      <4>. QED BY <1>1, <2>1, <2>2, <2>4, <4>1
               DEF SvcStep, BeginAll, BeginFifo, BeginNew, BeginSkip,
                   SkipOlder,
                   NextSkip, Get, SendOk, Release, Drain, Discard, PushGoesTo,
                   At, PushedInv, BaseInv, PushInv, taskVars
    <3>2. due # {} => Min(due) \in delivered
      BY <1>1, <2>4, <3>1 DEF PushedInv, Steady, SteadyInv, FifoDue
    <3>. QED BY <2>4, <3>1, <3>2 DEF Served
  <2>5. CASE m_pushPolicy \notin {"all", "fifo"}
    BY <2>5 DEF Served
  <2>. QED BY <2>3, <2>4, <2>5
<1>2. PushedInv /\ [Next]_vars => [P]_vars
  BY <1>1
<1>. QED BY <1>2, PushedAlways, PTL DEF Spec, PushKeepsUp

(***************************************************************************)
(* The slot that a put reads is not written meanwhile: a write needs room, *)
(* and the value that is being put still takes its place.                  *)
(***************************************************************************)
THEOREM SlotIsKept == Spec => BorrowedSlotKept
<1>. DEFINE P == (LooksFirst /\ slot # NoSlot /\ slot' = slot)
                   => buf'.data[slot] = buf.data[slot]
<1>1. ASSUME PushedInv, [Next]_vars PROVE P
  <2>1. SUFFICES ASSUME LooksFirst, slot # NoSlot
                 PROVE  buf'.data[slot] = buf.data[slot]
    OBVIOUS
  <2>2. BaseInv /\ SteadyInv /\ SentInv
    BY <1>1, <2>1 DEF PushedInv, Steady, LooksFirst
  <2>3. /\ push \in {"send", "release"} /\ slot = buf.rpos
        /\ buf.fill > 0
    BY <2>1, <2>2 DEF BaseInv, PushInv, SentInv, OldestSent
  <2>4. CASE Put
    <3>1. buf' = Filled(buf, sent) /\ buf.fill < Length
      BY <2>2, <2>4 DEF Put, SteadyInv, RoomInv
    <3>2. buf.rpos # buf.wpos
      BY <2>2, <2>3, <3>1, BaseFacts, Apart DEF BaseInv
    <3>. QED BY <2>2, <2>3, <3>1, <3>2, BaseFacts DEF BaseInv, Filled, Buffers
  <2>5. CASE AdvanceWptr
    BY <2>2, <2>5, BaseFacts DEF AdvanceWptr, WptrAdvanced, BaseInv, Buffers
  <2>6. CASE SvcStep
    <3>1. buf'.data = buf.data
      BY <2>2, <2>6, PushingBuffer DEF Pushing
    <3>. QED BY <3>1
  <2>7. CASE UNCHANGED buf
    BY <2>7
  <2>. QED BY <1>1, <2>4, <2>5, <2>6, <2>7
           DEF Next, WriterStep, Write, Check, TestRoom, SignalTask,
               ThreadStep,
               ResumeTask, FinalizeTask, vars
<1>2. PushedInv /\ [Next]_vars => [P]_vars
  BY <1>1
<1>. QED BY <1>2, PushedAlways, PTL DEF Spec, BorrowedSlotKept

-----------------------------------------------------------------------------
(* The publisher "periodic" *)

(***************************************************************************)
(* "skip" counts down what it found, in place of asking the buffer again.  *)
(***************************************************************************)
CountedInv ==
  /\ readable \in 0 .. Length
  /\ m_readback => m_pushPolicy = "new"
  /\ m_pushPolicy = "skip" =>
       /\ push \in {"next", "get", "send", "drain"} => readable <= buf.fill
       /\ (push = "next" /\ skip.left > 0) =>
            readable >= skip.post + 1 + Loops(skip.left - 1)
       /\ push \in {"get", "send"} => readable >= 1 + Loops(skip.left - 1)
       /\ push \in {"next", "drain"} /\ OldestSent => readable > 0

PacedInv ==
  /\ BaseInv /\ CountedInv
  /\ Steady => SteadyInv
  /\ LooksUnder(TRUE) => SentInv

LEMMA CountedKept ==
  ASSUME BaseInv, CountedInv, UNCHANGED <<setup, pushVars, m_readback, readable>>,
         buf'.fill \in Nat, buf'.fill >= buf.fill
  PROVE  CountedInv'
<1>1. UNCHANGED <<m_pushPolicy, push, skip>>
  BY DEF setup, pushVars
<1>2. OldestSent' <=> OldestSent
  BY <1>1 DEF OldestSent
<1>3. buf.fill \in Nat /\ readable \in Nat /\ Length \in Nat
  BY BaseFacts, LengthAssumption DEF BaseInv, CountedInv
<1>4. readable <= buf.fill => readable <= buf'.fill
  BY <1>3
<1>. HIDE DEF OldestSent
<1>. QED BY <1>1, <1>2, <1>4 DEF CountedInv

LEMMA CountedPush ==
  ASSUME BaseInv, CountedInv, PeriodicPush, UNCHANGED setup
  PROVE  CountedInv' /\ Pushing
<1>. USE BaseFacts DEF BaseInv
<1>1. /\ buf.fill \in 0 .. Length /\ SkipCount \in Nat /\ Length \in Nat
      /\ m_leftskip \in 0 .. SkipCount
      /\ skip \in [pre : Nat, loops : Nat, left : Nat, post : Nat]
      /\ readable \in 0 .. Length
  BY DEF TypeOK, CountedInv
<1>2. Pushing
  BY <1>1 DEF PeriodicPush, BeginPush, SkipOne, Pushing, SvcStep
<1>3. CASE BeginPush
  <2>1. readable' = buf.fill /\ UNCHANGED buf /\ (m_readback' => m_pushPolicy = "new")
    BY <1>3 DEF BeginPush, BeginAll, BeginFifo, BeginNew, BeginSkip, CountedInv
  <2>2. CASE BeginSkip
    <3>. DEFINE pre == buf.fill + m_leftskip
               n == pre \div (SkipCount + 1)
    <3>1. pre \in Nat /\ n \in Nat /\ Loops(n) <= pre
      <4>1. pre \in Nat
        BY <1>1
      <4>. HIDE DEF pre
      <4>. QED BY <4>1, LoopsFit
    <3>2. /\ n > 0 => Loops(n) = Loops(n - 1) + SkipCount + 1 /\ Loops(n - 1) \in Nat
          /\ Loops(n) \in Nat
      BY <3>1, LoopsStep
    <3>3. /\ skip'.left = n /\ skip'.post = SkipCount - m_leftskip
          /\ push' = "next"
      BY <2>2 DEF BeginSkip, PushGoesTo
    <3>4. n > 0 => buf.fill >= skip'.post + 1 + Loops(n - 1)
      <4>1. /\ buf.fill \in Nat /\ pre = buf.fill + m_leftskip
            /\ m_leftskip \in 0 .. SkipCount
        BY <1>1
      <4>. DEFINE x == Loops(n)
                 y == Loops(n - 1)
      <4>2. SUFFICES ASSUME n > 0 PROVE buf.fill >= (SkipCount - m_leftskip) + 1 + y
        BY <3>3
      <4>3. y \in Nat /\ x = y + SkipCount + 1 /\ x <= pre
        BY <3>1, <3>2, <4>2
      <4>4. SkipCount \in Nat
        BY <1>1
      <4>. HIDE DEF n, pre, x, y
      <4>. QED BY <4>1, <4>3, <4>4
    <3>5. ~ OldestSent'
      BY <1>1, <3>3 DEF OldestSent
    <3>. HIDE DEF n
    <3>. QED BY <1>1, <1>2, <2>1, <3>3, <3>4, <3>5 DEF CountedInv, setup
  <2>3. CASE ~ BeginSkip
    <3>1. m_pushPolicy # "skip"
      BY <1>3, <2>3 DEF BeginPush, BeginAll, BeginFifo, BeginNew
    <3>. QED BY <1>1, <1>2, <2>1, <3>1 DEF CountedInv, setup
  <2>. QED BY <2>2, <2>3
<1>4. CASE SkipOne
  <2>1. m_pushPolicy = "skip" /\ push = "next" /\ NextSkip
    BY <1>4 DEF SkipOne, NextSkip, At, PushInv
  <2>2. CASE skip.left > 0
    <3>1. /\ skip.post \in 0 .. buf.fill - 1
          /\ buf'.fill = buf.fill - skip.post
      BY <2>1, <2>2, NextFits
    <3>2. readable' = readable - skip.post /\ push' = "get" /\ UNCHANGED <<skip, m_readback>>
      BY <1>4, <2>2 DEF SkipOne, NextSkip, PushGoesTo
    <3>3. Loops(skip.left - 1) \in Nat
      BY <1>1, <2>2, LoopsStep
    <3>4. /\ readable <= buf.fill
          /\ readable >= skip.post + 1 + Loops(skip.left - 1)
      BY <2>1, <2>2 DEF CountedInv
    <3>5. /\ readable' \in 0 .. Length /\ readable' <= buf'.fill
          /\ readable' >= 1 + Loops(skip.left - 1)
      <4>. DEFINE m == Loops(skip.left - 1)
      <4>1. /\ m \in Nat /\ readable >= skip.post + 1 + m /\ skip.post \in Nat
            /\ readable <= buf.fill
        BY <1>1, <3>3, <3>4
      <4>2. readable' >= 1 + m
        <5>. HIDE DEF m
        <5>. QED BY <1>1, <3>2, <4>1
      <4>3. readable' \in 0 .. Length /\ readable' <= buf'.fill
        <5>1. /\ readable' = readable - skip.post
              /\ buf'.fill = buf.fill - skip.post
          BY <3>1, <3>2
        <5>2. readable \in 0 .. Length /\ buf.fill \in 0 .. Length /\ Length \in Nat
          BY <1>1
        <5>3. /\ skip.post \in Nat /\ readable >= skip.post
              /\ readable <= buf.fill
          <6>. HIDE DEF m
          <6>. QED BY <4>1, <5>2
        <5>. QED BY <5>1, <5>2, <5>3
      <4>. QED BY <4>2, <4>3
    <3>. QED BY <1>1, <1>2, <3>2, <3>5 DEF CountedInv, setup
  <2>3. CASE ~ skip.left > 0
    <3>1. /\ UNCHANGED <<buf, readable, skip, m_readback>> /\ push' = "drain"
          /\ UNCHANGED m_pushPolicy
      BY <1>4, <2>3 DEF SkipOne, NextSkip, PushGoesTo, setup
    <3>2. OldestSent' <=> OldestSent
      BY <2>1, <3>1 DEF OldestSent
    <3>. QED BY <1>1, <1>2, <2>1, <3>1, <3>2 DEF CountedInv
  <2>. QED BY <2>2, <2>3
<1>5. CASE Get /\ UNCHANGED <<m_readback, readable>>
  BY <1>1, <1>2, <1>5 DEF Get, PushGoesTo, At, CountedInv, setup
<1>6. CASE SendOk /\ UNCHANGED <<m_readback, readable>>
  <2>1. CASE m_pushPolicy = "skip"
    <3>1. /\ skip'.left = skip.left - 1 /\ skip'.post = SkipCount + 1
          /\ push' = "next" /\ UNCHANGED buf
          /\ skip.left > 0 /\ readable >= 1 + Loops(skip.left - 1)
          /\ readable <= buf.fill
      BY <1>1, <1>6, <2>1 DEF SendOk, PushGoesTo, PushInv, CountedInv, At
    <3>2. skip.left - 1 \in Nat /\ Loops(skip.left - 1) \in Nat
      <4>. DEFINE m == skip.left - 1
      <4>1. m \in Nat
        <5>1. skip.left \in Nat /\ skip.left > 0
          BY <1>1, <3>1
        <5>. QED BY <5>1
      <4>. HIDE DEF m
      <4>2. Loops(m) \in Nat
        BY <4>1, LoopsStep
      <4>. QED BY <4>1, <4>2 DEF m
    <3>3. skip.left - 1 > 0 =>
            /\ Loops(skip.left - 1) = Loops((skip.left - 1) - 1) + SkipCount + 1
            /\ Loops((skip.left - 1) - 1) \in Nat
      BY <3>2, LoopsStep
    <3>4. skip.left - 1 > 0 =>
            readable >= skip'.post + 1 + Loops((skip.left - 1) - 1)
      <4>. DEFINE m == Loops((skip.left - 1) - 1)
      <4>1. SUFFICES ASSUME skip.left - 1 > 0
                     PROVE  readable >= SkipCount + 1 + 1 + m
        BY <3>1
      <4>2. m \in Nat /\ readable >= 1 + (m + SkipCount + 1)
        BY <3>1, <3>3, <4>1
      <4>. HIDE DEF m
      <4>. QED BY <1>1, <4>2
    <3>5. readable > 0
      <4>. DEFINE m == Loops(skip.left - 1)
      <4>1. m \in Nat /\ readable >= 1 + m
        BY <3>1, <3>2
      <4>. HIDE DEF m
      <4>. QED BY <1>1, <4>1
    <3>. QED BY <1>1, <1>2, <1>6, <3>1, <3>4, <3>5 DEF CountedInv, setup
  <2>2. CASE m_pushPolicy # "skip"
    BY <1>1, <1>2, <1>6, <2>2 DEF CountedInv, setup
  <2>. QED BY <2>1, <2>2
<1>7. CASE push' \notin {"next", "get", "send", "drain"} /\ UNCHANGED <<m_readback, readable>>
  BY <1>1, <1>2, <1>7 DEF CountedInv, setup
<1>8. CASE SkipOlder /\ UNCHANGED <<m_readback, readable>>
  BY <1>1, <1>2, <1>8 DEF SkipOlder, At, PushInv, CountedInv, setup
<1>. QED BY <1>3, <1>4, <1>5, <1>6, <1>7, <1>8
         DEF PeriodicPush, ReturnEmpty, DrainCounted, SendFails, Release,
             Finish, PushGoesTo

LEMMA PacedStep ==
  ASSUME PacedInv, [PeriodicNext]_periodicVars
  PROVE  PacedInv'
<1>. USE DEF PacedInv
<1>1. CASE PeriodicWrite
  <2>1. Storing /\ UNCHANGED <<setup, m_readback, readable>>
    BY <1>1 DEF PeriodicWrite, Storing
  <2>2. BaseInv'
    BY <2>1, StoringTypes
  <2>3. UNCHANGED pushVars
    BY <2>1 DEF Storing, Write, Check, TestRoom, Put, AdvanceWptr, SignalTask,
                ResumeOrNot
  <2>4. buf'.fill \in Nat /\ buf'.fill >= buf.fill
    <3>1. buf'.fill \in buf.fill .. Length /\ buf.fill \in Nat
      BY <2>1, StoringBuffer, BaseFacts, LengthAssumption DEF BaseInv
    <3>. QED BY <3>1
  <2>5. CountedInv'
    BY <2>1, <2>3, <2>4, CountedKept
  <2>6. Steady' => SteadyInv'
    BY <2>1, StoringSteady DEF Steady, setup
  <2>7. LooksUnder(TRUE)' => SentInv'
    BY <2>1, StoringSent DEF SteadyInv, Steady, LooksUnder, LooksFirst, setup
  <2>. QED BY <2>2, <2>5, <2>6, <2>7
<1>2. CASE PeriodicPush /\ UNCHANGED setup
  <2>1. Pushing /\ CountedInv'
    BY <1>2, CountedPush
  <2>2. BaseInv'
    BY <1>2, <2>1, PushingBase
  <2>3. DrainCounted => /\ readable \in 0 .. buf.fill
                        /\ OldestSent => readable > 0
    BY BaseFacts DEF DrainCounted, At, CountedInv, BaseInv, PushInv
  <2>4. Steady' => SteadyInv'
    BY <1>2, <2>1, <2>3, PushingSteady DEF Steady, setup
  <2>5. LooksUnder(TRUE)' => SentInv'
    <3>1. SUFFICES ASSUME LooksUnder(TRUE) PROVE SentInv'
      BY <1>2 DEF LooksUnder, LooksFirst, setup
    <3>2. SteadyInv /\ SentInv
      BY <3>1 DEF Steady, LooksUnder, LooksFirst
    <3>3. BeginFifo => buf.fill > 0
      <4>1. SUFFICES ASSUME BeginFifo PROVE ~ Empty(buf)
        BY BaseFacts, LengthAssumption DEF BaseInv, Empty
      <4>2. m_pushPolicy = "fifo" /\ At("begin") /\ ~ m_readback /\ due = {}
        BY <3>2, <4>1 DEF BeginFifo, CountedInv, SteadyInv, FifoDue, At
      <4>3. ~ NothingToSend
        BY <1>2, <4>1, <4>2 DEF PeriodicPush, ReturnEmpty, BeginPush, SkipOne,
           DrainCounted, BeginFifo, NextSkip, SkipOlder, Get, SendOk, Release,
           SendFails, At, PushGoesTo, Finish
      <4>. QED BY <4>2, <4>3 DEF NothingToSend
    <3>. QED BY <1>2, <2>1, <2>3, <3>1, <3>2, <3>3, PushingSent
  <2>. QED BY <2>1, <2>2, <2>4, <2>5
<1>3. ASSUME Calling, TaskTypeOK', deletion' \in {"no", "resumed", "finalized"},
             UNCHANGED <<m_readback, readable>>
      PROVE  PacedInv'
  <2>1. BaseInv'
    BY <1>3, CallingBase
  <2>2. Steady' => SteadyInv'
    BY <1>3, CallingSteady DEF Steady, Calling, setup
  <2>3. LooksUnder(TRUE)' => SentInv'
    BY <1>3, CallingSent DEF LooksUnder, LooksFirst, Calling, setup
  <2>4. CountedInv'
    <3>1. buf'.fill \in Nat /\ buf'.fill >= buf.fill
      BY <1>3, BaseFacts, LengthAssumption DEF Calling, BaseInv
    <3>. QED BY <1>3, <3>1, CountedKept DEF Calling
  <2>. QED BY <2>1, <2>2, <2>3, <2>4
<1>4. CASE /\ TaskStep \/ Activate \/ Deactivate \/ ResumeTask \/ FinalizeTask
           /\ UNCHANGED <<setup, buf, writerVars, pushVars, historyVars,
                          m_readback, readable>>
           /\ deletion' \in {"no", "resumed", "finalized"}
  <2>1. TaskTypeOK'
    BY <1>4, TaskKept DEF Activate, Deactivate, ResumeTask, FinalizeTask,
                          BaseInv, TypeOK
  <2>. QED BY <1>3, <1>4, <2>1 DEF Calling
<1>5. CASE UNCHANGED periodicVars
  <2>1. UNCHANGED <<vars, m_readback, readable>>
    BY <1>5 DEF periodicVars
  <2>2. TaskTypeOK'
    BY <2>1, TaskKept DEF vars, BaseInv, TypeOK
  <2>3. Calling /\ deletion' \in {"no", "resumed", "finalized"}
    BY <2>1 DEF vars, Calling, BaseInv, TypeOK
  <2>. QED BY <1>3, <2>1, <2>2, <2>3
<1>6. CASE PeriodicThread
  <2>1. CASE TaskStep /\ UNCHANGED <<setup, buf, writerVars, pushVars, deletion,
                                    historyVars, m_readback, readable>>
    BY <1>4, <2>1 DEF BaseInv, TypeOK
  <2>. QED BY <1>2, <1>6, <2>1 DEF PeriodicThread
<1>7. CASE PeriodicCalls
  <2>1. CASE Activate \/ Deactivate
    BY <1>4, <1>7, <2>1 DEF PeriodicCalls, Activate, Deactivate, ResumeTask,
                            FinalizeTask, BaseInv, TypeOK
  <2>2. CASE ResumeTask \/ FinalizeTask
    BY <1>4, <1>7, <2>2 DEF PeriodicCalls, ResumeTask, FinalizeTask
  <2>. QED BY <1>7, <2>1, <2>2 DEF PeriodicCalls
<1>. QED BY <1>1, <1>5, <1>6, <1>7 DEF PeriodicNext

LEMMA PacedInit == PeriodicInit => PacedInv
<1>1. SUFFICES ASSUME PeriodicInit PROVE CountedInv
  BY InitBase DEF PeriodicInit, PacedInv
<1>2. push = "begin" /\ readable = 0 /\ m_readback = FALSE
  BY <1>1 DEF PeriodicInit, Init
<1>. QED BY <1>2, LengthAssumption DEF CountedInv

LEMMA PacedAlways == PeriodicSpec => []PacedInv
<1>1. PeriodicInit => PacedInv
  BY PacedInit
<1>2. PacedInv /\ [PeriodicNext]_periodicVars => PacedInv'
  BY PacedStep
<1>. QED BY <1>1, <1>2, PTL DEF PeriodicSpec

ReadbackOK == m_readback \in BOOLEAN

LEMMA ReadbackNext ==
  ReadbackOK /\ [PeriodicNext]_periodicVars => ReadbackOK'
BY DEF ReadbackOK, PeriodicNext, PeriodicWrite, PeriodicThread, PeriodicCalls,
       PeriodicPush, ReturnEmpty, BeginPush, SkipOne, DrainCounted,
       periodicVars

LEMMA ReadbackType == PeriodicSpec => []ReadbackOK
<1>1. PeriodicInit => ReadbackOK
  BY DEF PeriodicInit, ReadbackOK
<1>. QED BY <1>1, ReadbackNext, PTL DEF PeriodicSpec

(***************************************************************************)
(* Types: also that the count of what is readable, from which "skip"       *)
(* subtracts what it went over, does not become negative.                  *)
(***************************************************************************)
THEOREM PeriodicTypes == PeriodicSpec => []PeriodicTypeOK
<1>1. PacedInv /\ ReadbackOK => PeriodicTypeOK
  BY DEF ReadbackOK, PacedInv, BaseInv, CountedInv, PeriodicTypeOK
<1>. QED BY <1>1, PacedAlways, ReadbackType, PTL

(***************************************************************************)
(* The publisher "periodic", which pushes whether there is something new   *)
(* or not, sends a value once and in order, under "fifo" too.              *)
(***************************************************************************)
THEOREM OnceAtRate == PeriodicSpec => SentOnceInOrder
<1>. DEFINE P == (LooksFirst \/ m_pushPolicy = "fifo") /\ SendOk
                   => \A v \in delivered : v < buf.data[slot]
<1>1. PacedInv => P
  BY SentNext DEF PacedInv, LooksUnder
<1>2. PacedInv /\ [PeriodicNext]_periodicVars => [P]_periodicVars
  BY <1>1
<1>. QED BY <1>2, PacedAlways, PTL DEF PeriodicSpec, SentOnceInOrder

-----------------------------------------------------------------------------
(* The thread that waits *)

(***************************************************************************)
(* The thread waits only while it is to be suspended, and when finalize()  *)
(* has been called it is to end and does not wait.                         *)
(***************************************************************************)
NotLeftWaiting ==
  /\ task = "wait" => suspended
  /\ deletion = "finalized" => ~alive /\ task # "wait"

WaitingInv ==
  /\ task = "wait" => suspended
  /\ deletion = "finalized" => ~alive /\ ~suspended

(***************************************************************************)
(* What a step does to the task: nothing, a call of the writer or of the   *)
(* connector, which is made before the destructor is, or of the destructor,*)
(* or a step of the thread.                                                *)
(***************************************************************************)
TaskCalls ==
  \/ UNCHANGED <<taskVars, deletion>>
  \/ /\ Signal \/ Resume \/ TaskStep \/ WorkDone
     /\ UNCHANGED deletion
  \/ /\ suspended' = TRUE /\ UNCHANGED <<alive, task>>
     /\ deletion = "no" /\ deletion' = "no"
  \/ Resume /\ deletion' = "resumed"
  \/ Finalize /\ deletion' = "finalized"

LEMMA WaitingKept == WaitingInv /\ TaskCalls => WaitingInv'
BY DEF WaitingInv, TaskCalls, taskVars, Signal, Resume, Finalize, TaskStep,
       WorkDone, Notified, TestAlive, TestSuspended, WakeUp

LEMMA WaitingStart == Init => WaitingInv
BY DEF Init, TaskInit, WaitingInv

LEMMA StoringCalls ==
  ASSUME Storing
  PROVE  TaskCalls
BY DEF Storing, Write, Check, TestRoom, Put, AdvanceWptr, SignalTask,
       ResumeOrNot, TaskCalls, pushVars

LEMMA PushCalls ==
  ASSUME SvcStep \/ PeriodicPush
  PROVE  TaskCalls
BY DEF SvcStep, PeriodicPush, ReturnEmpty, BeginPush, SkipOne, DrainCounted,
       BeginAll, BeginFifo, BeginNew, BeginSkip, SkipOlder, NextSkip, Get,
       SendOk, SendFails, Release, Drain, Discard, PushGoesTo, Finish, TaskCalls

LEMMA CallerCalls ==
  ASSUME \/ ResumeTask \/ FinalizeTask \/ Activate \/ Deactivate
         \/ TaskStep /\ UNCHANGED deletion
  PROVE  TaskCalls
BY DEF ResumeTask, FinalizeTask, Activate, Deactivate, TaskCalls

\* No wake-up is lost for good: the thread of the publisher "new" waits only
\* while it is suspended, and the destructor, which waits for it to end, does
\* not find it waiting, whatever the thread was doing when it was notified
\* (PublisherNew.cpp:54, PeriodicTask.cpp:72, 121, 244).
THEOREM NewNotLeftWaiting == Spec => []NotLeftWaiting
<1>1. WaitingInv /\ [Next]_vars => WaitingInv'
  <2>. SUFFICES ASSUME WaitingInv, [Next]_vars
                PROVE  WaitingInv'
    OBVIOUS
  <2>1. CASE WriterStep
    BY <2>1, StoringCalls, WaitingKept DEF WriterStep, Storing
  <2>2. CASE ThreadStep
    BY <2>2, PushCalls, CallerCalls, WaitingKept DEF ThreadStep
  <2>3. CASE ResumeTask \/ FinalizeTask
    BY <2>3, CallerCalls, WaitingKept
  <2>4. CASE UNCHANGED vars
    BY <2>4, WaitingKept DEF vars, TaskCalls
  <2>. QED BY <2>1, <2>2, <2>3, <2>4 DEF Next
<1>2. WaitingInv => NotLeftWaiting
  BY DEF WaitingInv, NotLeftWaiting
<1>. QED BY <1>1, <1>2, WaitingStart, PTL DEF Spec

\* The same for the publisher "periodic", whose connector activates and
\* deactivates it and whose write resumes it: once resumed the thread is not
\* left waiting (PublisherPeriodic.cpp:52, PeriodicTask.cpp:103, 244).
THEOREM PeriodicNotLeftWaiting == PeriodicSpec => []NotLeftWaiting
<1>1. WaitingInv /\ [PeriodicNext]_periodicVars => WaitingInv'
  <2>. SUFFICES ASSUME WaitingInv, [PeriodicNext]_periodicVars
                PROVE  WaitingInv'
    OBVIOUS
  <2>1. CASE PeriodicWrite
    BY <2>1, StoringCalls, WaitingKept DEF PeriodicWrite, Storing
  <2>2. CASE PeriodicThread
    BY <2>2, PushCalls, CallerCalls, WaitingKept DEF PeriodicThread
  <2>3. CASE PeriodicCalls
    BY <2>3, CallerCalls, WaitingKept DEF PeriodicCalls
  <2>4. CASE UNCHANGED periodicVars
    BY <2>4, WaitingKept DEF periodicVars, vars, TaskCalls
  <2>. QED BY <2>1, <2>2, <2>3, <2>4 DEF PeriodicNext
<1>2. WaitingInv => NotLeftWaiting
  BY DEF WaitingInv, NotLeftWaiting
<1>. QED
  BY <1>1, <1>2, WaitingStart, PTL DEF PeriodicSpec, PeriodicInit
=============================================================================
