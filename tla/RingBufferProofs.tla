-------------------------- MODULE RingBufferProofs --------------------------
(***************************************************************************)
(* Theorems about RingBuffer, for every length of the buffer, every number *)
(* of writers and readers, and every policy.                               *)
(***************************************************************************)
EXTENDS RingBuffer, RingPointersProofs, TLAPS

-----------------------------------------------------------------------------
(* The invariant *)

IInv == TypeOK /\ PointersAgree

(***************************************************************************)
(* It holds of an unused buffer.                                           *)
(***************************************************************************)
LEMMA InitIInv == Init => IInv
<1>. SUFFICES ASSUME Init PROVE IInv
  OBVIOUS
<1>1. buf \in Buffers(Values \cup {Blank}) /\ Consistent(buf)
  BY FreshOK DEF Init
<1>2. /\ pc \in [Threads -> Points] /\ value \in [Threads -> Values \cup {Blank}]
      /\ empty_ \in [Writers -> BOOLEAN]
      /\ answer \in [Threads -> {"none", "OK", "FULL", "EMPTY", "TIMEOUT"}]
  BY DEF Init, Points
<1>3. /\ sent \in 0 .. MaxWrites
      /\ {written, received} \subseteq Seq(Values \cup {Blank})
      /\ emptyLock \in Writers \cup {Nobody}
  BY RingBufferAssumption DEF Init
<1>4. disturbed \in BOOLEAN
  BY DEF Init
<1>. QED BY <1>1, <1>2, <1>3, <1>4 DEF IInv, TypeOK, PointersAgree

(***************************************************************************)
(* A step of a writer keeps it.                                            *)
(***************************************************************************)
LEMMA WriterKeepsIInv ==
  ASSUME IInv, NEW w \in Writers, WriterStep(w)
  PROVE  IInv'
<1>. USE DEF IInv, PointersAgree
<1>. DEFINE V == Values \cup {Blank}
<1>a. /\ buf \in Buffers(V) /\ Consistent(buf)
      /\ RptrAdvanced(buf, 1) \in Buffers(V) /\ Consistent(RptrAdvanced(buf, 1))
      /\ WptrAdvanced(buf, 1) \in Buffers(V) /\ Consistent(WptrAdvanced(buf, 1))
  BY RptrAdvancedOK, WptrAdvancedOK DEF TypeOK
<1>b. w \in Threads /\ value[w] \in V
  BY DEF TypeOK, Threads
<1>1. CASE Write(w)
  <2>1. sent + 1 \in Values /\ sent + 1 \in 0 .. MaxWrites
    BY <1>1, RingBufferAssumption DEF Write, TypeOK, Values
  <2>2. PICK mode : \/ FindRoom(w) \/ MakeRoom(w, mode)
                    \/ GiveUpFull(w, mode) \/ WaitForRoom(w, mode)
    BY <1>1 DEF Write
  <2>3. /\ buf' \in Buffers(V) /\ Consistent(buf')
    BY <1>a, <2>2 DEF FindRoom, MakeRoom, GiveUpFull, WaitForRoom
  <2>4. pc' \in [Threads -> Points]
    BY <2>2, <1>b
       DEF FindRoom, MakeRoom, GiveUpFull, WaitForRoom, GoTo, Return,
                TypeOK, Points
  <2>5. answer' \in [Threads -> {"none", "OK", "FULL", "EMPTY", "TIMEOUT"}]
    BY <2>2, <1>b
       DEF FindRoom, MakeRoom, GiveUpFull, WaitForRoom, Return, TypeOK
  <2>6. value' \in [Threads -> V]
    BY <1>1, <2>1, <1>b DEF Write, TypeOK
  <2>. QED BY <1>1, <2>1, <2>3, <2>4, <2>5, <2>6 DEF Write, Call, TypeOK
<1>2. CASE Put(w)
  <2>1. buf' \in Buffers(V) /\ Consistent(buf')
    BY <1>2, <1>a, <1>b, FilledOK DEF Put
  <2>2. pc' \in [Threads -> Points]
    BY <1>2, <1>b DEF Put, GoTo, TypeOK, Points
  <2>. QED BY <1>2, <2>1, <2>2 DEF Put, TypeOK
<1>3. CASE LockEmpty(w)
  <2>1. pc' \in [Threads -> Points]
    BY <1>3, <1>b DEF LockEmpty, GoTo, TypeOK, Points
  <2>2. empty_' \in [Writers -> BOOLEAN]
    BY <1>3 DEF LockEmpty, TypeOK, Empty
  <2>. QED BY <1>3, <1>a, <2>1, <2>2 DEF LockEmpty, TypeOK
<1>4. CASE AdvanceWptr(w)
  <2>1. pc' \in [Threads -> Points]
    BY <1>4, <1>b DEF AdvanceWptr, NotifyOne, Waiting, TypeOK, Points
  <2>2. written' \in Seq(V)
    BY <1>4, <1>b DEF AdvanceWptr, TypeOK
  <2>3. answer' \in [Threads -> {"none", "OK", "FULL", "EMPTY", "TIMEOUT"}]
    BY <1>4, <1>b DEF AdvanceWptr, TypeOK
  <2>. QED BY <1>4, <1>a, <2>1, <2>2, <2>3 DEF AdvanceWptr, TypeOK
<1>. QED BY <1>1, <1>2, <1>3, <1>4 DEF WriterStep

(***************************************************************************)
(* So does a step of a reader.                                             *)
(***************************************************************************)
LEMMA ReaderKeepsIInv ==
  ASSUME IInv, NEW r \in Readers, ReaderStep(r)
  PROVE  IInv'
<1>. USE DEF IInv, PointersAgree
<1>. DEFINE V == Values \cup {Blank}
<1>a. /\ buf \in Buffers(V) /\ Consistent(buf)
      /\ RptrAdvanced(buf, 1) \in Buffers(V) /\ Consistent(RptrAdvanced(buf, 1))
      /\ RptrAdvanced(buf, -1) \in Buffers(V) /\ Consistent(RptrAdvanced(buf, -1))
  BY RptrAdvancedOK DEF TypeOK
<1>b. r \in Threads /\ value[r] \in V
  BY DEF TypeOK, Threads
<1>1. CASE Read(r)
  <2>1. PICK mode : \/ FindData(r) \/ StepBack(r, mode)
                    \/ GiveUpEmpty(r, mode) \/ WaitForData(r, mode)
    BY <1>1 DEF Read
  <2>2. /\ buf' \in Buffers(V) /\ Consistent(buf')
    BY <1>a, <2>1 DEF FindData, StepBack, GiveUpEmpty, WaitForData
  <2>3. pc' \in [Threads -> Points]
    BY <2>1, <1>b
       DEF FindData, StepBack, GiveUpEmpty, WaitForData, GoTo, Return,
                TypeOK, Points
  <2>4. answer' \in [Threads -> {"none", "OK", "FULL", "EMPTY", "TIMEOUT"}]
    BY <2>1, <1>b
       DEF FindData, StepBack, GiveUpEmpty, WaitForData, Return, TypeOK
  <2>. QED BY <1>1, <2>2, <2>3, <2>4 DEF Read, Call, TypeOK
<1>2. CASE Get(r)
  <2>1. value' \in [Threads -> V]
    BY <1>2, <1>a, <1>b, FilledOK DEF Get, TypeOK
  <2>2. pc' \in [Threads -> Points]
    BY <1>2, <1>b DEF Get, GoTo, TypeOK, Points
  <2>. QED BY <1>2, <1>a, <2>1, <2>2 DEF Get, TypeOK
<1>3. CASE AdvanceRptr(r)
  <2>1. pc' \in [Threads -> Points]
    BY <1>3, <1>b DEF AdvanceRptr, Return, GoTo, TypeOK, Points
  <2>2. received' \in Seq(V)
    BY <1>3, <1>b DEF AdvanceRptr, TypeOK
  <2>3. answer' \in [Threads -> {"none", "OK", "FULL", "EMPTY", "TIMEOUT"}]
    BY <1>3, <1>b DEF AdvanceRptr, Return, TypeOK
  <2>. QED BY <1>3, <1>a, <2>1, <2>2, <2>3 DEF AdvanceRptr, TypeOK
<1>. QED BY <1>1, <1>2, <1>3 DEF ReaderStep

(***************************************************************************)
(* So does the end of a wait.                                              *)
(***************************************************************************)
LEMMA WaitKeepsIInv ==
  ASSUME IInv, NEW t \in Threads, Wake(t) \/ TimeOut(t)
  PROVE  IInv'
<1>1. pc' \in [Threads -> Points]
  BY DEF IInv, Wake, TimeOut, Return, GoTo, TypeOK, Points
<1>2. answer' \in [Threads -> {"none", "OK", "FULL", "EMPTY", "TIMEOUT"}]
  BY DEF IInv, Wake, TimeOut, Return, TypeOK
<1>3. UNCHANGED <<buf, emptyLock, value, empty_, sent, written, received>>
  BY DEF Wake, TimeOut
<1>4. disturbed' \in BOOLEAN
  BY DEF IInv, TypeOK, Wake, TimeOut
<1>. QED BY <1>1, <1>2, <1>3, <1>4 DEF IInv, PointersAgree, TypeOK

(***************************************************************************)
(* Whatever the length, the policies and the threads, the variables have   *)
(* their types: no position leaves the buffer and the count of unread      *)
(* values never leaves 0 .. Length; and the positions differ by the count. *)
(***************************************************************************)
THEOREM PositionsAgree == Spec => [](TypeOK /\ PointersAgree)
<1>1. Init => IInv
  BY InitIInv
<1>2. IInv /\ [Next]_vars => IInv'
  <2>. SUFFICES ASSUME IInv, [Next]_vars PROVE IInv'
    OBVIOUS
  <2>1. CASE Next
    BY <2>1, WriterKeepsIInv, ReaderKeepsIInv, WaitKeepsIInv DEF Next
  <2>2. CASE UNCHANGED vars
    BY <2>2 DEF vars, IInv, TypeOK, PointersAgree
  <2>. QED BY <2>1, <2>2
<1>. QED BY <1>1, <1>2, PTL DEF Spec, IInv

-----------------------------------------------------------------------------
(* The latest values, while calls do not overlap *)

(***************************************************************************)
(* The invariant behind LatestKept.  While no call has overlapped another  *)
(* one call at most is under way, and nobody has been notified.            *)
(***************************************************************************)
Alone ==
  /\ \A t, u \in Threads : pc[t] # "idle" /\ pc[u] # "idle" => t = u
  /\ \A t \in Threads : pc[t] # "woken"

Writing == \E w \in Writers : pc[w] \in {"put", "lock", "advance"}

(***************************************************************************)
(* A call that has begun will find what it needs: room, the value it has   *)
(* put, a value to get, that value when it releases the slot.              *)
(***************************************************************************)
Underway ==
  /\ Writing => buf.fill < Length
  /\ \A w \in Writers :
       pc[w] \in {"lock", "advance"} => buf.data[buf.wpos] = value[w]
  /\ \A r \in Readers : pc[r] \in {"get", "release"} => buf.fill > 0
  /\ \A r \in Readers : pc[r] = "release" => value[r] = Oldest(buf)

Counted == buf.wcount = Len(written) /\ buf.fill <= Len(written)

(***************************************************************************)
(* The last m values written are in their slots, and those of them that    *)
(* are not unread have been read.  While a value is being written, the     *)
(* oldest slot is given up.                                                *)
(***************************************************************************)
Latest(m) ==
  \A j \in 0 .. m - 1 :
    j < Len(written) =>
      /\ buf.data[Behind(buf.wpos, j)] = written[Len(written) - j]
      /\ j >= buf.fill => written[Len(written) - j] \in Range(received)

Kept ==
  /\ Alone /\ Underway /\ Counted
  /\ Latest(Length - 1)
  /\ ~ Writing => Latest(Length)

KeptInv == ~ disturbed => Kept

(***************************************************************************)
(* A step of a writer, of a reader, or the end of a wait keeps it.         *)
(***************************************************************************)
LEMMA WriterKeepsLatest ==
  ASSUME IInv, KeptInv, NEW w \in Writers, WriterStep(w), ~ disturbed'
  PROVE  Kept'
<1>. USE LengthAssumption
<1>a. /\ ~ disturbed /\ Kept
  BY DEF WriterStep, Write, Call, Put, LockEmpty, AdvanceWptr, KeptInv, IInv,
         TypeOK
<1>b. /\ w \in Threads /\ w \notin Readers
      /\ pc \in [Threads -> Points] /\ value \in [Threads -> Values \cup {Blank}]
  BY RingBufferAssumption DEF Threads, IInv, TypeOK
<1>c. /\ buf \in Buffers(Values \cup {Blank}) /\ Consistent(buf)
      /\ buf.fill \in 0 .. Length /\ buf.wpos \in Slots /\ buf.wcount \in Nat
      /\ Len(written) \in Nat /\ written \in Seq(Values \cup {Blank})
  BY DEF IInv, TypeOK, PointersAgree, Buffers
<1>1. CASE Write(w)
  <2>1. /\ Idle /\ pc[w] = "idle"
        /\ UNCHANGED <<written, received>>
    BY <1>1 DEF Write, Call
  <2>2. /\ \A t \in Threads : pc[t] = "idle"
        /\ ~ Writing
    BY <2>1 DEF Idle, Writing, Threads
  <2>3. PICK mode : \/ FindRoom(w) \/ MakeRoom(w, mode)
                    \/ GiveUpFull(w, mode) \/ WaitForRoom(w, mode)
    BY <1>1 DEF Write
  <2>4. /\ \A t \in Threads \ {w} : pc'[t] = "idle"
        /\ pc'[w] \in {"idle", "put", "wait"}
    BY <2>2, <2>3, <1>b DEF FindRoom, MakeRoom, GiveUpFull, WaitForRoom, GoTo,
                            Return
  <2>5. Alone'
    BY <2>4 DEF Alone
  <2>6. \/ buf' = buf /\ (pc'[w] = "put" => buf.fill < Length)
        \/ /\ buf'.data = buf.data /\ buf'.wpos = buf.wpos
           /\ buf'.wcount = buf.wcount
           /\ buf.fill = Length /\ buf'.fill = Length - 1 /\ pc'[w] = "put"
    <3>1. CASE FindRoom(w)
      BY <3>1, <1>c DEF FindRoom, Full
    <3>2. CASE MakeRoom(w, mode)
      BY <3>2, <1>b, <1>c
         DEF MakeRoom, Full, RptrAdvanced, MayAdvanceRptr, Buffers,
                         GoTo
    <3>3. CASE GiveUpFull(w, mode)
      BY <3>3, <1>b DEF GiveUpFull, Return, GoTo
    <3>4. CASE WaitForRoom(w, mode)
      BY <3>4, <1>b DEF WaitForRoom, GoTo
    <3>. QED BY <2>3, <3>1, <3>2, <3>3, <3>4
  <2>7. Latest(Length)
    BY <1>a, <2>2 DEF Kept
  <2>8. Latest(Length - 1)' /\ (~ Writing' => Latest(Length)')
    <3>1. CASE buf' = buf
      BY <3>1, <2>1, <2>7, <1>a DEF Latest, Kept
    <3>2. CASE buf' # buf
      <4>1. Latest(Length - 1)'
        BY <3>2, <2>1, <2>6, <2>7 DEF Latest
      <4>2. Writing'
        BY <3>2, <2>6 DEF Writing
      <4>. QED BY <4>1, <4>2
    <3>. QED BY <3>1, <3>2
  <2>9. Underway'
    <3>1. Writing' => buf'.fill < Length
      BY <2>4, <2>6, RingBufferAssumption DEF Writing, Threads
    <3>2. \A t \in Threads : pc'[t] \notin {"lock", "advance", "get", "release"}
      BY <2>4
    <3>. QED BY <3>1, <3>2 DEF Underway, Threads
  <2>10. Counted'
    BY <2>1, <2>6, <1>a, <1>c DEF Counted, Kept
  <2>. QED BY <2>5, <2>8, <2>9, <2>10 DEF Kept
<1>2. CASE Put(w)
  <2>1. /\ pc[w] = "put" /\ pc' = [pc EXCEPT ![w] = "lock"]
        /\ UNCHANGED <<value, written, received>>
    BY <1>2 DEF Put, GoTo
  <2>2. /\ \A t \in Threads \ {w} : pc[t] = "idle" /\ pc'[t] = "idle"
        /\ pc'[w] = "lock"
    BY <1>a, <1>b, <2>1 DEF Kept, Alone
  <2>3. buf' = [buf EXCEPT !.data[buf.wpos] = value[w]]
    BY <1>2 DEF Put, Filled
  <2>4. /\ buf'.wpos = buf.wpos /\ buf'.fill = buf.fill
        /\ buf'.wcount = buf.wcount
        /\ buf'.data[buf.wpos] = value[w]
        /\ \A s \in Slots \ {buf.wpos} : buf'.data[s] = buf.data[s]
    BY <2>3, <1>c DEF Buffers
  <2>5. Latest(Length - 1)'
    BY <2>1, <2>4, <1>a, <1>c, BehindSlot, SMTT(40) DEF Latest, Kept
  <2>6. Writing /\ Writing'
    BY <2>1, <2>2 DEF Writing
  <2>7. Underway'
    <3>1. buf'.fill < Length
      BY <2>4, <2>6, <1>a DEF Kept, Underway
    <3>2. \A v \in Writers : pc'[v] \in {"lock", "advance"} =>
             buf'.data[buf'.wpos] = value'[v]
      BY <2>1, <2>2, <2>4 DEF Threads
    <3>3. \A r \in Readers : pc'[r] = "idle"
      BY <2>2, <1>b DEF Threads
    <3>. QED BY <3>1, <3>2, <3>3 DEF Underway
  <2>8. Alone' /\ Counted'
    BY <2>1, <2>2, <2>4, <1>a DEF Alone, Counted, Kept
  <2>. QED BY <2>5, <2>6, <2>7, <2>8 DEF Kept
<1>3. CASE LockEmpty(w)
  <2>1. /\ pc[w] = "lock" /\ pc' = [pc EXCEPT ![w] = "advance"]
        /\ UNCHANGED <<buf, value, written, received>>
    BY <1>3 DEF LockEmpty, GoTo
  <2>2. /\ \A t \in Threads \ {w} : pc[t] = "idle" /\ pc'[t] = "idle"
        /\ pc'[w] = "advance"
    BY <1>a, <1>b, <2>1 DEF Kept, Alone
  <2>3. Writing /\ Writing'
    BY <2>1, <2>2 DEF Writing
  <2>4. Underway'
    <3>1. buf'.fill < Length
      BY <2>1, <2>3, <1>a DEF Kept, Underway
    <3>2. \A v \in Writers : pc'[v] \in {"lock", "advance"} =>
             buf'.data[buf'.wpos] = value'[v]
      BY <2>1, <2>2, <1>a DEF Threads, Kept, Underway
    <3>3. \A r \in Readers : pc'[r] = "idle"
      BY <2>2, <1>b DEF Threads
    <3>. QED BY <3>1, <3>2, <3>3 DEF Underway
  <2>5. Alone' /\ Counted' /\ Latest(Length - 1)'
    BY <2>1, <2>2, <1>a DEF Alone, Counted, Kept, Latest
  <2>. QED BY <2>3, <2>4, <2>5 DEF Kept
<1>4. CASE AdvanceWptr(w)
  <2>1. /\ pc[w] = "advance"
        /\ buf' = WptrAdvanced(buf, 1)
        /\ written' = Append(written, value[w])
        /\ UNCHANGED received
    BY <1>4 DEF AdvanceWptr
  <2>2. \A t \in Threads \ {w} : pc[t] = "idle"
    BY <1>a, <1>b, <2>1 DEF Kept, Alone
  <2>3. Waiting = {}
    BY <2>1, <2>2 DEF Waiting
  <2>4. pc' = [pc EXCEPT ![w] = "idle"]
    BY <1>4, <2>3 DEF AdvanceWptr
  <2>5. \A t \in Threads : pc'[t] = "idle"
    BY <2>2, <2>4, <1>b
  <2>6. Writing
    BY <2>1 DEF Writing
  <2>7. /\ buf.fill < Length /\ buf.data[buf.wpos] = value[w]
    BY <2>1, <2>6, <1>a DEF Kept, Underway
  <2>8. /\ buf'.wpos = Ahead(buf.wpos, 1) /\ buf'.fill = buf.fill + 1
        /\ buf'.wcount = buf.wcount + 1 /\ buf'.data = buf.data
    BY <2>1, <2>7, <1>c DEF WptrAdvanced, MayAdvanceWptr, Buffers
  <2>9. /\ Len(written') = Len(written) + 1
        /\ written'[Len(written) + 1] = value[w]
        /\ \A k \in 1 .. Len(written) : written'[k] = written[k]
    BY <2>1, <1>c, <1>b
  <2>10. Latest(Length)'
    <3>. SUFFICES ASSUME NEW j \in 0 .. Length - 1, j < Len(written')
                  PROVE  /\ buf'.data[Behind(buf'.wpos, j)]
                              = written'[Len(written') - j]
                         /\ j >= buf'.fill =>
                              written'[Len(written') - j] \in Range(received)
      BY <2>1 DEF Latest
    <3>1. CASE j = 0
      BY <3>1, <2>7, <2>8, <2>9, <1>c, BehindAdvanced
    <3>2. CASE j > 0
      <4>1. /\ j - 1 \in 0 .. (Length - 1) - 1 /\ j - 1 < Len(written)
            /\ Len(written') - j = Len(written) - (j - 1)
            /\ Len(written) - (j - 1) \in 1 .. Len(written)
        BY <3>2, <2>9, <1>c, SMTT(40)
      <4>2. /\ buf.data[Behind(buf.wpos, j - 1)]
                 = written[Len(written) - (j - 1)]
            /\ j - 1 >= buf.fill =>
                 written[Len(written) - (j - 1)] \in Range(received)
        BY <4>1, <1>a DEF Kept, Latest
      <4>3. Behind(buf'.wpos, j) = Behind(buf.wpos, j - 1)
        BY <3>2, <2>8, <1>c, BehindAdvanced, SMTT(40)
      <4>. QED BY <4>1, <4>2, <4>3, <2>8, <2>9, <1>c, SMTT(40)
    <3>. QED BY <3>1, <3>2
  <2>11. Latest(Length - 1)'
    BY <2>10 DEF Latest
  <2>12. Alone' /\ Underway'
    BY <2>5 DEF Alone, Underway, Writing, Threads
  <2>13. Counted'
    BY <2>8, <2>9, <1>a, <1>c DEF Counted, Kept
  <2>. QED BY <2>10, <2>11, <2>12, <2>13 DEF Kept
<1>. QED BY <1>1, <1>2, <1>3, <1>4 DEF WriterStep

(***************************************************************************)
(* Reading the last value once more, or the next one, leaves the others.   *)
(***************************************************************************)
LEMMA ReaderKeepsLatest ==
  ASSUME IInv, KeptInv, NEW r \in Readers, ReaderStep(r), ~ disturbed'
  PROVE  Kept'
<1>. USE LengthAssumption
<1>a. ~ disturbed /\ Kept
  BY DEF ReaderStep, Read, Call, Get, AdvanceRptr, KeptInv, IInv, TypeOK
<1>b. /\ r \in Threads /\ r \notin Writers
      /\ pc \in [Threads -> Points] /\ value \in [Threads -> Values \cup {Blank}]
  BY RingBufferAssumption DEF Threads, IInv, TypeOK
<1>c. /\ buf \in Buffers(Values \cup {Blank}) /\ Consistent(buf)
      /\ buf.fill \in 0 .. Length /\ buf.wpos \in Slots /\ buf.wcount \in Nat
      /\ Len(written) \in Nat
      /\ received \in Seq(Values \cup {Blank})
  BY DEF IInv, TypeOK, PointersAgree, Buffers
<1>1. CASE Read(r)
  <2>1. Idle /\ UNCHANGED <<value, written, received>>
    BY <1>1 DEF Read, Call
  <2>2. \A t \in Threads : pc[t] = "idle"
    BY <2>1 DEF Idle
  <2>3. PICK mode : \/ FindData(r) \/ StepBack(r, mode)
                    \/ GiveUpEmpty(r, mode) \/ WaitForData(r, mode)
    BY <1>1 DEF Read
  <2>4. /\ \A t \in Threads \ {r} : pc'[t] = "idle"
        /\ pc'[r] \in {"idle", "get", "wait"}
    BY <2>2, <2>3, <1>b DEF FindData, StepBack, GiveUpEmpty, WaitForData, GoTo,
                            Return
  <2>5. \/ buf' = buf /\ (pc'[r] = "get" => buf.fill > 0)
        \/ /\ buf'.data = buf.data /\ buf'.wpos = buf.wpos
           /\ buf'.wcount = buf.wcount /\ buf.wcount > 0
           /\ buf.fill = 0 /\ buf'.fill = 1
    <3>1. CASE FindData(r)
      BY <3>1, <1>c DEF FindData, Empty
    <3>2. CASE StepBack(r, mode)
      BY <3>2, <1>b, <1>c DEF StepBack, Empty, RptrAdvanced, MayAdvanceRptr,
                              Buffers
    <3>3. CASE GiveUpEmpty(r, mode)
      BY <3>3, <1>b DEF GiveUpEmpty, Return, GoTo
    <3>4. CASE WaitForData(r, mode)
      BY <3>4, <1>b DEF WaitForData, GoTo
    <3>. QED BY <2>3, <3>1, <3>2, <3>3, <3>4
  <2>6. ~ Writing
    BY <2>2 DEF Writing, Threads
  <2>7. ASSUME NEW m \in {Length - 1, Length}
        PROVE  Latest(m)'
    <3>1. Latest(m)
      BY <2>6, <1>a DEF Kept
    <3>2. buf'.data = buf.data /\ buf'.wpos = buf.wpos /\ buf'.fill >= buf.fill
          /\ buf'.fill \in Int
      BY <2>5, <1>c
    <3>3. ASSUME NEW j \in 0 .. m - 1, j >= buf'.fill
          PROVE  j >= buf.fill
      BY <3>2, <3>3, <1>c
    <3>. QED BY <3>1, <3>2, <3>3, <2>1 DEF Latest
  <2>8. Underway'
    BY <2>4, <2>5, <1>b DEF Underway, Writing, Threads
  <2>9. Counted'
    BY <2>1, <2>5, <1>a, <1>c DEF Counted, Kept
  <2>10. Alone'
    BY <2>4 DEF Alone
  <2>. QED BY <2>7, <2>8, <2>9, <2>10 DEF Kept
<1>2. CASE Get(r)
  <2>1. /\ pc[r] = "get" /\ pc' = [pc EXCEPT ![r] = "release"]
        /\ value' = [value EXCEPT ![r] = Oldest(buf)]
        /\ UNCHANGED <<buf, written, received>>
    BY <1>2 DEF Get, GoTo
  <2>2. /\ \A t \in Threads \ {r} : pc[t] = "idle" /\ pc'[t] = "idle"
        /\ pc'[r] = "release" /\ value'[r] = Oldest(buf)
    BY <1>a, <1>b, <2>1 DEF Kept, Alone
  <2>3. ~ Writing /\ ~ Writing'
    BY <2>2, <1>b DEF Writing, Threads
  <2>4. Latest(Length)' /\ Latest(Length - 1)'
    BY <2>1, <2>3, <1>a DEF Kept, Latest
  <2>5. Underway'
    <3>1. buf'.fill > 0
      BY <2>1, <1>a DEF Kept, Underway
    <3>2. \A s \in Readers : pc'[s] = "release" => s = r
      BY <2>2 DEF Threads
    <3>3. Oldest(buf)' = Oldest(buf)
      BY <2>1 DEF Oldest
    <3>4. \A w \in Writers : pc'[w] = "idle"
      BY <2>2, <1>b DEF Threads
    <3>. QED BY <3>1, <3>2, <3>3, <3>4, <2>2, <2>3 DEF Underway
  <2>6. Alone' /\ Counted'
    BY <2>1, <2>2, <1>a DEF Alone, Counted, Kept
  <2>. QED BY <2>4, <2>5, <2>6 DEF Kept
<1>3. CASE AdvanceRptr(r)
  <2>1. /\ pc[r] = "release" /\ pc' = [pc EXCEPT ![r] = "idle"]
        /\ buf' = RptrAdvanced(buf, 1)
        /\ received' = Append(received, value[r])
        /\ UNCHANGED written
    BY <1>3 DEF AdvanceRptr, Return, GoTo
  <2>2. /\ \A t \in Threads \ {r} : pc[t] = "idle"
        /\ \A t \in Threads : pc'[t] = "idle"
    BY <1>a, <1>b, <2>1 DEF Kept, Alone
  <2>3. ~ Writing /\ ~ Writing'
    BY <2>2, <1>b DEF Writing, Threads
  <2>4. buf.fill > 0 /\ value[r] = Oldest(buf)
    BY <2>1, <1>a DEF Kept, Underway
  <2>5. /\ buf'.wpos = buf.wpos /\ buf'.fill = buf.fill - 1
        /\ buf'.wcount = buf.wcount /\ buf'.data = buf.data
    BY <2>1, <2>4, <1>c DEF RptrAdvanced, MayAdvanceRptr, Buffers
  <2>6. Range(received') = Range(received) \cup {value[r]}
    BY <2>1, <1>b, <1>c, RangeAppended, SMTT(40)
  <2>7. buf.data[Behind(buf.wpos, buf.fill - 1)] = value[r]
    <3>1. buf.rpos \in 0 .. (3 * Length - 1) /\ buf.rpos < Length
      BY <1>c DEF Buffers, Slots
    <3>2. (buf.rpos + (buf.fill - (buf.fill - 1)) - 1) % Length = buf.rpos
      <4>1. buf.rpos + (buf.fill - (buf.fill - 1)) - 1 = buf.rpos
        BY <3>1, <1>c
      <4>2. buf.rpos % Length = buf.rpos
        BY <3>1, Wrap
      <4>. QED BY <4>1, <4>2
    <3>3. buf.fill - 1 \in 0 .. buf.fill - 1
      BY <2>4, <1>c
    <3>4. Behind(buf.wpos, buf.fill - 1) = buf.rpos
      BY <3>2, <3>3, <1>c, BehindStored
    <3>. QED BY <3>4, <2>4 DEF Oldest
  <2>8. ASSUME NEW m \in {Length - 1, Length}
        PROVE  Latest(m)'
    <3>1. Latest(m)
      BY <2>3, <1>a DEF Kept
    <3>. SUFFICES ASSUME NEW j \in 0 .. m - 1, j < Len(written)
                  PROVE  /\ buf'.data[Behind(buf'.wpos, j)]
                              = written[Len(written) - j]
                         /\ j >= buf'.fill =>
                              written[Len(written) - j] \in Range(received')
      BY <2>1 DEF Latest
    <3>2. /\ buf.data[Behind(buf.wpos, j)] = written[Len(written) - j]
          /\ j >= buf.fill => written[Len(written) - j] \in Range(received)
      BY <3>1 DEF Latest
    <3>3. j >= buf'.fill => j >= buf.fill \/ j = buf.fill - 1
      BY <2>5, <1>c
    <3>. QED BY <3>2, <3>3, <2>5, <2>6, <2>7
  <2>9. Alone' /\ Underway'
    BY <2>2, <2>3 DEF Alone, Underway, Threads
  <2>10. Counted'
    BY <2>1, <2>5, <1>a, <1>c DEF Counted, Kept
  <2>. QED BY <2>8, <2>9, <2>10 DEF Kept
<1>. QED BY <1>1, <1>2, <1>3 DEF ReaderStep

(***************************************************************************)
(* A wait can only end with a timeout, when nobody else is there.          *)
(***************************************************************************)
LEMMA WaitKeepsLatest ==
  ASSUME IInv, KeptInv, NEW t \in Threads, Wake(t) \/ TimeOut(t), ~ disturbed'
  PROVE  Kept'
<1>a. ~ disturbed /\ Kept
  BY DEF Wake, TimeOut, KeptInv, IInv, TypeOK
<1>b. pc \in [Threads -> Points]
  BY DEF IInv, TypeOK
<1>1. ~ Wake(t)
  BY <1>a DEF Wake, Kept, Alone
<1>2. /\ pc[t] = "wait" /\ pc' = [pc EXCEPT ![t] = "idle"]
      /\ UNCHANGED <<buf, value, written, received>>
  BY <1>1, <1>a DEF TimeOut, Return, GoTo, Kept, Alone
<1>3. /\ \A u \in Threads : pc'[u] = "idle"
      /\ \A u \in Threads \ {t} : pc[u] = "idle"
  BY <1>a, <1>b, <1>2 DEF Kept, Alone
<1>4. ~ Writing
  BY <1>2, <1>3 DEF Writing, Threads
<1>5. Alone' /\ Underway' /\ ~ Writing'
  BY <1>3 DEF Alone, Underway, Writing, Threads
<1>6. Counted' /\ Latest(Length)' /\ Latest(Length - 1)'
  BY <1>2, <1>4, <1>a DEF Kept, Counted, Latest
<1>. QED BY <1>5, <1>6 DEF Kept

(***************************************************************************)
(* With no call under way, the invariant says that what is not unread has  *)
(* been read.                                                              *)
(***************************************************************************)
LEMMA KeptMeansLatest ==
  ASSUME IInv, KeptInv
  PROVE  LatestKept
<1>. USE LengthAssumption
<1>. SUFFICES ASSUME Idle, ~ disturbed, NEW k \in DOMAIN written,
                     k > Len(written) - Length
              PROVE  written[k] \in Range(received) \cup Range(Stored(buf))
  BY DEF LatestKept
<1>1. /\ buf \in Buffers(Values \cup {Blank}) /\ Consistent(buf)
      /\ buf.fill \in 0 .. Length
      /\ Len(written) \in Nat /\ k \in 1 .. Len(written)
  BY DEF IInv, TypeOK, PointersAgree, Buffers
<1>2. Latest(Length)
  BY DEF KeptInv, Kept, Idle, Writing, Threads
<1>. DEFINE j == Len(written) - k
<1>3. /\ j \in 0 .. Length - 1 /\ j < Len(written)
      /\ Len(written) - j = k
  BY <1>1
<1>4. /\ buf.data[Behind(buf.wpos, j)] = written[k]
      /\ j >= buf.fill => written[k] \in Range(received)
  BY <1>2, <1>3 DEF Latest
<1>5. CASE j < buf.fill
  <2>1. buf.fill - j \in 1 .. buf.fill /\ j \in 0 .. buf.fill - 1
    BY <1>1, <1>3, <1>5, SMTT(40)
  <2>2. Stored(buf)[buf.fill - j] = written[k]
    BY <1>1, <1>4, <2>1, BehindStored DEF Stored
  <2>3. buf.fill - j \in DOMAIN Stored(buf)
    BY <2>1 DEF Stored
  <2>. QED BY <2>2, <2>3 DEF Range
<1>. QED BY <1>1, <1>3, <1>4, <1>5

(***************************************************************************)
(* Whatever the length, the policies and the timeouts: as long as calls do *)
(* not overlap and waits end for a reason, none of the last Length values  *)
(* written is lost.                                                        *)
(***************************************************************************)
THEOREM LatestStay == Spec => []LatestKept
<1>. DEFINE Inv == IInv /\ KeptInv
<1>1. Init => Inv
  <2>1. ASSUME Init PROVE KeptInv
    <3>1. /\ \A t \in Threads : pc[t] = "idle"
          /\ written = << >> /\ buf = Fresh(Blank)
      BY <2>1 DEF Init
    <3>2. Len(written) = 0 /\ buf.fill = 0 /\ buf.wcount = 0
      BY <3>1 DEF Fresh
    <3>3. Latest(Length) /\ Latest(Length - 1)
      BY <3>2, LengthAssumption DEF Latest
    <3>4. Alone /\ Underway
      BY <3>1 DEF Alone, Underway, Writing, Threads
    <3>. QED BY <3>2, <3>3, <3>4 DEF KeptInv, Kept, Counted
  <2>. QED BY <2>1, InitIInv
<1>2. Inv /\ [Next]_vars => Inv'
  <2>1. ASSUME IInv, KeptInv, Next PROVE KeptInv'
    BY <2>1, WriterKeepsLatest, ReaderKeepsLatest, WaitKeepsLatest
       DEF Next, KeptInv
  <2>2. ASSUME KeptInv, UNCHANGED vars PROVE KeptInv'
    BY <2>2 DEF vars, KeptInv, Kept, Alone, Underway, Counted, Latest, Writing
  <2>3. IInv /\ [Next]_vars => IInv'
    BY WriterKeepsIInv, ReaderKeepsIInv, WaitKeepsIInv
       DEF Next, vars, IInv, TypeOK, PointersAgree
  <2>. QED BY <2>1, <2>2, <2>3
<1>3. Inv => LatestKept
  BY KeptMeansLatest
<1>. QED BY <1>1, <1>2, <1>3, PTL DEF Spec

-----------------------------------------------------------------------------
(* The bounded queue *)

(***************************************************************************)
(* One writer and one reader, no policy in force that drops or repeats, no *)
(* wake-up without a notification.                                         *)
(***************************************************************************)
PlainUse ==
  /\ \A v, w \in Writers : v = w
  /\ \A r, s \in Readers : r = s
  /\ \A given \in TimeoutGiven : /\ Mode(WritePolicy, given) # "overwrite"
                                 /\ Mode(ReadPolicy, given) # "readback"
  /\ SpuriousWakes = FALSE

(***************************************************************************)
(* A writer that goes on has room and the value that it has put; a reader  *)
(* that goes on has data, and the oldest value when it releases the slot.  *)
(***************************************************************************)
WriterReady ==
  \A w \in Writers :
    /\ pc[w] # "woken"
    /\ pc[w] # "idle" => value[w] \in Values
    /\ pc[w] \in {"put", "lock", "advance"} => buf.fill < Length
    /\ pc[w] \in {"lock", "advance"} => buf.data[buf.wpos] = value[w]

ReaderReady ==
  \A r \in Readers :
    /\ pc[r] \in {"woken", "get", "release"} => buf.fill > 0
    /\ pc[r] = "release" => value[r] = Oldest(buf)

FifoInv == IInv /\ WriterReady /\ ReaderReady

(***************************************************************************)
(* Each step of the writer, of the reader and of a wait is a step of the   *)
(* queue, or leaves it alone, and keeps the invariant.                     *)
(***************************************************************************)
LEMMA FifoWriter ==
  ASSUME PlainUse, FifoInv, NEW w \in Writers, WriterStep(w)
  PROVE  /\ WriterReady' /\ ReaderReady'
         /\ [Fifo!Next]_(Fifo!vars)
<1>. USE LengthAssumption
<1>. DEFINE V == Values \cup {Blank}
            offer == [v \in Writers |->
                        IF pc[v] = "idle" THEN Blank ELSE value[v]]
<1>b. /\ w \in Threads /\ w \notin Readers
      /\ \A v \in Writers : v = w
      /\ \A r \in Readers : r \in Threads /\ r # w
      /\ pc \in [Threads -> Points] /\ value \in [Threads -> V]
      /\ answer \in [Threads -> {"none", "OK", "FULL", "EMPTY", "TIMEOUT"}]
  BY RingBufferAssumption DEF Threads, FifoInv, IInv, TypeOK, PlainUse
<1>c. /\ buf \in Buffers(V) /\ Consistent(buf)
      /\ buf.fill \in 0 .. Length /\ buf.wpos \in Slots
  BY DEF FifoInv, IInv, TypeOK, PointersAgree, Buffers
<1>d. /\ Stored(buf) \in Seq(V) /\ Len(Stored(buf)) = buf.fill
  BY <1>c, StoredIsSeq
<1>1. CASE Write(w)
  <2>1. /\ pc[w] = "idle" /\ sent + 1 \in Values
        /\ value' = [value EXCEPT ![w] = sent + 1]
        /\ UNCHANGED received
    BY <1>1, RingBufferAssumption
       DEF Write, Call, FifoInv, IInv, TypeOK, Values
  <2>2. PICK given \in TimeoutGiven :
          \/ FindRoom(w) \/ GiveUpFull(w, Mode(WritePolicy, given))
          \/ WaitForRoom(w, Mode(WritePolicy, given))
    BY <1>1 DEF Write, MakeRoom, PlainUse
  <2>3. buf' = buf
    BY <2>2 DEF FindRoom, GiveUpFull, WaitForRoom
  <2>4. \A r \in Readers : pc'[r] = pc[r] /\ value'[r] = value[r]
    BY <2>1, <2>2, <1>b DEF FindRoom, GiveUpFull, WaitForRoom, GoTo, Return
  <2>5. ReaderReady'
    BY <2>3, <2>4 DEF FifoInv, ReaderReady, Oldest
  <2>6. CASE FindRoom(w) \/ WaitForRoom(w, Mode(WritePolicy, given))
    <3>1. /\ pc'[w] \in {"put", "wait"} /\ answer' = answer
          /\ pc'[w] = "put" => buf.fill < Length
      BY <2>6, <1>b, <1>c DEF FindRoom, WaitForRoom, GoTo, Full
    <3>2. WriterReady'
      BY <3>1, <2>1, <2>3, <1>b DEF WriterReady
    <3>3. Fifo!Offer(w, sent + 1)
      <4>1. offer[w] = Blank /\ offer' = [offer EXCEPT ![w] = sent + 1]
        BY <3>1, <2>1, <1>b
      <4>. QED BY <4>1, <3>1, <2>1, <2>3 DEF Fifo!Offer
    <3>4. \E v \in Values : Fifo!Offer(w, v)
      BY <3>3, <2>1 DEF Fifo!Offer
    <3>. QED BY <3>2, <3>4, <2>5 DEF Fifo!Next
  <2>7. CASE GiveUpFull(w, Mode(WritePolicy, given))
    <3>1. /\ pc'[w] = "idle" /\ answer' = [answer EXCEPT ![w] = "FULL"]
          /\ buf.fill = Length
      BY <2>7, <1>b DEF GiveUpFull, Return, GoTo, Full
    <3>2. WriterReady'
      BY <3>1, <1>b DEF WriterReady
    <3>3. Fifo!Refuse(w)
      <4>1. offer[w] = Blank /\ offer' = offer
        BY <3>1, <2>1, <1>b
      <4>. QED BY <4>1, <3>1, <2>1, <2>3, <1>d DEF Fifo!Refuse
    <3>. QED BY <3>2, <3>3, <2>5 DEF Fifo!Next
  <2>. QED BY <2>2, <2>6, <2>7
<1>2. CASE Put(w)
  <2>1. /\ pc[w] = "put" /\ pc' = [pc EXCEPT ![w] = "lock"]
        /\ buf' = Filled(buf, value[w])
        /\ UNCHANGED <<value, answer, received>>
    BY <1>2 DEF Put, GoTo
  <2>2. value[w] \in Values /\ buf.fill < Length
    BY <2>1 DEF FifoInv, WriterReady
  <2>3. Stored(buf') = Stored(buf)
    BY <2>1, <2>2, <1>c, StoredFilled
  <2>4. /\ buf'.fill = buf.fill /\ buf'.rpos = buf.rpos
        /\ buf'.data[buf'.wpos] = value[w]
        /\ \A s \in Slots \ {buf.wpos} : buf'.data[s] = buf.data[s]
    BY <2>1, <1>c DEF Filled, Buffers
  <2>5. WriterReady'
    BY <2>1, <2>2, <2>4, <1>b DEF WriterReady
  <2>6. ReaderReady'
    <3>1. buf.fill > 0 => Oldest(buf') = Oldest(buf)
      BY <2>2, <2>4, <1>c, Apart DEF Oldest, Buffers
    <3>. QED BY <3>1, <2>1, <2>4, <1>b DEF FifoInv, ReaderReady
  <2>7. offer' = offer
    BY <2>1, <1>b
  <2>. QED BY <2>1, <2>3, <2>5, <2>6, <2>7 DEF Fifo!vars
<1>3. CASE LockEmpty(w)
  <2>1. /\ pc[w] = "lock" /\ pc' = [pc EXCEPT ![w] = "advance"]
        /\ UNCHANGED <<buf, value, answer, received>>
    BY <1>3 DEF LockEmpty, GoTo
  <2>2. WriterReady' /\ ReaderReady'
    BY <2>1, <1>b DEF FifoInv, WriterReady, ReaderReady
  <2>3. offer' = offer
    BY <2>1, <1>b
  <2>. QED BY <2>1, <2>2, <2>3 DEF Fifo!vars
<1>4. CASE AdvanceWptr(w)
  <2>1. /\ pc[w] = "advance"
        /\ buf' = WptrAdvanced(buf, 1)
        /\ answer' = [answer EXCEPT ![w] = "OK"]
        /\ UNCHANGED <<value, received>>
    BY <1>4 DEF AdvanceWptr
  <2>2. /\ buf.fill < Length /\ value[w] \in Values
        /\ buf.data[buf.wpos] = value[w]
    BY <2>1 DEF FifoInv, WriterReady
  <2>3. /\ buf'.fill = buf.fill + 1 /\ buf'.fill > 0
        /\ buf'.data = buf.data /\ buf'.rpos = buf.rpos
    BY <2>1, <2>2, <1>c DEF WptrAdvanced, MayAdvanceWptr, Buffers
  <2>4. /\ pc'[w] = "idle"
        /\ \A r \in Readers : pc'[r] = pc[r] \/ pc'[r] = "woken"
    <3>1. \/ pc' = [pc EXCEPT ![w] = "idle"]
          \/ \E t \in Waiting : pc' = NotifyOne([pc EXCEPT ![w] = "idle"], t)
      BY <1>4 DEF AdvanceWptr
    <3>2. \A t \in Waiting : t \in Threads /\ t # w
      BY <2>1 DEF Waiting
    <3>. QED BY <3>1, <3>2, <1>b DEF NotifyOne
  <2>5. WriterReady'
    BY <2>4, <1>b DEF WriterReady
  <2>6. ReaderReady'
    <3>1. Oldest(buf)' = Oldest(buf)
      BY <2>3 DEF Oldest
    <3>. QED BY <3>1, <2>1, <2>3, <2>4 DEF FifoInv, ReaderReady
  <2>7. Fifo!Accept(w)
    <3>1. offer[w] = value[w] /\ offer' = [offer EXCEPT ![w] = Blank]
      BY <2>1, <2>4, <1>b
    <3>2. Stored(buf)' = Append(Stored(buf), value[w])
      BY <2>1, <2>2, <1>c, StoredAppended
    <3>3. value[w] # Blank
      BY <2>2 DEF Values, Blank
    <3>. QED BY <3>1, <3>2, <3>3, <2>1, <2>2, <1>d DEF Fifo!Accept
  <2>. QED BY <2>5, <2>6, <2>7 DEF Fifo!Next
<1>. QED BY <1>1, <1>2, <1>3, <1>4 DEF WriterStep

(***************************************************************************)
(* The same for a step of the reader; it takes the oldest value away.      *)
(***************************************************************************)
LEMMA FifoReader ==
  ASSUME PlainUse, FifoInv, NEW r \in Readers, ReaderStep(r)
  PROVE  /\ WriterReady' /\ ReaderReady'
         /\ [Fifo!Next]_(Fifo!vars)
<1>. USE LengthAssumption
<1>. DEFINE V == Values \cup {Blank}
            offer == [v \in Writers |->
                        IF pc[v] = "idle" THEN Blank ELSE value[v]]
<1>b. /\ r \in Threads /\ r \notin Writers
      /\ \A s \in Readers : s = r
      /\ \A w \in Writers : w \in Threads /\ w # r
      /\ pc \in [Threads -> Points] /\ value \in [Threads -> V]
      /\ answer \in [Threads -> {"none", "OK", "FULL", "EMPTY", "TIMEOUT"}]
  BY RingBufferAssumption DEF Threads, FifoInv, IInv, TypeOK, PlainUse
<1>c. /\ buf \in Buffers(V) /\ Consistent(buf)
      /\ buf.fill \in 0 .. Length /\ buf.wpos \in Slots
  BY DEF FifoInv, IInv, TypeOK, PointersAgree, Buffers
<1>d. /\ Stored(buf) \in Seq(V) /\ Len(Stored(buf)) = buf.fill
  BY <1>c, StoredIsSeq
<1>e. ASSUME \A w \in Writers : pc'[w] = pc[w] /\ value'[w] = value[w]
      PROVE  offer' = offer
  BY <1>e
<1>1. CASE Read(r)
  <2>1. UNCHANGED <<value, received>>
    BY <1>1 DEF Read
  <2>2. PICK given \in TimeoutGiven :
          \/ FindData(r) \/ GiveUpEmpty(r, Mode(ReadPolicy, given))
          \/ WaitForData(r, Mode(ReadPolicy, given))
    BY <1>1 DEF Read, StepBack, PlainUse
  <2>3. buf' = buf
    BY <2>2 DEF FindData, GiveUpEmpty, WaitForData
  <2>4. \A w \in Writers : pc'[w] = pc[w]
    BY <2>2, <1>b DEF FindData, GiveUpEmpty, WaitForData, GoTo, Return
  <2>5. WriterReady'
    BY <2>1, <2>3, <2>4 DEF FifoInv, WriterReady
  <2>6. offer' = offer
    BY <2>1, <2>4, <1>e
  <2>7. CASE FindData(r) \/ WaitForData(r, Mode(ReadPolicy, given))
    <3>1. /\ pc'[r] \in {"get", "wait"} /\ answer' = answer
          /\ pc'[r] = "get" => buf.fill > 0
      BY <2>7, <1>b, <1>c DEF FindData, WaitForData, GoTo, Empty
    <3>2. ReaderReady'
      BY <3>1, <2>3, <1>b DEF ReaderReady
    <3>. QED BY <3>1, <3>2, <2>1, <2>3, <2>5, <2>6 DEF Fifo!vars
  <2>8. CASE GiveUpEmpty(r, Mode(ReadPolicy, given))
    <3>1. /\ pc'[r] = "idle" /\ answer' = [answer EXCEPT ![r] = "EMPTY"]
          /\ buf.fill = 0
      BY <2>8, <1>b DEF GiveUpEmpty, Return, GoTo, Empty
    <3>2. ReaderReady'
      BY <3>1, <1>b DEF ReaderReady
    <3>3. Fifo!Nothing(r)
      BY <3>1, <2>1, <2>3, <2>6, <1>d DEF Fifo!Nothing
    <3>. QED BY <3>2, <3>3, <2>5 DEF Fifo!Next
  <2>. QED BY <2>2, <2>7, <2>8
<1>2. CASE Get(r)
  <2>1. /\ pc[r] = "get" /\ pc' = [pc EXCEPT ![r] = "release"]
        /\ value' = [value EXCEPT ![r] = Oldest(buf)]
        /\ UNCHANGED <<buf, answer, received>>
    BY <1>2 DEF Get, GoTo
  <2>2. WriterReady' /\ ReaderReady'
    BY <2>1, <1>b DEF FifoInv, WriterReady, ReaderReady, Oldest
  <2>3. offer' = offer
    BY <2>1, <1>b, <1>e
  <2>. QED BY <2>1, <2>2, <2>3 DEF Fifo!vars
<1>3. CASE AdvanceRptr(r)
  <2>1. /\ pc[r] = "release" /\ pc' = [pc EXCEPT ![r] = "idle"]
        /\ buf' = RptrAdvanced(buf, 1)
        /\ answer' = [answer EXCEPT ![r] = "OK"]
        /\ received' = Append(received, value[r])
        /\ UNCHANGED value
    BY <1>3 DEF AdvanceRptr, Return, GoTo
  <2>2. buf.fill > 0 /\ value[r] = Oldest(buf)
    BY <2>1 DEF FifoInv, ReaderReady
  <2>3. /\ buf'.fill = buf.fill - 1 /\ buf'.data = buf.data
        /\ buf'.wpos = buf.wpos
    BY <2>1, <2>2, <1>c DEF RptrAdvanced, MayAdvanceRptr, Buffers
  <2>4. WriterReady'
    BY <2>1, <2>3, <1>b, <1>c DEF FifoInv, WriterReady
  <2>5. ReaderReady'
    BY <2>1, <1>b DEF ReaderReady
  <2>6. offer' = offer
    BY <2>1, <1>b, <1>e
  <2>7. Fifo!Deliver(r)
    BY <2>1, <2>2, <2>6, <1>c, StoredTail DEF Fifo!Deliver
  <2>. QED BY <2>4, <2>5, <2>7 DEF Fifo!Next
<1>. QED BY <1>1, <1>2, <1>3 DEF ReaderStep

(***************************************************************************)
(* A wait ends with a notification, for a reader only, or a timeout.       *)
(***************************************************************************)
LEMMA FifoWait ==
  ASSUME PlainUse, FifoInv, NEW t \in Threads, Wake(t) \/ TimeOut(t)
  PROVE  /\ WriterReady' /\ ReaderReady'
         /\ [Fifo!Next]_(Fifo!vars)
<1>. DEFINE offer == [v \in Writers |->
                        IF pc[v] = "idle" THEN Blank ELSE value[v]]
<1>a. /\ pc \in [Threads -> Points]
      /\ \A w \in Writers : w \in Threads /\ w \notin Readers
      /\ \A r \in Readers : r \in Threads
      /\ UNCHANGED <<buf, value, received>>
  BY RingBufferAssumption DEF Threads, FifoInv, IInv, TypeOK, Wake, TimeOut
<1>1. CASE Wake(t)
  <2>1. pc[t] = "woken"
    BY <1>1 DEF Wake, PlainUse
  <2>2. t \in Readers /\ t \notin Writers
    BY <1>a, <2>1 DEF FifoInv, WriterReady, Threads
  <2>3. pc' = [pc EXCEPT ![t] = "get"] /\ answer' = answer
    BY <1>1, <2>2 DEF Wake, GoTo
  <2>4. WriterReady' /\ ReaderReady'
    BY <1>a, <2>1, <2>2, <2>3 DEF FifoInv, WriterReady, ReaderReady, Oldest
  <2>5. offer' = offer
    BY <1>a, <2>2, <2>3
  <2>. QED BY <1>a, <2>3, <2>4, <2>5 DEF Fifo!vars
<1>2. CASE TimeOut(t)
  <2>1. /\ pc[t] \in {"wait", "woken"} /\ pc' = [pc EXCEPT ![t] = "idle"]
        /\ answer' = [answer EXCEPT ![t] = "TIMEOUT"]
    BY <1>2 DEF TimeOut, Return, GoTo
  <2>2. WriterReady' /\ ReaderReady'
    BY <1>a, <2>1 DEF FifoInv, WriterReady, ReaderReady, Oldest
  <2>3. CASE t \in Readers
    <3>1. offer' = offer
      BY <1>a, <2>1, <2>3
    <3>2. Fifo!ReadTimesOut(t)
      BY <1>a, <2>1, <3>1 DEF Fifo!ReadTimesOut
    <3>. QED BY <2>2, <2>3, <3>2 DEF Fifo!Next
  <2>4. CASE t \in Writers
    <3>0. value[t] \in Values /\ value[t] # Blank
      BY <2>1, <2>4 DEF FifoInv, WriterReady, Values, Blank
    <3>1. offer[t] # Blank /\ offer' = [offer EXCEPT ![t] = Blank]
      BY <1>a, <2>1, <2>4, <3>0
    <3>2. Fifo!WriteTimesOut(t)
      BY <1>a, <2>1, <3>1 DEF Fifo!WriteTimesOut
    <3>. QED BY <2>2, <2>4, <3>2 DEF Fifo!Next
  <2>. QED BY <2>3, <2>4 DEF Threads
<1>. QED BY <1>1, <1>2

(***************************************************************************)
(* A buffer of any length in plain use is the bounded queue of BufferFifo: *)
(* every value written is read once, in the order of writing, FULL is      *)
(* answered by a full buffer only and EMPTY by an empty one.               *)
(***************************************************************************)
THEOREM BehavesAsBoundedQueue == PlainUse /\ Spec => BehavesAsFifo
<1>. SUFFICES ASSUME PlainUse PROVE Spec => BehavesAsFifo
  OBVIOUS
<1>1. Init => FifoInv /\ Fifo!Init
  <2>. SUFFICES ASSUME Init PROVE FifoInv /\ Fifo!Init
    OBVIOUS
  <2>1. WriterReady /\ ReaderReady
    BY DEF Init, WriterReady, ReaderReady, Threads
  <2>2. Stored(buf) = << >>
    BY DEF Init, Fresh, Stored
  <2>3. Fifo!Init
    BY <2>2 DEF Init, Fifo!Init, Threads
  <2>. QED BY <2>1, <2>3, InitIInv DEF FifoInv
<1>2. FifoInv /\ [Next]_vars => FifoInv' /\ [Fifo!Next]_(Fifo!vars)
  <2>. SUFFICES ASSUME FifoInv, [Next]_vars
                PROVE  FifoInv' /\ [Fifo!Next]_(Fifo!vars)
    OBVIOUS
  <2>1. IInv'
    BY WriterKeepsIInv, ReaderKeepsIInv, WaitKeepsIInv
       DEF FifoInv, Next, vars, IInv, TypeOK, PointersAgree
  <2>2. CASE Next
    BY <2>1, <2>2, FifoWriter, FifoReader, FifoWait DEF Next, FifoInv
  <2>3. CASE UNCHANGED vars
    BY <2>1, <2>3 DEF vars, FifoInv, WriterReady, ReaderReady, Fifo!vars
  <2>. QED BY <2>2, <2>3
<1>. QED BY <1>1, <1>2, PTL DEF Spec, BehavesAsFifo, Fifo!Spec

-----------------------------------------------------------------------------
(* The reader that waits for data *)

(***************************************************************************)
(* Nobody waits for data that is there.                                    *)
(***************************************************************************)
NoReaderForgotten == \A r \in Readers : pc[r] = "wait" => Empty(buf)

(***************************************************************************)
(* One thread reads, and no writer waits on the condition that the reader  *)
(* waits on while another one writes.  With two readers, or with a writer  *)
(* that waits beside the one that writes, the notification may go to the   *)
(* wrong thread, or not be made for the second value.                      *)
(***************************************************************************)
OneMayWait ==
  /\ \A r, s \in Readers : r = s
  /\ \/ \A v, w \in Writers : v = w
     \/ \A given \in TimeoutGiven : Mode(WritePolicy, given) # "block"

(***************************************************************************)
(* What the writer found under m_empty.mutex is still so for a reader that *)
(* waits when it advances.                                                 *)
(***************************************************************************)
WaitInv ==
  /\ \A w \in Writers : pc[w] = "advance" <=> emptyLock = w
  /\ \A w \in Writers : pc[w] = "wait" => \A v \in Writers : v = w
  /\ \A w \in Writers, r \in Readers :
       pc[w] = "advance" /\ pc[r] = "wait" => empty_[w]
  /\ NoReaderForgotten

LEMMA WriterKeepsWait ==
  ASSUME OneMayWait, IInv, WaitInv, NEW w \in Writers, WriterStep(w)
  PROVE  WaitInv'
<1>. USE RingBufferAssumption DEF Threads
<1>a. /\ pc \in [Threads -> Points] /\ w \in Threads /\ w \notin Readers
      /\ empty_ \in [Writers -> BOOLEAN]
      /\ buf.fill \in 0 .. Length /\ Length \in Nat \ {0}
  BY LengthAssumption DEF IInv, TypeOK, PointersAgree, Consistent
<1>1. CASE Write(w)
  <2>1. PICK given \in TimeoutGiven :
          LET mode == Mode(WritePolicy, given)
          IN  \/ FindRoom(w) \/ MakeRoom(w, mode)
              \/ GiveUpFull(w, mode) \/ WaitForRoom(w, mode)
    BY <1>1 DEF Write
  <2>2. pc[w] = "idle" /\ UNCHANGED <<emptyLock, empty_>>
    BY <1>1 DEF Write, Call
  <2>3. /\ \A t \in Threads : t # w => pc'[t] = pc[t]
        /\ pc'[w] \in {"put", "idle", "wait"}
    BY <1>a, <2>1 DEF FindRoom, MakeRoom, GiveUpFull, WaitForRoom, GoTo, Return
  <2>4. pc'[w] = "wait" => \A v \in Writers : v = w
    BY <1>a, <2>1 DEF FindRoom, MakeRoom, GiveUpFull, WaitForRoom, GoTo, Return,
                      OneMayWait
  <2>5. buf' = buf \/ Full(buf)
    BY <2>1 DEF FindRoom, MakeRoom, GiveUpFull, WaitForRoom
  <2>6. NoReaderForgotten'
    BY <1>a, <2>3, <2>5 DEF WaitInv, NoReaderForgotten, Full, Empty
  <2>. QED
    BY <1>a, <2>2, <2>3, <2>4, <2>6 DEF WaitInv
<1>2. CASE Put(w)
  <2>1. /\ pc[w] = "put" /\ UNCHANGED <<emptyLock, empty_>>
        /\ \A t \in Threads : t # w => pc'[t] = pc[t]
        /\ pc'[w] = "lock"
    BY <1>2, <1>a DEF Put, GoTo
  <2>2. Empty(buf) => Empty(buf')
    BY <1>2, <1>a, FilledOK DEF Put, Empty, Filled, IInv, TypeOK, Buffers
  <2>. QED
    BY <1>a, <2>1, <2>2 DEF WaitInv, NoReaderForgotten
<1>3. CASE LockEmpty(w)
  <2>1. /\ pc[w] = "lock" /\ buf' = buf
        /\ emptyLock = Nobody /\ emptyLock' = w
        /\ \A t \in Threads : t # w => pc'[t] = pc[t]
        /\ pc'[w] = "advance"
        /\ empty_'[w] = Empty(buf)
    BY <1>3, <1>a DEF LockEmpty, GoTo
  <2>2. \A v \in Writers : pc[v] # "advance"
    BY <2>1 DEF WaitInv
  <2>. QED
    BY <1>a, <2>1, <2>2 DEF WaitInv, NoReaderForgotten
<1>4. CASE AdvanceWptr(w)
  <2>1. pc[w] = "advance" /\ emptyLock = w /\ emptyLock' = Nobody
    BY <1>4 DEF AdvanceWptr, WaitInv
  <2>2. \A v \in Writers : v # w => pc[v] # "advance"
    BY <2>1 DEF WaitInv
  <2>3. \A v \in Writers : pc[v] # "wait"
    BY <2>1 DEF WaitInv
  <2>4. /\ pc'[w] = "idle"
        /\ \A t \in Threads \ {w} : pc'[t] = pc[t] \/ pc'[t] = "woken"
    BY <1>4, <1>a, <2>1 DEF AdvanceWptr, NotifyOne, Waiting
  <2>5. \A r \in Readers : pc'[r] # "wait"
    <3>. SUFFICES ASSUME NEW r \in Readers, pc[r] = "wait"
                  PROVE  pc'[r] = "woken"
      BY <1>a, <2>4
    <3>1. empty_[w] /\ Empty(buf)
      BY <2>1 DEF WaitInv, NoReaderForgotten
    <3>2. Notifies(w)
      BY <1>a, <3>1 DEF Notifies, MayAdvanceWptr, Empty
    <3>3. Waiting = {r}
      BY <2>3 DEF Waiting, OneMayWait
    <3>. QED
      BY <1>4, <1>a, <3>2, <3>3 DEF AdvanceWptr, NotifyOne
  <2>6. \A v \in Writers : v # w => pc'[v] # "advance" /\ pc'[v] # "wait"
    BY <1>a, <2>2, <2>3, <2>4
  <2>. QED
    BY <1>a, <2>1, <2>4, <2>5, <2>6 DEF WaitInv, NoReaderForgotten
<1>. QED BY <1>1, <1>2, <1>3, <1>4 DEF WriterStep

LEMMA ReaderKeepsWait ==
  ASSUME OneMayWait, IInv, WaitInv, NEW r \in Readers, ReaderStep(r)
  PROVE  WaitInv'
<1>. USE RingBufferAssumption DEF Threads
<1>a. /\ pc \in [Threads -> Points] /\ r \in Threads /\ r \notin Writers
      /\ \A s \in Readers : s = r
  BY DEF IInv, TypeOK, OneMayWait
<1>1. CASE Read(r)
  <2>1. PICK mode : \/ FindData(r) \/ StepBack(r, mode)
                    \/ GiveUpEmpty(r, mode) \/ WaitForData(r, mode)
    BY <1>1 DEF Read
  <2>2. emptyLock = Nobody /\ UNCHANGED <<emptyLock, empty_>>
    BY <1>1 DEF Read
  <2>3. \A t \in Threads : t # r => pc'[t] = pc[t]
    BY <1>a, <2>1 DEF FindData, StepBack, GiveUpEmpty, WaitForData, GoTo, Return
  <2>4. pc'[r] = "wait" => Empty(buf) /\ buf' = buf
    BY <1>a, <2>1 DEF FindData, StepBack, GiveUpEmpty, WaitForData, GoTo, Return
  <2>5. \A w \in Writers : pc[w] # "advance"
    BY <2>2 DEF WaitInv
  <2>6. \A w \in Writers : pc'[w] = pc[w]
    BY <1>a, <2>3
  <2>. QED
    BY <1>a, <2>2, <2>4, <2>5, <2>6 DEF WaitInv, NoReaderForgotten
<1>2. CASE Get(r) \/ AdvanceRptr(r)
  <2>1. /\ pc'[r] # "wait" /\ UNCHANGED <<emptyLock, empty_>>
        /\ \A t \in Threads : t # r => pc'[t] = pc[t]
    BY <1>2, <1>a DEF Get, AdvanceRptr, GoTo, Return
  <2>2. \A w \in Writers : pc'[w] = pc[w]
    BY <1>a, <2>1
  <2>. QED
    BY <1>a, <2>1, <2>2 DEF WaitInv, NoReaderForgotten
<1>. QED BY <1>1, <1>2 DEF ReaderStep

LEMMA LeavingKeepsWait ==
  ASSUME IInv, WaitInv, NEW t \in Threads, Wake(t) \/ TimeOut(t)
  PROVE  WaitInv'
<1>1. /\ pc'[t] \in {"put", "get", "idle"} /\ pc[t] \in {"wait", "woken"}
      /\ \A u \in Threads : u # t => pc'[u] = pc[u]
      /\ UNCHANGED <<buf, emptyLock, empty_>>
  BY DEF IInv, TypeOK, Wake, TimeOut, GoTo, Return
<1>. QED
  BY <1>1 DEF WaitInv, NoReaderForgotten, Threads

\* A reader that waits for data is notified of the first value: it does not
\* wait any longer once there is one, whenever it began to wait, because the
\* writer looks whether the buffer is empty, and notifies, under the mutex under
\* which the reader looked (RingBuffer.h:329, 360, 739).  This is so for one reader,
\* and if no writer waits beside the one that writes.
THEOREM ReaderIsNotified ==
  ASSUME OneMayWait
  PROVE  Spec => []NoReaderForgotten
<1>1. Init => WaitInv
  BY RingBufferAssumption DEF Init, WaitInv, NoReaderForgotten, Threads
<1>2. (TypeOK /\ PointersAgree) /\ WaitInv /\ [Next]_vars => WaitInv'
  <2>. SUFFICES ASSUME IInv, WaitInv, [Next]_vars PROVE WaitInv'
    BY DEF IInv
  <2>1. CASE Next
    BY <2>1, WriterKeepsWait, ReaderKeepsWait, LeavingKeepsWait DEF Next
  <2>2. CASE UNCHANGED vars
    BY <2>2 DEF vars, WaitInv, NoReaderForgotten
  <2>. QED BY <2>1, <2>2
<1>3. WaitInv => NoReaderForgotten
  BY DEF WaitInv
<1>. QED BY <1>1, <1>2, <1>3, PositionsAgree, PTL DEF Spec
=============================================================================
