---------------------------- MODULE ThreadsProofs ----------------------------
(***************************************************************************)
(* Theorems about the small protocols between the threads of a component   *)
(* that MCThreads puts together: the synchronous hand-over, the externally *)
(* triggered context, the composite context, the configuration, and all of *)
(* them with the publisher "periodic", about which PublisherProofs is.     *)
(***************************************************************************)
EXTENDS MCThreads, PublisherProofs, TLAPS

-----------------------------------------------------------------------------
(* Theorems about SyncReadWrite, for a buffer of every length. *)

(***************************************************************************)
(* What the flags say of where the two calls are.                          *)
(***************************************************************************)
FlagsAgree ==
  /\ readready <=> reader \in {"wait", "read", "complete", "leave"}
  /\ writecompleted <=> writer \in {"await", "clear"}
  /\ reader \in {"ready", "wait", "read", "complete"} => ~readcompleted

(***************************************************************************)
(* A read() that began while the writer was idle takes the value of the    *)
(* write() that answers it, which waits for it in turn.                    *)
(***************************************************************************)
ReadInv ==
  unhurried["read"] =>
    /\ reader \in {"ready", "wait", "read", "complete"} => writer # "clear"
    /\ (reader \in {"ready", "wait", "read"} /\ writer \in {"complete", "await"})
         => inBuffer > 0
    /\ reader = "read" => writer = "await"

(***************************************************************************)
(* A write() that began while the reader was idle finds it waiting, and    *)
(* goes on when the buffer has been read.                                  *)
(***************************************************************************)
WriteInv ==
  unhurried["write"] =>
    /\ writer = "wait" => reader \in {"idle", "ready", "wait"}
    /\ writer \in {"write", "complete"} => reader = "wait"
    /\ writer = "await" => taken \/ reader \in {"wait", "read"}
    /\ writer = "clear" => taken

SyncInv == SyncTypeOK /\ FlagsAgree /\ ReadInv /\ WriteInv

LEMMA SyncInvInit == SyncInit => SyncInv
<1>. SUFFICES ASSUME SyncInit
              PROVE  SyncInv
  OBVIOUS
<1>1. /\ unhurried \in [{"read", "write"} -> BOOLEAN]
      /\ ~unhurried["read"] /\ ~unhurried["write"]
  BY DEF SyncInit
<1>2. inBuffer \in 0 .. Room
  BY RoomAssumption DEF SyncInit
<1>3. SyncTypeOK
  BY <1>1, <1>2 DEF SyncInit, SyncTypeOK
<1>. QED
  BY <1>1, <1>3 DEF SyncInit, SyncInv, FlagsAgree, ReadInv, WriteInv

LEMMA SyncInvNext == SyncInv /\ [SyncNext]_syncVars => SyncInv'
<1>. SUFFICES ASSUME SyncInv, [SyncNext]_syncVars
              PROVE  SyncInv'
  OBVIOUS
<1>. USE RoomAssumption DEF SyncInv, SyncTypeOK
<1>. USE DEF FlagsAgree, ReadInv, WriteInv, flagVars
<1>1. CASE EnterRead
  BY <1>1 DEF EnterRead
<1>2. CASE Ready
  BY <1>2 DEF Ready
<1>3. CASE SeeWritten
  BY <1>3 DEF SeeWritten
<1>4. CASE Read
  BY <1>4 DEF Read
<1>5. CASE CompleteRead
  BY <1>5 DEF CompleteRead
<1>6. CASE LeaveRead
  BY <1>6 DEF LeaveRead
<1>7. CASE EnterWrite
  BY <1>7 DEF EnterWrite
<1>8. CASE SeeReady
  BY <1>8 DEF SeeReady
<1>9. CASE WriteBuffer
  <2>1. inBuffer' \in 1 .. Room
    BY <1>9 DEF WriteBuffer
  <2>2. inBuffer' \in 0 .. Room
    BY <2>1
  <2>3. FlagsAgree'
    BY <1>9 DEF WriteBuffer
  <2>4. ReadInv'
    BY <1>9, <2>1 DEF WriteBuffer
  <2>5. WriteInv'
    BY <1>9 DEF WriteBuffer
  <2>6. SyncTypeOK'
    BY <1>9, <2>2 DEF WriteBuffer
  <2>. QED BY <2>3, <2>4, <2>5, <2>6
<1>10. CASE CompleteWrite
  BY <1>10 DEF CompleteWrite
<1>11. CASE SeeRead
  BY <1>11 DEF SeeRead
<1>12. CASE LeaveWrite
  BY <1>12 DEF LeaveWrite
<1>13. CASE UNCHANGED syncVars
  BY <1>13 DEF syncVars
<1>. QED
  BY <1>1, <1>2, <1>3, <1>4, <1>5, <1>6, <1>7, <1>8, <1>9, <1>10, <1>11,
     <1>12, <1>13 DEF SyncNext, ReadStep, WriteStep

(***************************************************************************)
(* Types, flags and the histories of both calls.                           *)
(***************************************************************************)
THEOREM SyncInvariant == SyncSpec => []SyncInv
BY SyncInvInit, SyncInvNext, PTL DEF SyncSpec

(***************************************************************************)
(* The reader and the writer never wait for each other, with a buffer of   *)
(* any length: each flag is set as long as the call that sets it waits.    *)
(***************************************************************************)
THEOREM NeverWaitForEachOther == SyncSpec => []NeverBothStuck
<1>1. SyncInv => NeverBothStuck
  BY DEF SyncInv, FlagsAgree, NeverBothStuck, ReaderStuck, WriterStuck
<1>. QED BY <1>1, SyncInvariant, PTL

(***************************************************************************)
(* A read() called while no write() is under way finds a value.            *)
(***************************************************************************)
THEOREM SynchronousRead == SyncSpec => []ReadFindsData
<1>1. SyncInv => ReadFindsData
  BY DEF SyncInv, ReadInv, ReadFindsData
<1>. QED BY <1>1, SyncInvariant, PTL

(***************************************************************************)
(* A write() called while no read() is under way returns after the buffer  *)
(* was read.                                                               *)
(***************************************************************************)
THEOREM SynchronousWrite == SyncSpec => []WriteWaitsForRead
<1>1. SyncInv => WriteWaitsForRead
  BY DEF SyncInv, WriteInv, WriteWaitsForRead
<1>. QED BY <1>1, SyncInvariant, PTL

(***************************************************************************)
(* What "synchronous" promises to the calls of both sides.                 *)
(***************************************************************************)
THEOREM SynchronousHandOver == SyncSpec => []HandedOver
<1>1. ReadFindsData /\ WriteWaitsForRead => HandedOver
  BY DEF HandedOver
<1>. QED BY <1>1, SynchronousRead, SynchronousWrite, PTL

-----------------------------------------------------------------------------
(* Theorems about ExtTrigEC, for any set of components and their clients. *)

(***************************************************************************)
(* From the tick it has waited for to the end of its pass the thread finds *)
(* ticked_ set.                                                            *)
(***************************************************************************)
TickedInPass == body \in InPass \cup {"clear"} => ticked_

(***************************************************************************)
(* As long as the destructor has not come, m_svc says that there is a      *)
(* thread; it comes when no call is under way.                             *)
(***************************************************************************)
Alone ==
  /\ ~m_svc /\ destruction = "no" => body = "none"
  /\ m_svc => destruction = "no"
  /\ destruction # "no" =>
       /\ ticker = "idle" /\ control = "idle"
       /\ \A c \in Comps : request[c] = "idle"

TrigInv == TrigTypeOK /\ TickedInPass /\ Alone /\ LastTickKept

LEMMA TrigInvInit == TrigInit => TrigInv
BY DEF TrigInit, TrigInv, TrigTypeOK, TickedInPass, Alone, LastTickKept, InPass

(***************************************************************************)
(* The steps of the thread.                                                *)
(***************************************************************************)
LEMMA ThreadKeepsInv == TrigInv /\ TrigThread => TrigInv'
<1>. SUFFICES ASSUME TrigInv, TrigThread
              PROVE  TrigInv'
  OBVIOUS
<1>. USE DEF TrigInv, TrigTypeOK, TickedInPass, Alone, LastTickKept, InPass,
             memberVars, callVars
<1>1. CASE WaitForTick
  BY <1>1 DEF WaitForTick
<1>2. CASE PreDo
  BY <1>2 DEF PreDo
<1>3. CASE DoAndPostDo
  BY <1>3 DEF DoAndPostDo
<1>4. CASE UpdateAfterPass
  BY <1>4 DEF UpdateAfterPass, UpdateMembers
<1>5. CASE ClearTick
  BY <1>5 DEF ClearTick
<1>6. CASE ThreadRunning
  BY <1>6 DEF ThreadRunning
<1>. QED
  BY <1>1, <1>2, <1>3, <1>4, <1>5, <1>6 DEF TrigThread

(***************************************************************************)
(* start(), stop(), tick() and the destructor.                             *)
(***************************************************************************)
LEMMA ControlKeepsInv ==
  TrigInv /\ (Start \/ OnStarted \/ Stop \/ EnterTick \/ Tick \/ Destroy)
    => TrigInv'
<1>. SUFFICES ASSUME TrigInv,
                     Start \/ OnStarted \/ Stop \/ EnterTick \/ Tick \/ Destroy
              PROVE  TrigInv'
  OBVIOUS
<1>. USE DEF TrigInv, TrigTypeOK, TickedInPass, Alone, LastTickKept, InPass,
             memberVars, threadVars, callVars
<1>1. CASE Start
  BY <1>1 DEF Start
<1>2. CASE OnStarted
  BY <1>2 DEF OnStarted
<1>3. CASE Stop
  BY <1>3 DEF Stop
<1>4. CASE EnterTick
  BY <1>4 DEF EnterTick
<1>5. CASE Tick
  BY <1>5 DEF Tick, SetsTick
<1>6. CASE Destroy
  <2>1. CASE destruction = "no"
    BY <1>6, <2>1 DEF Destroy, SetsTick
  <2>2. CASE destruction = "cleared"
    BY <1>6, <2>2 DEF Destroy, SetsTick
  <2>. QED
    BY <1>6, <2>1, <2>2 DEF Destroy
<1>. QED
  BY <1>1, <1>2, <1>3, <1>4, <1>5, <1>6

(***************************************************************************)
(* The calls of the clients.                                               *)
(***************************************************************************)
LEMMA ClientKeepsInv ==
  ASSUME NEW c \in Comps, TrigInv,
         \/ AddComponent(c) \/ RemoveComponent(c) \/ Request(c)
         \/ ClientStep(c) \/ GiveUp(c)
  PROVE  TrigInv'
<1>. USE DEF TrigInv, TrigTypeOK, TickedInPass, Alone, LastTickKept, InPass,
             memberVars, threadVars, callVars, Goes
<1>1. CASE AddComponent(c)
  BY <1>1 DEF AddComponent, MayCall
<1>2. CASE RemoveComponent(c)
  BY <1>2 DEF RemoveComponent, MayCall
<1>3. CASE Request(c)
  BY <1>3 DEF Request, MayCall
<1>4. CASE GiveUp(c)
  BY <1>4 DEF GiveUp
<1>5. CASE UpdateUnlessRunning(c)
  BY <1>5 DEF UpdateUnlessRunning, UpdateMembers
<1>6. CASE Hook(c)
  BY <1>6 DEF Hook, UpdateMembers
<1>7. CASE FirstTick(c)
  BY <1>7 DEF FirstTick, SetsTick
<1>8. CASE Poll(c)
  BY <1>8 DEF Poll, SetsTick
<1>. QED
  BY <1>1, <1>2, <1>3, <1>4, <1>5, <1>6, <1>7, <1>8 DEF ClientStep

LEMMA TrigInvNext == TrigInv /\ [TrigNext]_trigVars => TrigInv'
<1>. SUFFICES ASSUME TrigInv, [TrigNext]_trigVars
              PROVE  TrigInv'
  OBVIOUS
<1>1. CASE UNCHANGED trigVars
  BY <1>1 DEF TrigInv, TrigTypeOK, TickedInPass, Alone, LastTickKept, trigVars,
              memberVars, threadVars, callVars
<1>2. CASE TrigNext
  BY <1>2, ThreadKeepsInv, ControlKeepsInv, ClientKeepsInv DEF TrigNext
<1>. QED
  BY <1>1, <1>2

(***************************************************************************)
(* Types, the tick of a pass, the destructor.                              *)
(***************************************************************************)
THEOREM TrigInvariant == TrigSpec => []TrigInv
BY TrigInvInit, TrigInvNext, PTL DEF TrigSpec

(***************************************************************************)
(* A destructor that has given its tick does not leave the thread waiting  *)
(* for one (ExtTrigExecutionContext.cpp:67, 106).                          *)
(***************************************************************************)
THEOREM LastTickIsKept == TrigSpec => []LastTickKept
BY TrigInvariant, PTL DEF TrigInv

(***************************************************************************)
(* The hooks leave the list of components alone while the thread makes a   *)
(* pass over it (ExtTrigExecutionContext.cpp:117, 370).                    *)
(***************************************************************************)
THEOREM HooksLeavePassAlone == TrigSpec => HookLeavesPassAlone
<1>1. TrigInv =>
        ((body \in InPass /\ \E c \in Comps : Hook(c)) => UNCHANGED members)
  BY DEF TrigInv, TickedInPass, Hook, memberVars
<1>. QED
  BY <1>1, TrigInvariant, PTL DEF HookLeavesPassAlone

-----------------------------------------------------------------------------
(* Theorems about CompositeEC, for any number of tasks. *)

(***************************************************************************)
(* Between two passes of the context a task is done, or on its way back to *)
(* the point where it waits to be released; in a pass it is about to begin *)
(* its own, in it, or about to return with one made.                       *)
(***************************************************************************)
Resting(t) ==
  \/ child[t] = "leave" /\ signal_[t]
  \/ /\ child[t] \in {"suspend", "wait", "woken", "begin", "await"}
     /\ ~signal_[t]

Working(t) ==
  \/ child[t] = "await" /\ signal_[t] /\ passes[t] = 0
  \/ child[t] = "pass" /\ ~signal_[t] /\ passes[t] = 0
  \/ child[t] \in {"finish", "leave"} /\ ~signal_[t] /\ passes[t] = 1

(***************************************************************************)
(* What each task is doing follows from where the owner is.                *)
(***************************************************************************)
TaskInv(t) ==
  /\ running_[t] <=> child[t] \in {"await", "pass", "finish"}
  /\ owner \in {"preDo", "do"} => Resting(t)
  /\ owner = "do" => passes[t] = 0
  /\ owner \in {"signal", "signalled", "release"} =>
       IF t < i THEN Working(t) ELSE Resting(t) /\ passes[t] = 0
  /\ owner = "release" /\ t = i => child[t] = "await"
  /\ owner \in {"join", "let"} =>
       IF t < i THEN Resting(t) /\ passes[t] = 1 ELSE Working(t)
  /\ owner = "let" /\ t = i => child[t] = "leave"

CompInv ==
  /\ CompTypeOK
  /\ owner \in {"signalled", "release", "let"} => i <= NTasks
  /\ \A t \in Tasks : TaskInv(t)

LEMMA CompInvInit == CompInit => CompInv
BY TasksAssumption
   DEF CompInit, CompInv, CompTypeOK, OwnerPass, TaskInv, Resting, Tasks

(***************************************************************************)
(* A step of the owner.                                                    *)
(***************************************************************************)
LEMMA OwnerKeepsInv == CompInv /\ (OwnerPreDo \/ OwnerStep) => CompInv'
<1>. SUFFICES ASSUME CompInv, OwnerPreDo \/ OwnerStep
              PROVE  CompInv'
  OBVIOUS
<1>. USE TasksAssumption
     DEF CompInv, CompTypeOK, OwnerPass, TaskInv, Resting, Working, Tasks,
         childVars
<1>1. CASE OwnerPreDo
  BY <1>1 DEF OwnerPreDo
<1>2. CASE OwnerDo
  BY <1>2 DEF OwnerDo
<1>3. CASE SignalChild
  BY <1>3 DEF SignalChild
<1>4. CASE Signalled
  BY <1>4, SMTT(60) DEF Signalled
<1>5. CASE ReleaseChild
  BY <1>5 DEF ReleaseChild
<1>6. CASE AllSignalled
  BY <1>6 DEF AllSignalled
<1>7. CASE JoinChild
  BY <1>7 DEF JoinChild
<1>8. CASE LetGo
  BY <1>8 DEF LetGo
<1>9. CASE AllJoined
  BY <1>9 DEF AllJoined
<1>. QED
  BY <1>1, <1>2, <1>3, <1>4, <1>5, <1>6, <1>7, <1>8, <1>9 DEF OwnerStep

(***************************************************************************)
(* A step of a task.                                                       *)
(***************************************************************************)
LEMMA ChildKeepsInv ==
  ASSUME CompInv, NEW t \in Tasks, ChildStep(t) \/ WakeUpAlone(t)
  PROVE  CompInv'
<1>. USE TasksAssumption
     DEF CompInv, CompTypeOK, OwnerPass, TaskInv, Resting, Working, Tasks,
         ownerVars, ChildGoes
<1>1. CASE SuspendChild(t)
  BY <1>1 DEF SuspendChild
<1>2. CASE WakeUpChild(t)
  BY <1>2 DEF WakeUpChild
<1>3. CASE BeginChild(t)
  BY <1>3 DEF BeginChild
<1>4. CASE AwaitRelease(t)
  BY <1>4 DEF AwaitRelease
<1>5. CASE MembersPass(t)
  BY <1>5 DEF MembersPass
<1>6. CASE FinishChild(t)
  BY <1>6 DEF FinishChild
<1>7. CASE LeaveChild(t)
  BY <1>7, SMTT(40) DEF LeaveChild
<1>8. CASE WakeUpAlone(t)
  BY <1>8 DEF WakeUpAlone
<1>. QED
  BY <1>1, <1>2, <1>3, <1>4, <1>5, <1>6, <1>7, <1>8 DEF ChildStep

LEMMA CompInvNext == CompInv /\ [CompNext]_compVars => CompInv'
<1>. SUFFICES ASSUME CompInv, [CompNext]_compVars
              PROVE  CompInv'
  OBVIOUS
<1>1. CASE UNCHANGED compVars
  BY <1>1 DEF CompInv, CompTypeOK, TaskInv, Resting, Working, compVars,
              ownerVars, childVars
<1>2. CASE CompNext
  BY <1>2, OwnerKeepsInv, ChildKeepsInv DEF CompNext
<1>. QED
  BY <1>1, <1>2

(***************************************************************************)
(* Where the tasks are in each phase of the owner's pass.                  *)
(***************************************************************************)
THEOREM CompInvariant == CompSpec => []CompInv
BY CompInvInit, CompInvNext, PTL DEF CompSpec

(***************************************************************************)
(* The members are never executed while the owner is, however often their  *)
(* threads are woken, and each of them is executed once in a pass          *)
(* (MultilayerCompositeEC.cpp:109, 117, 284, 345).                         *)
(***************************************************************************)
THEOREM MembersRunInStep == CompSpec => []MembersInStep
<1>1. CompInv => MembersApart
  BY DEF CompInv, CompTypeOK, TaskInv, Resting, OwnerPass, MembersApart
<1>2. CompInv => MembersRunOnce
  BY TasksAssumption
     DEF CompInv, CompTypeOK, TaskInv, MembersRunOnce, Tasks
<1>. QED
  BY <1>1, <1>2, CompInvariant, PTL DEF MembersInStep

-----------------------------------------------------------------------------
(* Theorems about ConfigUpdate, for any sets, parameters and clients. *)

(***************************************************************************)
(* A client has changed something, or is about to, and has not yet set     *)
(* m_changed.                                                              *)
(***************************************************************************)
Dirty ==
  \E e \in Editors :
    edit[e].pc \in {"values", "flag", "name", "active", "changed"}

EditInv ==
  /\ \A e \in Editors : edit[e].pc \in {"values", "name"} => edit[e].set \in Sets
  /\ torn = {e \in Editors : edit[e].pc = "name"}

(***************************************************************************)
(* update() holds m_changed up.  What it has copied is what the active set *)
(* has now, unless a change has not set the flag yet or has set it since   *)
(* the test.                                                               *)
(***************************************************************************)
Copied(p) == param[p] = sets[activeId][p]

UpdateInv ==
  /\ update # "idle" => changed
  /\ update = "clear" => left = {}
  /\ update = "values" => using \in Sets
  /\ update \in {"values", "clear"} /\ ~late /\ ~Dirty =>
       \/ using = NoSet /\ activeId \notin exists
       \/ /\ using = activeId /\ activeId \in exists
          /\ \A p \in Params \ left : Copied(p)
  /\ update = "idle" /\ ~changed /\ ~late /\ ~Dirty /\ activeId \in exists =>
       \A p \in Params : Copied(p)

ConfigInv == ConfigTypeOK /\ EditInv /\ UpdateInv

LEMMA ConfigInvInit == ConfigInit => ConfigInv
<1>. SUFFICES ASSUME ConfigInit
              PROVE  ConfigInv
  OBVIOUS
<1>1. ConfigTypeOK
  BY ConfigAssumption DEF ConfigInit, ConfigTypeOK, Edit, NoEdit
<1>2. EditInv
  BY DEF ConfigInit, EditInv, NoEdit
<1>3. UpdateInv
  BY DEF ConfigInit, UpdateInv
<1>. QED
  BY <1>1, <1>2, <1>3 DEF ConfigInv

(***************************************************************************)
(* The steps of update().                                                  *)
(***************************************************************************)
LEMMA UpdateKeepsInv == ConfigInv /\ UpdateStep => ConfigInv'
<1>. SUFFICES ASSUME ConfigInv, UpdateStep
              PROVE  ConfigInv'
  OBVIOUS
<1>. USE ConfigAssumption
     DEF ConfigInv, ConfigTypeOK, EditInv, UpdateInv, Copied, adminVars
<1>1. Dirty' <=> Dirty
  BY DEF UpdateStep, Dirty, TestChanged, TestActive, BeginUpdate, UpdateParam,
         ClearChanged
<1>2. CASE TestChanged
  BY <1>1, <1>2 DEF TestChanged
<1>3. CASE TestActive
  BY <1>1, <1>3 DEF TestActive
<1>4. CASE BeginUpdate
  <2>1. ~Dirty => torn = {}
    BY DEF Dirty
  <2>. QED
    BY <1>1, <1>4, <2>1 DEF BeginUpdate
<1>5. CASE UpdateParam
  BY <1>1, <1>5 DEF UpdateParam
<1>6. CASE ClearChanged
  BY <1>1, <1>6 DEF ClearChanged
<1>. QED
  BY <1>2, <1>3, <1>4, <1>5, <1>6 DEF UpdateStep

(***************************************************************************)
(* While a client is at work there is nothing to show.                     *)
(***************************************************************************)
LEMMA DirtyKeepsInv ==
  ASSUME ConfigInv, ConfigTypeOK', EditInv', Dirty', UNCHANGED updateVars,
         changed' = changed
  PROVE  ConfigInv'
BY DEF ConfigInv, UpdateInv, updateVars

(***************************************************************************)
(* Neither is there when it has just set the flag.                         *)
(***************************************************************************)
LEMMA FlagKeepsInv ==
  ASSUME ConfigInv, ConfigTypeOK', EditInv', UNCHANGED updateVars, SetChanged
  PROVE  ConfigInv'
BY DEF ConfigInv, UpdateInv, updateVars, SetChanged

(***************************************************************************)
(* The steps of a client.                                                  *)
(***************************************************************************)
LEMMA EditKeepsInv ==
  ASSUME ConfigInv, NEW e \in Editors,
         ChangeSet(e) \/ RemoveSet(e) \/ ActivateSet(e) \/ EditStep(e)
  PROVE  ConfigInv'
<1>. USE ConfigAssumption
     DEF ConfigInv, ConfigTypeOK, EditInv, Edit, updateVars, Goto, Leave,
         NoEdit
<1>1. CASE ChangeSet(e)
  <2>1. ConfigTypeOK' /\ EditInv' /\ Dirty'
    BY <1>1 DEF ChangeSet, Dirty
  <2>. QED
    BY <1>1, <2>1, DirtyKeepsInv DEF ChangeSet
<1>2. CASE ChangeValue(e)
  <2>1. /\ UNCHANGED <<exists, newConfig, activeId, active, changed, torn,
                       updateVars, late>>
        /\ edit[e].pc = "values"
    BY <1>2 DEF ChangeValue
  <2>2. CASE edit[e].left = {}
    <3>1. sets' = sets /\ edit' = [edit EXCEPT ![e].pc = "flag"]
      BY <1>2, <2>2 DEF ChangeValue
    <3>2. ConfigTypeOK' /\ EditInv'
      BY <2>1, <3>1, ZenonT(40)
    <3>3. Dirty'
      BY <3>1 DEF Dirty
    <3>. QED
      BY <2>1, <3>2, <3>3, DirtyKeepsInv
  <2>3. CASE edit[e].left # {}
    <3>1. PICK p \in edit[e].left, v \in Versions :
            /\ sets' = [sets EXCEPT ![edit[e].set][p] = v]
            /\ edit' = [edit EXCEPT ![e].left = @ \ {p}]
      BY <1>2, <2>3 DEF ChangeValue
    <3>2. sets' \in [Sets -> [Params -> Versions]]
      BY <2>1, <3>1
    <3>3. ConfigTypeOK' /\ EditInv'
      BY <2>1, <3>1, <3>2
    <3>4. Dirty'
      BY <2>1, <3>1 DEF Dirty
    <3>. QED
      BY <2>1, <3>3, <3>4, DirtyKeepsInv
  <2>. QED
    BY <2>2, <2>3
<1>3. CASE RemoveSet(e)
  <2>1. ConfigTypeOK'
    <3>1. exists' \subseteq Sets /\ newConfig' \subseteq Sets
      BY <1>3 DEF RemoveSet
    <3>2. edit' = [edit EXCEPT ![e].pc = "flag"]
      BY <1>3 DEF RemoveSet
    <3>3. edit' \in [Editors -> Edit]
      BY <3>2
    <3>. QED
      BY <1>3, <3>1, <3>3 DEF RemoveSet
  <2>2. EditInv'
    BY <1>3 DEF RemoveSet
  <2>3. Dirty'
    BY <1>3 DEF RemoveSet, Dirty
  <2>. QED
    BY <1>3, <2>1, <2>2, <2>3, DirtyKeepsInv DEF RemoveSet
<1>4. CASE SetFlag(e)
  <2>1. ConfigTypeOK' /\ EditInv'
    BY <1>4, ZenonT(40) DEF SetFlag, SetChanged
  <2>. QED
    BY <1>4, <2>1, FlagKeepsInv DEF SetFlag
<1>5. CASE SetInactive(e)
  <2>1. ConfigTypeOK' /\ EditInv' /\ (Dirty' <=> Dirty)
    BY <1>5 DEF SetInactive, Dirty
  <2>. QED
    BY <1>5, <2>1 DEF SetInactive, UpdateInv, Copied
<1>6. CASE ActivateSet(e)
  <2>1. PICK s \in exists :
          /\ edit' = [edit EXCEPT ![e] = [NoEdit EXCEPT !.pc = "name", !.set = s]]
          /\ torn' = torn \cup {e}
    BY <1>6 DEF ActivateSet
  <2>2. ConfigTypeOK'
    BY <1>6, <2>1 DEF ActivateSet
  <2>3. EditInv'
    BY <2>1
  <2>4. Dirty'
    BY <2>1 DEF Dirty
  <2>. QED
    BY <1>6, <2>2, <2>3, <2>4, DirtyKeepsInv DEF ActivateSet
<1>7. CASE SetName(e)
  <2>1. ConfigTypeOK' /\ EditInv' /\ Dirty'
    BY <1>7, ZenonT(40) DEF SetName, Dirty
  <2>. QED
    BY <1>7, <2>1, DirtyKeepsInv DEF SetName
<1>8. CASE SetActive(e)
  <2>1. ConfigTypeOK' /\ EditInv' /\ Dirty'
    BY <1>8, ZenonT(40) DEF SetActive, Dirty
  <2>. QED
    BY <1>8, <2>1, DirtyKeepsInv DEF SetActive
<1>9. CASE FlagActivated(e)
  <2>1. ConfigTypeOK' /\ EditInv'
    BY <1>9 DEF FlagActivated, SetChanged
  <2>. QED
    BY <1>9, <2>1, FlagKeepsInv DEF FlagActivated
<1>. QED
  BY <1>1, <1>2, <1>3, <1>4, <1>5, <1>6, <1>7, <1>8, <1>9 DEF EditStep

LEMMA ConfigInvNext == ConfigInv /\ [ConfigNext]_configVars => ConfigInv'
<1>. SUFFICES ASSUME ConfigInv, [ConfigNext]_configVars
              PROVE  ConfigInv'
  OBVIOUS
<1>1. CASE UNCHANGED configVars
  BY <1>1 DEF ConfigInv, ConfigTypeOK, EditInv, UpdateInv, Dirty, Copied,
              configVars, adminVars, updateVars
<1>2. CASE ConfigNext
  BY <1>2, UpdateKeepsInv, EditKeepsInv DEF ConfigNext
<1>. QED
  BY <1>1, <1>2

(***************************************************************************)
(* What update() has copied, and who is about to set m_changed.            *)
(***************************************************************************)
THEOREM ConfigInvariant == ConfigSpec => []ConfigInv
BY ConfigInvInit, ConfigInvNext, PTL DEF ConfigSpec

(***************************************************************************)
(* At rest, the variables have the values of the active set, unless the    *)
(* last change set the flag under update() (ConfigAdmin.cpp:132).          *)
(***************************************************************************)
THEOREM ActiveSetIsApplied == ConfigSpec => []ActiveSetApplied
<1>1. ConfigInv => ActiveSetApplied
  BY DEF ConfigInv, UpdateInv, Copied, Dirty, ActiveSetApplied, EditorsAtRest
<1>. QED
  BY <1>1, ConfigInvariant, PTL

-----------------------------------------------------------------------------
(* The protocols together *)

(***************************************************************************)
(* A step of one protocol leaves the variables of the others alone.        *)
(***************************************************************************)
ThreadsInv ==
  SyncInv /\ TrigInv /\ CompInv /\ ConfigInv /\ PacedInv /\ ReadbackOK

LEMMA ThreadsInvNext == ThreadsInv /\ [ThreadsNext]_allVars => ThreadsInv'
<1>. SUFFICES ASSUME ThreadsInv, [ThreadsNext]_allVars
              PROVE  ThreadsInv'
  OBVIOUS
<1>1. /\ [SyncNext]_syncVars /\ [TrigNext]_trigVars /\ [CompNext]_compVars
      /\ [ConfigNext]_configVars /\ [PeriodicNext]_periodicVars
  BY DEF ThreadsNext, Sync, Trigger, Composite, Config, Periodic, allVars
<1>2. SyncInv' /\ TrigInv' /\ CompInv' /\ ConfigInv'
  BY <1>1, SyncInvNext, TrigInvNext, CompInvNext, ConfigInvNext DEF ThreadsInv
<1>3. PacedInv'
  BY <1>1, PacedStep DEF ThreadsInv
<1>4. ReadbackOK'
  BY <1>1, ReadbackNext DEF ThreadsInv
<1>. QED BY <1>2, <1>3, <1>4 DEF ThreadsInv

(***************************************************************************)
(* Every variable of every protocol keeps its type when they are put       *)
(* together: the small protocols share no state.                           *)
(***************************************************************************)
THEOREM ThreadsTypes == ThreadsSpec => []ThreadsTypeOK
<1>1. ThreadsInit => ThreadsInv
  <2>1. ThreadsInit => PacedInv /\ ReadbackOK
    BY PacedInit DEF ThreadsInit, PeriodicInit, ReadbackOK
  <2>. QED BY <2>1, SyncInvInit, TrigInvInit, CompInvInit, ConfigInvInit
           DEF ThreadsInit, ThreadsInv
<1>2. ThreadsInv => ThreadsTypeOK
  BY DEF ThreadsInv, SyncInv, TrigInv, CompInv, ConfigInv, PacedInv, BaseInv,
         CountedInv, ReadbackOK, PeriodicTypeOK, ThreadsTypeOK
<1>. QED BY <1>1, <1>2, ThreadsInvNext, PTL DEF ThreadsSpec
=============================================================================
