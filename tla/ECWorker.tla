------------------------------ MODULE ECWorker ------------------------------
(***************************************************************************)
(* The membership of an execution context:                                 *)
(* src/src/lib/rtm/ExecutionContextWorker.cpp, with the calls that         *)
(* ExecutionContextBase::addComponent and removeComponent make around it   *)
(* and the hooks of PeriodicExecutionContext.                              *)
(*                                                                         *)
(* A component that is added or removed is first put on a list of its own; *)
(* updateComponentList() brings m_comps up to date.  The thread of the     *)
(* context does so at the end of each pass, under m_mutex; a client does   *)
(* so, under m_mutex, when the context is not running, and again, under    *)
(* the mutex of the gate, when the gate is closed.                         *)
(*                                                                         *)
(* What closes and opens the gate is module PeriodicEC; here a client does *)
(* either at any time.  The components' states and callbacks are left out. *)
(* A state machine object is a record: its component and a serial number.  *)
(***************************************************************************)
EXTENDS Integers, SequencesExt

CONSTANTS Clients,
          Participants,   \* components that may be added
          Owner,          \* the component the context was created for
          Ops,            \* the operations the clients call
          MaxObjects,     \* bound: state machine objects ever created
          Disciplined     \* do callers observe MayAdd and MayRemove?

Operations == {"add", "remove", "start", "stop", "open", "close"}

ASSUME WorkerAssumption ==
  /\ Owner \notin Participants
  /\ Ops \subseteq Operations
  /\ MaxObjects \in Nat \ {0}
  /\ Disciplined \in BOOLEAN

VARIABLES
  m_comps, m_addedComps, m_removedComps,  \* lists of state machine objects
  participants,    \* ExecutionContextProfile: the components, in a list
  deleted,         \* history: the objects deleted
  created,         \* history: how many objects were created
  m_running, running_,                    \* the context; its gate
  pc, pos,                                \* the thread: phase, position
  cpc, op, target, found,                 \* the clients
  aborted          \* the process has ended in an assertion

lists == <<m_comps, m_addedComps, m_removedComps, deleted>>
clientVars == <<cpc, op, target, found>>
threadVars == <<pc, pos>>
flags == <<m_running, running_>>
vars == <<lists, participants, created, flags, threadVars, clientVars, aborted>>

Objects == [comp : Participants \cup {Owner}, id : 1..MaxObjects]

Nothing == [comp |-> Owner, id |-> 0]

Iterating == {"preDo", "do", "postDo"}

ClientSteps == {"idle", "update", "profile", "hook", "pushed", "opening",
                "stopping"}

(* Every variable has its type.                                            *)
TypeOK ==
  /\ m_comps \in Seq(Objects) /\ m_addedComps \in Seq(Objects)
  /\ m_removedComps \in Seq(Objects) /\ deleted \subseteq Objects
  /\ participants \in Seq(Participants) /\ created \in 0..MaxObjects
  /\ m_running \in BOOLEAN /\ running_ \in BOOLEAN /\ aborted \in BOOLEAN
  /\ pc \in Iterating \cup {"none", "gate", "update"}
  /\ pos \in 1..MaxObjects
  /\ cpc \in [Clients -> ClientSteps]
  /\ op \in [Clients -> Operations \cup {"none"}]
  /\ target \in [Clients -> Participants \cup {Owner}]
  /\ found \in [Clients -> Objects \cup {Nothing}]

(* bindComponent() has made the owner a member.                            *)
Init ==
  /\ m_comps = <<[comp |-> Owner, id |-> 1]>>
  /\ m_addedComps = <<>> /\ m_removedComps = <<>> /\ deleted = {}
  /\ participants = <<>> /\ created = 1
  /\ m_running = FALSE /\ running_ = FALSE
  /\ pc = "none" /\ pos = 1
  /\ cpc = [k \in Clients |-> "idle"]
  /\ op = [k \in Clients |-> "none"]
  /\ target = [k \in Clients |-> Owner]
  /\ found = [k \in Clients |-> Nothing]
  /\ aborted = FALSE

-----------------------------------------------------------------------------
(* What is left of a list, in its order, when the objects in gone are      *)
(* erased from it: the place of an object is how many stay up to it.       *)
Without(list, gone) ==
  LET stays == {i \in DOMAIN list : list[i] \notin gone}
      place == [i \in stays |-> Cardinality({h \in stays : h <= i})]
  IN  [n \in 1..Cardinality(stays) |-> list[CHOOSE i \in stays : place[i] = n]]

(* updateComponentList(): the added objects become members, the removed    *)
(* ones cease to be and are deleted.  An object that is to be removed but  *)
(* is no member fails the assertion that it was found; one that is listed  *)
(* twice is read after it was deleted, and fails it too.                   *)
Removable(members) ==
  /\ IsInjective(m_removedComps)
  /\ ToSet(m_removedComps) \subseteq ToSet(members)

(* Mutant: a list is not emptied.                                         *)
KeepAdded ==
  LET members == m_comps \o m_addedComps IN
  IF Removable(members)
  THEN /\ m_comps' = Without(members, ToSet(m_removedComps))
       /\ m_removedComps' = <<>>
       /\ deleted' = deleted \cup ToSet(m_removedComps)
       /\ UNCHANGED <<m_addedComps, aborted>>
  ELSE aborted' = TRUE /\ UNCHANGED lists

updateComponentList ==
  LET members == m_comps \o m_addedComps IN
  IF Removable(members)
  THEN /\ m_comps' = Without(members, ToSet(m_removedComps))
       /\ m_addedComps' = <<>>
       /\ m_removedComps' = <<>>
       /\ deleted' = deleted \cup ToSet(m_removedComps)
       /\ UNCHANGED aborted
  ELSE aborted' = TRUE /\ UNCHANGED lists

NoUpdate == UNCHANGED <<lists, aborted>>

UpdateIf(applies) == IF applies THEN updateComponentList ELSE NoUpdate

-----------------------------------------------------------------------------
(* The thread: invokeWorkerPreDo, the gate, invokeWorkerDo and             *)
(* invokeWorkerPostDo, which ends with the update.  The loops take m_comps *)
(* as it is, one member a step, without a lock.                            *)
(* Mutant: the loop counts from zero.                                      *)
PhaseFromZero(here, after) ==
  /\ pc = here
  /\ IF pos < Len(m_comps) THEN pc' = here /\ pos' = pos + 1
                           ELSE pc' = after /\ pos' = 0
  /\ UNCHANGED <<lists, participants, created, flags, clientVars, aborted>>

Phase(here, after) ==
  /\ pc = here
  /\ IF pos < Len(m_comps) THEN pc' = here /\ pos' = pos + 1
                           ELSE pc' = after /\ pos' = 1
  /\ UNCHANGED <<lists, participants, created, flags, clientVars, aborted>>

invokeWorkerPreDo == Phase("preDo", "gate")
invokeWorkerDo == Phase("do", "postDo")
invokeWorkerPostDo == Phase("postDo", "update")

Gate ==
  /\ pc = "gate"
  /\ running_
  /\ pc' = "do"
  /\ UNCHANGED <<lists, participants, created, flags, pos, clientVars, aborted>>

(* Mutant: the thread leaves the lists to the clients.                     *)
UpdateSkipped ==
  /\ pc = "update"
  /\ pc' = "preDo"
  /\ NoUpdate
  /\ UNCHANGED <<participants, created, flags, pos, clientVars>>

Update ==
  /\ pc = "update"
  /\ pc' = "preDo"
  /\ updateComponentList
  /\ UNCHANGED <<participants, created, flags, pos, clientVars>>

Thread == invokeWorkerPreDo \/ Gate \/ invokeWorkerDo \/ invokeWorkerPostDo
            \/ Update

-----------------------------------------------------------------------------
(* The clients.                                                            *)

MayCall(k, o) == cpc[k] = "idle" /\ o \in Ops

GoOn(k, step) == cpc' = [cpc EXCEPT ![k] = step]

Enter(k, o, c, step) ==
  /\ GoOn(k, step)
  /\ op' = [op EXCEPT ![k] = o]
  /\ target' = [target EXCEPT ![k] = c]

Return(k) ==
  /\ GoOn(k, "idle")
  /\ op' = [op EXCEPT ![k] = "none"]
  /\ target' = [target EXCEPT ![k] = Owner]
  /\ found' = [found EXCEPT ![k] = Nothing]

(* What a careful caller observes, when the clients are disciplined: one   *)
(* call at a time about a component, which is added when the context has   *)
(* nothing of it, and removed when the profile lists it.                   *)
Alone(c) == \A k \in Clients : target[k] # c

MayAdd(c) ==
  Disciplined =>
    Alone(c) /\ \A o \in ToSet(m_comps \o m_addedComps) : o.comp # c

MayRemove(c) == Disciplined => Alone(c) /\ Contains(participants, c)

(* addComponent(): attach_context, and a new object under m_addedMutex.    *)
AddComponent(k) ==
  \E c \in Participants :
    /\ MayCall(k, "add")
    /\ MayAdd(c)
    /\ created < MaxObjects
    /\ created' = created + 1
    /\ m_addedComps' = Append(m_addedComps, [comp |-> c, id |-> created + 1])
    /\ Enter(k, "add", c, "update")
    /\ UNCHANGED <<m_comps, m_removedComps, deleted, participants, found,
                   flags, threadVars, aborted>>

(* removeComponent(): findComponent looks through m_comps under m_mutex;   *)
(* when the component is not there the call fails and changes nothing.     *)
RemoveComponent(k) ==
  \E c \in Participants :
    /\ MayCall(k, "remove")
    /\ MayRemove(c)
    /\ LET n == SelectInSeq(m_comps, LAMBDA o : o.comp = c) IN
       /\ n > 0
       /\ found' = [found EXCEPT ![k] = m_comps[n]]
       /\ Enter(k, "remove", c, "pushed")
    /\ UNCHANGED <<lists, participants, created, flags, threadVars, aborted>>

PushRemoved(k) ==
  /\ cpc[k] = "pushed"
  /\ m_removedComps' = Append(m_removedComps, found[k])
  /\ GoOn(k, "update")
  /\ UNCHANGED <<m_comps, m_addedComps, deleted, participants, created, op,
                 target, found, flags, threadVars, aborted>>

UpdateUnlessRunning(k) ==
  /\ cpc[k] = "update"
  /\ UpdateIf(~m_running)
  /\ GoOn(k, "profile")
  /\ UNCHANGED <<participants, created, op, target, found, flags, threadVars>>

(* ExecutionContextProfile::addComponent, removeComponent: a component     *)
(* that is no participant ends the call.                                   *)
ProfileUnchanged(k) ==
  /\ cpc[k] = "profile"
  /\ GoOn(k, "hook")
  /\ UNCHANGED <<participants, op, target, found, lists, created, flags,
                 threadVars, aborted>>

UpdateProfile(k) ==
  /\ cpc[k] = "profile"
  /\ \/ /\ op[k] = "add"
        /\ participants' = Append(participants, target[k])
        /\ GoOn(k, "hook")
        /\ UNCHANGED <<op, target, found>>
     \/ /\ op[k] = "remove"
        /\ Contains(participants, target[k])
        /\ participants' = RemoveFirst(participants, target[k])
        /\ GoOn(k, "hook")
        /\ UNCHANGED <<op, target, found>>
     \/ /\ op[k] = "remove"
        /\ ~Contains(participants, target[k])
        /\ Return(k)
        /\ UNCHANGED participants
  /\ UNCHANGED <<lists, created, flags, threadVars, aborted>>

(* onAddedComponent(), onRemovedComponent(), under the mutex of the gate.  *)
Hook(k) ==
  /\ cpc[k] = "hook"
  /\ UpdateIf(~running_)
  /\ Return(k)
  /\ UNCHANGED <<participants, created, flags, threadVars>>

(* start(): m_running, then onStarted(): the thread, then the gate.        *)
Start(k) ==
  /\ MayCall(k, "start")
  /\ ~m_running
  /\ m_running' = TRUE
  /\ Enter(k, "start", Owner, "opening")
  /\ UNCHANGED <<lists, participants, created, running_, threadVars, found,
                 aborted>>

OnStarted(k) ==
  /\ cpc[k] = "opening"
  /\ IF pc = "none" THEN pc' = "preDo" ELSE UNCHANGED pc
  /\ running_' \in BOOLEAN
  /\ Return(k)
  /\ UNCHANGED <<lists, participants, created, m_running, pos, aborted>>

(* stop(): the gate, then m_running.                                       *)
OnStopping(k) ==
  /\ MayCall(k, "stop")
  /\ running_' = FALSE
  /\ Enter(k, "stop", Owner, "stopping")
  /\ UNCHANGED <<lists, participants, created, m_running, threadVars, found,
                 aborted>>

Stop(k) ==
  /\ cpc[k] = "stopping"
  /\ m_running' = FALSE
  /\ Return(k)
  /\ UNCHANGED <<lists, participants, created, running_, threadVars, aborted>>

(* An activation opens the gate of a running context; a deactivation or a  *)
(* reset closes it.                                                        *)
SetGate(k) ==
  /\ \/ MayCall(k, "open") /\ m_running /\ running_' = TRUE
     \/ MayCall(k, "close") /\ running_' = FALSE
  /\ UNCHANGED <<lists, participants, created, m_running, threadVars,
                 clientVars, aborted>>

Call(k) == \/ AddComponent(k) \/ RemoveComponent(k) \/ Start(k)
           \/ OnStopping(k) \/ SetGate(k)

Progress(k) == \/ PushRemoved(k) \/ UpdateUnlessRunning(k) \/ UpdateProfile(k)
               \/ Hook(k) \/ OnStarted(k) \/ Stop(k)

Next == /\ ~aborted
        /\ Thread \/ \E k \in Clients : Call(k) \/ Progress(k)

Spec == Init /\ [][Next]_vars

(* Nothing makes a client call; its steps and the thread's go on.          *)
Fairness == WF_vars(~aborted /\ Thread)
              /\ \A k \in Clients : WF_vars(~aborted /\ Progress(k))

FairSpec == Spec /\ Fairness

-----------------------------------------------------------------------------
(* Properties.                                                             *)

(* ExecutionContextWorker.cpp:481, "m_comps never changes its size here":  *)
(* the list is not changed while the thread iterates over it.              *)
StableIteration == [][(pc \in Iterating) => UNCHANGED m_comps]_vars

(* The assertion of ExecutionContextWorker.cpp:394: an object to be        *)
(* removed is a member.                                                    *)
AssertionHolds == ~aborted

(* Every object created is either about to be added, or a member, or       *)
(* deleted, once; and those still to be removed are members, each of them  *)
(* on the list once, which is what the assertion relies on.                *)
Conserved ==
  LET kept == m_addedComps \o m_comps IN
  /\ IsInjective(kept)
  /\ ToSet(kept) \cap deleted = {}
  /\ {o.id : o \in ToSet(kept) \cup deleted} = 1..created
  /\ Removable(m_comps)

(* Between calls, the participants that the profile of the context reports *)
(* are the components its worker has, or is about to have.                 *)
ProfileAgrees ==
  (\A k \in Clients : cpc[k] = "idle") =>
    \A c \in Participants :
      Cardinality({i \in DOMAIN participants : participants[i] = c}) =
        Cardinality({o \in ToSet(m_comps \o m_addedComps) :
                       o.comp = c /\ o \notin ToSet(m_removedComps)})

(* ExecutionContextWorker.h:465, "After RTCs callbacks are called,         *)
(* updateComponentList() function is invoked and RTCs are officially a     *)
(* member of the worker": an added component becomes a member and a        *)
(* removed one is detached, or else the context stops or its gate closes.  *)
ListsAreServed ==
  \A n \in 2..MaxObjects :
    /\ (\E o \in ToSet(m_addedComps) : o.id = n)
         ~> \/ \E o \in ToSet(m_comps) \cup deleted : o.id = n
            \/ ~(m_running /\ running_)
    /\ (\E o \in ToSet(m_removedComps) : o.id = n)
         ~> (\E o \in deleted : o.id = n) \/ ~(m_running /\ running_)
=============================================================================
