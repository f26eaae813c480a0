------------------------------ MODULE MCThreads ------------------------------
(***************************************************************************)
(* Instances for TLC of the small protocols between the threads of a       *)
(* component: the synchronous hand-over, the externally triggered context, *)
(* the composite context, the configuration, the publisher "periodic".  A  *)
(* behaviour is of one of them; the others stay as they are at first.      *)
(***************************************************************************)
EXTENDS SyncReadWrite, ExtTrigEC, CompositeEC, ConfigUpdate, PublisherPeriodic

VARIABLE protocol

Protocols == {"sync", "trigger", "composite", "config", "periodic"}

allVars == <<syncVars, trigVars, compVars, configVars, periodicVars, protocol>>

AnyFailure == {"PORT_ERROR", "SEND_FULL", "CONNECTION_LOST"}
EveryPush == {"all", "fifo", "skip", "new"} \X BOOLEAN

ThreadsInit ==
  /\ protocol \in Protocols
  /\ SyncInit /\ TrigInit /\ CompInit /\ ConfigInit /\ PeriodicInit
  /\ protocol # "periodic" => setup = <<"all", FALSE>>
  /\ protocol # "config" => param = [p \in Params |-> CHOOSE v \in Versions : TRUE]

Sync(A) == protocol = "sync" /\ A
             /\ UNCHANGED <<trigVars, compVars, configVars, periodicVars, protocol>>
Trigger(A) == protocol = "trigger" /\ A
             /\ UNCHANGED <<syncVars, compVars, configVars, periodicVars, protocol>>
Composite(A) == protocol = "composite" /\ A
             /\ UNCHANGED <<syncVars, trigVars, configVars, periodicVars, protocol>>
Config(A) == protocol = "config" /\ A
             /\ UNCHANGED <<syncVars, trigVars, compVars, periodicVars, protocol>>
Periodic(A) == protocol = "periodic" /\ A
             /\ UNCHANGED <<syncVars, trigVars, compVars, configVars, protocol>>

ThreadsNext ==
  \/ Sync(SyncNext) \/ Trigger(TrigNext) \/ Composite(CompNext)
  \/ Config(ConfigNext) \/ Periodic(PeriodicNext)

\* Whoever is in a call, or is a thread of the library, goes on when it can;
\* nobody has to call, to be woken for nothing, or to delete anything.
ThreadsFairness ==
  /\ WF_allVars(Sync(ReadStep)) /\ WF_allVars(Sync(WriteStep))
  /\ WF_allVars(Trigger(TrigThread))
  /\ \A c \in Comps : WF_allVars(Trigger(ClientStep(c)))
  /\ WF_allVars(Composite(OwnerStep))
  /\ \A t \in Tasks : WF_allVars(Composite(ChildStep(t)))
  /\ WF_allVars(Periodic(task # "wait" /\ PeriodicThread))

ThreadsSpec == ThreadsInit /\ [][ThreadsNext]_allVars /\ ThreadsFairness

(* Every variable of every protocol has its type.                          *)
ThreadsTypeOK ==
  SyncTypeOK /\ TrigTypeOK /\ CompTypeOK /\ ConfigTypeOK /\ PeriodicTypeOK

=============================================================================
