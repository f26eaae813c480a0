------------------------------ MODULE Manager ------------------------------
(***************************************************************************)
(* The life of the components of a manager and of their names:             *)
(* src/src/lib/rtm/Manager.cpp, NamingManager.cpp, NumberingPolicy.cpp,    *)
(* and what initialize, exit and finalize of RTObject.cpp do to it.        *)
(*                                                                         *)
(* Clients create and delete components, each in a thread of the ORB.  The *)
(* main thread runs the periodic tasks: it ends the manager when there is  *)
(* no component, deletes those that were finalized, and looks after the    *)
(* name servers, which may crash and be started again, with or without the *)
(* names they had.  When the manager is terminated the main thread makes   *)
(* the components exit and deletes them.                                   *)
(*                                                                         *)
(* A name is the number that the policy gives to a component: every one    *)
(* has the same type.  What is done under one mutex is one step where no   *)
(* other thread can see its parts.  Ports, the managers' own names,        *)
(* modules and configuration are left out.                                 *)
(***************************************************************************)
EXTENDS Naturals, SequencesExt

CONSTANTS
  Rtcs,          \* the components that may be created
  Users,         \* the threads of clients
  Servers,       \* the name servers
  MaxNumber,     \* bound: the numbers given to components
  NoRtc, Main,
  ShutsDown,     \* manager.shutdown_auto and manager.shutdown_on_nortcs
  Orderly    \* do clients create one component at a time, and delete one
                 \* at most once, after it was created, and is the wait
                 \* before the shutdown long enough for their calls?

ASSUME ManagerAssumption ==
  /\ MaxNumber \in Nat
  /\ NoRtc \notin Rtcs /\ Main \notin Users
  /\ {ShutsDown, Orderly} \subseteq BOOLEAN

VARIABLES
  isRunning,     \* m_isRunning
  rebind,        \* naming.update.rebind
  state,         \* m_created and m_exiting of each component, or whether it
                 \* is not there yet or no more
  name,          \* the number in the name of each
  numbers,       \* m_objects of the numbering policy
  compManager,   \* m_compManager, by name
  compNames,     \* m_compNames of the NamingManager, by name
  finalized,     \* m_finalized.comps
  linked,        \* the servers whose ns is not null
  up, bound,     \* the servers that run, and the names they have
  call, about,   \* where each thread is in a call, and with what component
  mainPc,        \* where the main thread is
  shutdown,      \* is it in shutdown()?
  timers,        \* the tasks whose time has come in this tick
  rest,          \* what cleanupComponents() has before it
  leaving,       \* the components that shutdownComponents() has before it
  ready,         \* history: the components whose creation has returned
  crashed        \* history: the servers that have crashed, each at most once

rtcVars == <<state, name, numbers, ready>>
tableVars == <<compManager, compNames, finalized>>
serverVars == <<linked, up, bound, crashed>>
threadsVars == <<call, about>>
mainVars == <<mainPc, shutdown, timers, rest, leaving>>
managerVars ==
  <<isRunning, rebind, rtcVars, tableVars, serverVars, threadsVars, mainVars>>

Numbers == 0..MaxNumber
Table == [Numbers -> Rtcs \cup {NoRtc}]
NoNames == [n \in Numbers |-> NoRtc]
MainTasks == {"auto", "cleanup", "naming"}

ManagerTypeOK ==
  /\ {isRunning, rebind, shutdown} \subseteq BOOLEAN
  /\ state \in [Rtcs -> {"none", "created", "alive", "exiting", "deleted"}]
  /\ name \in [Rtcs -> Numbers]
  /\ {numbers, compManager, compNames} \subseteq Table
  /\ finalized \in Seq(Rtcs)
  /\ linked \subseteq Servers /\ up \subseteq Servers
  /\ bound \in [Servers -> Table]
  /\ call \in [Users \cup {Main} ->
                 {"idle", "number", "initialize", "register", "bind",
                  "exit", "leave", "notify"}]
  /\ about \in [Users \cup {Main} -> Rtcs \cup {NoRtc}]
  /\ mainPc \in {"loop", "unregister", "unbind", "destroy",
                 "wait", "exits", "names", "ended"}
  /\ timers \subseteq MainTasks
  /\ rest \in Seq(Rtcs) /\ leaving \subseteq Rtcs
  /\ ready \subseteq Rtcs
  /\ crashed \subseteq Servers

\* The manager has been initialised and is run.
ManagerInit ==
  /\ isRunning = TRUE /\ rebind \in BOOLEAN
  /\ state = [r \in Rtcs |-> "none"] /\ name = [r \in Rtcs |-> 0]
  /\ numbers = NoNames /\ compManager = NoNames /\ compNames = NoNames
  /\ finalized = <<>>
  /\ up = Servers /\ linked = Servers /\ crashed = {}
  /\ bound = [s \in Servers |-> NoNames]
  /\ call = [t \in Users \cup {Main} |-> "idle"]
  /\ about = [t \in Users \cup {Main} |-> NoRtc]
  /\ mainPc = "loop" /\ shutdown = FALSE /\ timers = {}
  /\ rest = <<>> /\ leaving = {}
  /\ ready = {}

-----------------------------------------------------------------------------
(* Calls *)

CallGoes(t, from, to) == call[t] = from /\ call' = [call EXCEPT ![t] = to]

Accepting == isRunning /\ ~shutdown

\* The name is decided on by looking for the first number that is free ...
Create(c, r) ==
  /\ Accepting
  /\ Orderly => \A k \in Users : call[k] # "number"
  /\ state[r] = "none" /\ \A k \in Users : about[k] # r
  /\ CallGoes(c, "idle", "number")
  /\ about' = [about EXCEPT ![c] = r]
  /\ \E n \in Numbers : /\ numbers[n] = NoRtc
                        /\ \A m \in 0..(n - 1) : numbers[m] # NoRtc
                        /\ name' = [name EXCEPT ![r] = n]
  /\ UNCHANGED <<isRunning, rebind, state, numbers, ready, tableVars,
                 serverVars, mainVars>>

\* ... and taken in a second step.
TakeNumber(c) ==
  LET r == about[c] IN
  /\ CallGoes(c, "number", "initialize")
  /\ numbers' = [numbers EXCEPT ![name[r]] = r]
  /\ state' = [state EXCEPT ![r] = "created"]
  /\ UNCHANGED <<isRunning, rebind, name, ready, about, tableVars,
                 serverVars, mainVars>>

\* When on_initialize fails, exit() is called: it refuses, because the
\* component is not initialised, and the component stays as it is.
Initialize(c) ==
  /\ \/ /\ CallGoes(c, "initialize", "register")
        /\ state' = [state EXCEPT ![about[c]] = "alive"]
        /\ about' = about
     \/ /\ CallGoes(c, "initialize", "idle")
        /\ state' = state
        /\ about' = [about EXCEPT ![c] = NoRtc]
  /\ UNCHANGED <<isRunning, rebind, name, numbers, ready, tableVars,
                 serverVars, mainVars>>

\* registerObject refuses a second one of the same name; nobody looks at that.
Register(c) ==
  LET n == name[about[c]] IN
  /\ CallGoes(c, "register", "bind")
  /\ compManager' = IF compManager[n] = NoRtc
                      THEN [compManager EXCEPT ![n] = about[c]]
                      ELSE compManager
  /\ UNCHANGED <<isRunning, rebind, rtcVars, about, compNames, finalized,
                 serverVars, mainVars>>

\* A server that cannot be reached is given up.  The mutex m_namesMutex is
\* held over all of it.
Bind(c) ==
  LET r == about[c] IN
  /\ CallGoes(c, "bind", "idle")
  /\ linked' = linked \cap up
  /\ bound' = [s \in Servers |-> IF s \in linked \cap up
                                   THEN [bound[s] EXCEPT ![name[r]] = r]
                                   ELSE bound[s]]
  /\ compNames' = [compNames EXCEPT ![name[r]] = r]
  /\ about' = [about EXCEPT ![c] = NoRtc]
  /\ ready' = ready \cup {r}
  /\ UNCHANGED <<isRunning, rebind, state, name, numbers, compManager,
                 finalized, up, crashed, mainVars>>

\* delete_component finds the component by its name, and calls exit().
DeleteComponent(c, n) ==
  LET r == compManager[n] IN
  /\ Accepting
  /\ r # NoRtc
  /\ Orderly => /\ r \in ready /\ state[r] = "alive"
                    /\ \A t \in Users \cup {Main} : about[t] # r
  /\ CallGoes(c, "idle", "exit")
  /\ about' = [about EXCEPT ![c] = r]
  /\ UNCHANGED <<isRunning, rebind, rtcVars, tableVars, serverVars,
                 mainVars>>

\* exit() takes the component out of its contexts, which takes a while,
\* before it sets m_exiting.
Exit(t) ==
  /\ \/ /\ CallGoes(t, "exit", "leave")
        /\ state[about[t]] = "alive"
        /\ about' = about
     \/ /\ CallGoes(t, "exit", "idle")
        /\ state[about[t]] # "alive"
        /\ about' = [about EXCEPT ![t] = NoRtc]
  /\ UNCHANGED <<isRunning, rebind, rtcVars, tableVars, serverVars,
                 mainVars>>

LeaveContexts(t) ==
  /\ CallGoes(t, "leave", "notify")
  /\ state' = [state EXCEPT ![about[t]] = "exiting"]
  /\ UNCHANGED <<isRunning, rebind, name, numbers, ready, about, tableVars,
                 serverVars, mainVars>>

\* cleanupComponents() holds m_finalized.mutex.
Cleaning == mainPc \in {"unregister", "unbind", "destroy"}

Notify(t) ==
  /\ CallGoes(t, "notify", "idle")
  /\ finalized' = Append(finalized, about[t])
  /\ about' = [about EXCEPT ![t] = NoRtc]
  /\ UNCHANGED <<isRunning, rebind, rtcVars, compManager, compNames,
                 serverVars, mainVars>>

NotifyFinalized(t) == ~Cleaning /\ Notify(t)

\* ManagerServant::shutdown, or a signal.
Terminate ==
  /\ Accepting
  /\ isRunning' = FALSE
  /\ UNCHANGED <<rebind, rtcVars, tableVars, serverVars, threadsVars,
                 mainVars>>

UserStep(c) ==
  \/ TakeNumber(c) \/ Initialize(c) \/ Register(c) \/ Bind(c)
  \/ Exit(c) \/ LeaveContexts(c) \/ NotifyFinalized(c)

-----------------------------------------------------------------------------
(* The main thread *)

\* One tick: the timers of some of the tasks have run out.
RunTimers ==
  /\ mainPc = "loop" /\ timers = {} /\ isRunning
  /\ timers' \in SUBSET MainTasks \ {{}}
  /\ UNCHANGED <<isRunning, rebind, mainPc, shutdown, rest, leaving, rtcVars,
                 tableVars, serverVars, threadsVars>>

\* The task of manager.shutdown_auto.  That a component is registered between
\* its test and terminate() makes no difference to either.
AutoShutdown ==
  /\ mainPc = "loop" /\ "auto" \in timers
  /\ isRunning' = (isRunning /\ ~(ShutsDown /\ compManager = NoNames))
  /\ timers' = timers \ {"auto"}
  /\ UNCHANGED <<rebind, mainPc, shutdown, rest, leaving, rtcVars, tableVars,
                 serverVars, threadsVars>>

\* cleanupComponents() begins, as a task or in shutdownComponents().
CleanupComponents ==
  /\ \/ /\ mainPc = "loop" /\ "auto" \notin timers /\ "cleanup" \in timers
        /\ timers' = timers \ {"cleanup"}
     \/ /\ mainPc = "exits" /\ leaving = {} /\ call[Main] = "idle"
        /\ timers' = timers
  /\ rest' = finalized
  /\ mainPc' = IF finalized # <<>> THEN "unregister"
               ELSE IF shutdown THEN "names" ELSE "loop"
  /\ UNCHANGED <<isRunning, rebind, shutdown, leaving, rtcVars, tableVars,
                 serverVars, threadsVars>>

\* A faulty variant: the number is given back before the names are taken back.
UnregisterAndFree ==
  LET n == name[Head(rest)] IN
  /\ mainPc = "unregister"
  /\ compManager' = [compManager EXCEPT ![n] = NoRtc]
  /\ numbers' = [numbers EXCEPT ![n] = NoRtc]
  /\ mainPc' = "unbind"
  /\ UNCHANGED <<isRunning, rebind, state, name, ready, shutdown, timers,
                 rest, leaving, threadsVars, compNames, finalized, serverVars>>

\* deleteComponent() of the first one.
Unregister ==
  LET n == name[Head(rest)] IN
  /\ mainPc = "unregister"
  /\ compManager' = [compManager EXCEPT ![n] = NoRtc]
  /\ mainPc' = "unbind"
  /\ UNCHANGED <<isRunning, rebind, shutdown, timers, rest, leaving, rtcVars,
                 compNames, finalized, serverVars, threadsVars>>

\* A server that does not have the name is given up too: unbind() raises
\* NotFound.
UnbindObject(names) ==
  /\ linked' = {s \in linked \cap up : \A n \in names : bound[s][n] # NoRtc}
  /\ bound' = [s \in Servers |->
       [n \in Numbers |-> IF s \in linked \cap up /\ n \in names
                            THEN NoRtc ELSE bound[s][n]]]
  /\ compNames' = [n \in Numbers |-> IF n \in names THEN NoRtc
                                                    ELSE compNames[n]]

Unbind ==
  /\ mainPc = "unbind"
  /\ UnbindObject({name[Head(rest)]})
  /\ mainPc' = "destroy"
  /\ UNCHANGED <<isRunning, rebind, shutdown, timers, rest, leaving, rtcVars,
                 compManager, finalized, up, crashed, threadsVars>>

\* The policy gives the number back, and does not find a component that it
\* has given the number of to another one: that one is not deleted.
DestroyRtc(r) ==
  IF \E n \in Numbers : numbers[n] = r
    THEN /\ numbers' = [n \in Numbers |-> IF numbers[n] = r THEN NoRtc
                                                            ELSE numbers[n]]
         /\ state' = [state EXCEPT ![r] = "deleted"]
    ELSE UNCHANGED <<numbers, state>>

\* After the last one the list is cleared and the mutex released.
DestroyFirst ==
  /\ mainPc = "destroy"
  /\ DestroyRtc(Head(rest))
  /\ isRunning' = (isRunning /\ ~(ShutsDown /\ compManager = NoNames))
  /\ rest' = Tail(rest)
  /\ IF rest' # <<>>
       THEN mainPc' = "unregister" /\ finalized' = finalized
       ELSE /\ mainPc' = IF shutdown THEN "names" ELSE "loop"
            /\ finalized' = <<>>
  /\ UNCHANGED <<rebind, shutdown, timers, leaving, name, ready, compManager,
                 compNames, serverVars, threadsVars>>

\* A faulty variant: a server that was given up does not get the names.
UpdateUnbound ==
  /\ mainPc = "loop" /\ timers = {"naming"}
  /\ linked' = up
  /\ bound' = [s \in Servers |->
       IF s \in up /\ s \in linked /\ rebind
         THEN [n \in Numbers |-> IF compNames[n] # NoRtc THEN compNames[n]
                                                         ELSE bound[s][n]]
         ELSE bound[s]]
  /\ timers' = {}
  /\ UNCHANGED <<isRunning, rebind, mainPc, shutdown, rest, leaving, rtcVars,
                 tableVars, up, crashed, threadsVars>>

\* NamingManager::update(): a server that was given up is tried again, and
\* gets every name there is; one that is not alive is given up.
UpdateServers ==
  /\ mainPc = "loop" /\ timers = {"naming"}
  /\ linked' = up
  /\ bound' = [s \in Servers |->
       IF s \in up /\ (s \notin linked \/ rebind)
         THEN [n \in Numbers |-> IF compNames[n] # NoRtc THEN compNames[n]
                                                         ELSE bound[s][n]]
         ELSE bound[s]]
  /\ timers' = {}
  /\ UNCHANGED <<isRunning, rebind, mainPc, shutdown, rest, leaving, rtcVars,
                 tableVars, up, crashed, threadsVars>>

\* test_and_set() finds the flag cleared, and sets it.
LeaveLoop ==
  /\ mainPc = "loop" /\ timers = {} /\ ~isRunning
  /\ isRunning' = TRUE /\ shutdown' = TRUE
  /\ mainPc' = "wait"
  /\ UNCHANGED <<rebind, timers, rest, leaving, rtcVars, tableVars,
                 serverVars, threadsVars>>

\* After manager.termination_waittime: shutdownComponents() takes the
\* components that have a name.
ShutdownComponents ==
  /\ mainPc = "wait"
  /\ Orderly => \A c \in Users : call[c] = "idle"
  /\ leaving' = {compNames[n] : n \in Numbers} \ {NoRtc}
  /\ mainPc' = "exits"
  /\ UNCHANGED <<isRunning, rebind, shutdown, timers, rest, rtcVars,
                 tableVars, serverVars, threadsVars>>

ExitNext(r) ==
  /\ mainPc = "exits" /\ r \in leaving
  /\ CallGoes(Main, "idle", "exit")
  /\ about' = [about EXCEPT ![Main] = r]
  /\ leaving' = leaving \ {r}
  /\ UNCHANGED <<isRunning, rebind, mainPc, shutdown, timers, rest, rtcVars,
                 tableVars, serverVars>>

\* What is registered still, or has a name, loses it.
ShutdownNaming ==
  /\ mainPc = "names"
  /\ UnbindObject({n \in Numbers : {compManager[n], compNames[n]} # {NoRtc}})
  /\ mainPc' = "ended"
  /\ UNCHANGED <<isRunning, rebind, shutdown, timers, rest, leaving, rtcVars,
                 compManager, finalized, up, crashed, threadsVars>>

MainStep ==
  \/ RunTimers \/ AutoShutdown \/ CleanupComponents \/ Unregister \/ Unbind
  \/ DestroyFirst \/ UpdateServers \/ LeaveLoop \/ ShutdownComponents
  \/ (\E r \in Rtcs : ExitNext(r)) \/ ShutdownNaming
  \/ Exit(Main) \/ LeaveContexts(Main) \/ NotifyFinalized(Main)

-----------------------------------------------------------------------------
(* The name servers *)

Crash(s) ==
  /\ s \in up \ crashed
  /\ up' = up \ {s} /\ crashed' = crashed \cup {s}
  /\ UNCHANGED <<isRunning, rebind, linked, bound, rtcVars, tableVars,
                 threadsVars, mainVars>>

\* It comes back with the names that it had, or without.
Restart(s) ==
  /\ s \notin up
  /\ up' = up \cup {s}
  /\ \E names \in {bound[s], NoNames} : bound' = [bound EXCEPT ![s] = names]
  /\ UNCHANGED <<isRunning, rebind, linked, crashed, rtcVars, tableVars,
                 threadsVars, mainVars>>

ManagerNext ==
  \/ \E c \in Users : \/ UserStep(c)
                      \/ \E r \in Rtcs : Create(c, r)
                      \/ \E n \in Numbers : DeleteComponent(c, n)
  \/ Terminate
  \/ MainStep
  \/ \E s \in Servers : Crash(s) \/ Restart(s)

\* The timers of the tasks run out again and again.
ManagerFairness ==
  /\ \A c \in Users : WF_managerVars(UserStep(c))
  /\ WF_managerVars(MainStep)
  /\ SF_managerVars(RunTimers /\ timers' = MainTasks)

ManagerSpec == ManagerInit /\ [][ManagerNext]_managerVars /\ ManagerFairness

-----------------------------------------------------------------------------
(***************************************************************************)
(* Properties.                                                             *)
(***************************************************************************)

(***************************************************************************)
(* From the return of its creation to its exit a component is found by its *)
(* name, by the manager and in the table from which names are bound again; *)
(* what has been deleted is in neither, nor in a server that has always    *)
(* been there; no component is finalized twice.  Numbers, and so names,    *)
(* are used again while the manager deletes (Manager.cpp:975, 989,         *)
(* NamingManager.cpp:698).                                                 *)
(***************************************************************************)
HasName(r) == compNames[name[r]] = r

KnownByName ==
  /\ \A r \in ready :
       state[r] = "alive" => compManager[name[r]] = r /\ HasName(r)
  /\ \A n \in Numbers, table \in {compManager, compNames} \cup
                               {bound[s] : s \in up \ crashed} :
       table[n] # NoRtc => state[table[n]] # "deleted"
  /\ IsInjective(finalized)

Clean ==
  /\ \A r \in Rtcs : state[r] \in {"none", "created", "deleted"}
  /\ {compManager, compNames} \cup {bound[s] : s \in Servers \ crashed}
       = {NoNames}

(***************************************************************************)
(* A manager that is terminated, or that ends because it has no component, *)
(* ends, and has deleted every component that was initialised and taken    *)
(* its name back, whoever was creating or deleting one at the time         *)
(* (Manager.cpp:1319, 2168, 2224).                                         *)
(***************************************************************************)
TerminatesClean == ~isRunning ~> (mainPc = "ended" /\ Clean)

(***************************************************************************)
(* When the manager has noticed that a server was gone, or is to bind the  *)
(* names again at every update, some time a server that runs has the names *)
(* of all the components (NamingManager.cpp:655, 668).                     *)
(***************************************************************************)
BoundAgain ==
  \A s \in Servers :
    (s \in up /\ (rebind \/ s \notin linked))
      ~> \/ \A n \in Numbers : compNames[n] \in {NoRtc, bound[s][n]}
         \/ s \notin up \/ ~isRunning \/ shutdown
=============================================================================
