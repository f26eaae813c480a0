---------------------------- MODULE ConfigUpdate ----------------------------
(***************************************************************************)
(* The configuration sets of a component: src/src/lib/rtm/ConfigAdmin.cpp. *)
(*                                                                         *)
(* The thread of an execution context calls update(), which copies the     *)
(* values of the active set to the variables of the component when         *)
(* something was changed.  Clients change sets and activate them; those    *)
(* that change sets hold m_config_mutex (SdoConfiguration.cpp), those that *)
(* activate one hold nothing, nor does update().  The flags and the values *)
(* are read and written one at a time.  The string m_activeId is not read  *)
(* and written in one step: a reader that meets a writer may get a name    *)
(* that is no set's.  Listeners and the conversion of values are left out. *)
(***************************************************************************)
EXTENDS Naturals

CONSTANTS
  Sets,        \* names of configuration sets
  Default,     \* "default"
  Params,      \* the parameters bound to variables
  Versions,    \* the values of a parameter
  Editors,     \* clients
  NoSet

ASSUME ConfigAssumption ==
  /\ Default \in Sets /\ NoSet \notin Sets
  /\ Versions # {} /\ Params # {}

VARIABLES
  sets,         \* m_configsets: the values, by name
  exists,       \* the names it has
  newConfig,    \* m_newConfig
  activeId, active, changed,    \* m_activeId, m_active, m_changed
  torn,         \* is m_activeId being assigned?
  param,        \* the variables of the component
  update,       \* where update() is
  using,        \* the set it has been called with
  left,         \* the parameters it has before it
  edit,         \* the call of each client
  late          \* history: has m_changed last been set while update() was
                \* between its test and its end?

adminVars == <<sets, exists, newConfig, activeId, active, changed, torn>>
updateVars == <<param, update, using, left>>
configVars == <<adminVars, updateVars, edit, late>>

Edit == [pc : {"idle", "values", "flag", "inactive", "name", "active",
               "changed"},
         set : Sets \cup {NoSet}, left : SUBSET Params]

NoEdit == [pc |-> "idle", set |-> NoSet, left |-> {}]

ConfigTypeOK ==
  /\ sets \in [Sets -> [Params -> Versions]]
  /\ exists \subseteq Sets /\ newConfig \subseteq Sets
  /\ activeId \in Sets
  /\ {active, changed, late} \subseteq BOOLEAN
  /\ torn \subseteq Editors
  /\ param \in [Params -> Versions]
  /\ update \in {"idle", "active", "begin", "values", "clear"}
  /\ using \in Sets \cup {NoSet}
  /\ left \subseteq Params
  /\ edit \in [Editors -> Edit]

\* After on_initialize: the default set has been activated and copied.
ConfigInit ==
  /\ \E v \in Versions : /\ sets = [s \in Sets |-> [p \in Params |-> v]]
                         /\ param = [p \in Params |-> v]
  /\ exists = {Default} /\ newConfig = {}
  /\ activeId = Default /\ active = TRUE /\ changed = TRUE /\ torn = {}
  /\ update = "idle" /\ using = NoSet /\ left = {}
  /\ edit = [e \in Editors |-> NoEdit]
  /\ late = FALSE

-----------------------------------------------------------------------------
(* update(), in the thread of the context *)

TestChanged ==
  /\ update = "idle"
  /\ changed
  /\ update' = "active"
  /\ UNCHANGED <<adminVars, param, using, left, edit, late>>

TestActive ==
  /\ update = "active"
  /\ update' = IF active THEN "begin" ELSE "idle"
  /\ UNCHANGED <<adminVars, param, using, left, edit, late>>

\* A name that no set has changes nothing.
BeginUpdate ==
  /\ update = "begin"
  /\ \E s \in {activeId} \cup (IF torn = {} THEN {} ELSE {NoSet}) :
       IF s \in exists
         THEN using' = s /\ left' = Params /\ update' = "values"
         ELSE using' = NoSet /\ left' = {} /\ update' = "clear"
  /\ UNCHANGED <<adminVars, param, edit, late>>

\* One parameter after the other; a set that is removed meanwhile is freed
\* memory, and what is read from it may be anything.
UpdateParam ==
  /\ update = "values"
  /\ IF left = {}
       THEN update' = "clear" /\ UNCHANGED <<param, left>>
       ELSE \E p \in left :
              /\ left' = left \ {p}
              /\ \E v \in IF using \in exists THEN {sets[using][p]}
                                             ELSE Versions :
                   param' = [param EXCEPT ![p] = v]
              /\ UNCHANGED update
  /\ UNCHANGED <<adminVars, using, edit, late>>

ClearChanged ==
  /\ update = "clear"
  /\ changed' = FALSE
  /\ update' = "idle" /\ using' = NoSet
  /\ UNCHANGED <<sets, exists, newConfig, activeId, active, torn, param, left,
                 edit, late>>

UpdateStep == TestChanged \/ TestActive \/ BeginUpdate \/ UpdateParam
                \/ ClearChanged

-----------------------------------------------------------------------------
(* The clients *)

\* m_config_mutex
Locked == \E e \in Editors :
            edit[e].pc \in {"values", "flag", "inactive"}

Goto(e, where) == edit' = [edit EXCEPT ![e].pc = where]
Leave(e) == edit' = [edit EXCEPT ![e] = NoEdit]

SetChanged ==
  /\ changed' = TRUE
  /\ late' = (update # "idle")

\* setConfigurationSetValues() creates a set that does not exist,
\* addConfigurationSet() refuses one that does.
ChangeSet(e) ==
  \E s \in Sets, add \in BOOLEAN :
    /\ edit[e].pc = "idle" /\ ~Locked
    /\ add => s \notin exists
    /\ exists' = exists \cup {s}
    /\ newConfig' = IF add THEN newConfig \cup {s} ELSE newConfig
    /\ edit' = [edit EXCEPT ![e] = [pc |-> "values", set |-> s,
                                    left |-> Params]]
    /\ UNCHANGED <<sets, activeId, active, changed, torn, updateVars, late>>

ChangeValue(e) ==
  /\ edit[e].pc = "values"
  /\ IF edit[e].left = {}
       THEN Goto(e, "flag") /\ UNCHANGED sets
       ELSE \E p \in edit[e].left, v \in Versions :
              /\ sets' = [sets EXCEPT ![edit[e].set][p] = v]
              /\ edit' = [edit EXCEPT ![e].left = @ \ {p}]
  /\ UNCHANGED <<exists, newConfig, activeId, active, changed, torn,
                 updateVars, late>>

RemoveSet(e) ==
  \E s \in newConfig \ {Default} :
    /\ edit[e].pc = "idle" /\ ~Locked
    /\ activeId # s \/ torn # {}
    /\ exists' = exists \ {s}
    /\ newConfig' = newConfig \ {s}
    /\ edit' = [edit EXCEPT ![e].pc = "flag"]
    /\ UNCHANGED <<sets, activeId, active, changed, torn, updateVars, late>>

\* m_changed = true, m_active = false
SetFlag(e) ==
  /\ edit[e].pc = "flag"
  /\ SetChanged
  /\ Goto(e, "inactive")
  /\ UNCHANGED <<sets, exists, newConfig, activeId, active, torn, updateVars>>

SetInactive(e) ==
  /\ edit[e].pc = "inactive"
  /\ active' = FALSE
  /\ Leave(e)
  /\ UNCHANGED <<sets, exists, newConfig, activeId, changed, torn, updateVars,
                 late>>

\* activateConfigurationSet(), whose caller holds no lock.
ActivateSet(e) ==
  \E s \in exists :
    /\ edit[e].pc = "idle"
    /\ edit' = [edit EXCEPT ![e] = [NoEdit EXCEPT !.pc = "name", !.set = s]]
    /\ torn' = torn \cup {e}
    /\ UNCHANGED <<sets, exists, newConfig, activeId, active, changed,
                   updateVars, late>>

SetName(e) ==
  /\ edit[e].pc = "name"
  /\ activeId' = edit[e].set
  /\ torn' = torn \ {e}
  /\ Goto(e, "active")
  /\ UNCHANGED <<sets, exists, newConfig, active, changed, updateVars, late>>

\* A faulty variant: the flag is forgotten.
SetActiveOnly(e) ==
  /\ edit[e].pc = "active"
  /\ active' = TRUE
  /\ Leave(e)
  /\ UNCHANGED <<sets, exists, newConfig, activeId, changed, torn, updateVars,
                 late>>

SetActive(e) ==
  /\ edit[e].pc = "active"
  /\ active' = TRUE
  /\ Goto(e, "changed")
  /\ UNCHANGED <<sets, exists, newConfig, activeId, changed, torn, updateVars,
                 late>>

FlagActivated(e) ==
  /\ edit[e].pc = "changed"
  /\ SetChanged
  /\ Leave(e)
  /\ UNCHANGED <<sets, exists, newConfig, activeId, active, torn, updateVars>>

EditStep(e) == ChangeValue(e) \/ SetFlag(e) \/ SetInactive(e) \/ SetName(e)
                 \/ SetActive(e) \/ FlagActivated(e)

ConfigNext ==
  \/ UpdateStep
  \/ \E e \in Editors : \/ ChangeSet(e) \/ RemoveSet(e) \/ ActivateSet(e)
                        \/ EditStep(e)

ConfigSpec == ConfigInit /\ [][ConfigNext]_configVars

-----------------------------------------------------------------------------
(***************************************************************************)
(* Properties.                                                             *)
(***************************************************************************)
EditorsAtRest == \A e \in Editors : edit[e].pc = "idle"

(***************************************************************************)
(* When nothing is under way and m_changed is not set, the variables have  *)
(* the values of the active set, unless the last change set the flag while *)
(* update() was between its test and the end, where it clears the flag of  *)
(* a change that it may not have seen (ConfigAdmin.cpp:132).  That update  *)
(* reads sets and names while clients write them does not matter, as the   *)
(* flag is the last thing that a client sets.                              *)
(***************************************************************************)
ActiveSetApplied ==
  (EditorsAtRest /\ update = "idle" /\ ~changed /\ ~late
     /\ activeId \in exists) =>
    \A p \in Params : param[p] = sets[activeId][p]
=============================================================================
