--------------------------- MODULE PortConnection ---------------------------
(***************************************************************************)
(* Connections between data ports: src/src/lib/rtm/PortBase.cpp, with what *)
(* InPortBase.cpp and OutPortBase.cpp do in their overrides.               *)
(*                                                                         *)
(* A connection has an identifier and a list of ports, each of which keeps *)
(* a profile of it and a connector.  connect() calls notify_connect() of   *)
(* the first port, which calls that of the next one, and so on to the last *)
(* port; disconnect() calls notify_disconnect() likewise.  Each port       *)
(* holds its m_connectorsMutex over the call to the next one.  Several     *)
(* clients connect and disconnect at a time, and ports may die.            *)
(*                                                                         *)
(* Callbacks and listeners, the properties of a connection, its name and   *)
(* the direct interface are left out.  connector_id is empty in a call to  *)
(* connect(), as its precondition says, so that each gets a new one.       *)
(***************************************************************************)
EXTENDS Naturals, SequencesExt

CONSTANTS
  Ports,
  Providers,      \* the ports that publish their interface: the InPorts of a
                  \* "push" connection, the OutPorts of a "pull" connection
  Conns,          \* the identifiers
  Clients,
  PortLists,      \* the ConnectorProfile::ports that the clients ask for
  Limit,          \* m_connectionLimit of a port, NoLimit when negative
  Fan,            \* its fan_in or fan_out
  Mortal,         \* the ports that may die
  MaxCalls,       \* bound: calls by the clients
  NoLimit, None

ASSUME ConnectionAssumption ==
  /\ Providers \subseteq Ports
  /\ Mortal \subseteq Ports
  /\ PortLists \subseteq Seq(Ports)
  /\ \A l \in PortLists : /\ Len(l) > 0
                          /\ \A i, j \in 1 .. Len(l) : l[i] = l[j] => i = j
  /\ Limit \in [Ports -> Nat \cup {NoLimit}] /\ NoLimit \notin Nat
  /\ Fan \in [Ports -> Nat]
  /\ MaxCalls \in Nat
  /\ None \notin Clients \cup Conns \cup Ports

VARIABLES
  alive,        \* does the port exist?
  allowDup,     \* allow_dup_connection
  profiles,     \* m_profile.connector_profiles of each port
  connectors,   \* m_connectors of each port: the identifiers
  holder,       \* the client whose call holds m_connectorsMutex
  act,          \* the call of each client
  outer,        \* the notify_connect that its call is nested in
  calls,
  asked,        \* history: the connections asked for
  cut,          \* history: those whose chain met a dead port
  missed        \* history: those a disconnect() looked up in vain

ports == <<profiles, connectors, holder>>
history == <<asked, cut, missed>>
vars == <<alive, allowDup, ports, act, outer, calls, history>>

Profile == [id : Conns, list : PortLists]

(***************************************************************************)
(* A call: where it is, for which connection, at which port it was made,   *)
(* the list of ports and the position in it of the port that is called,    *)
(* the ports that are in their handler, was an interface published, did    *)
(* something fail, what is left to disconnect (in whatever order), an       *)
(* index of a profile.                                                     *)
(***************************************************************************)
Call == [pc : {"idle", "enter", "lock", "dup", "subscribe", "connected",
               "next", "copy", "call", "unsubscribe"},
         id : Conns \cup {None}, at : Ports \cup {None},
         list : Seq(Ports), k : Nat, frames : Seq(Ports),
         pub : BOOLEAN, bad : BOOLEAN, todo : SUBSET Conns, index : Nat]

Idle == [pc |-> "idle", id |-> None, at |-> None, list |-> <<>>, k |-> 1,
         frames |-> <<>>, pub |-> FALSE, bad |-> FALSE, todo |-> {},
         index |-> 0]

ProfileIndex(p, id) == SelectInSeq(profiles[p], LAMBDA f : f.id = id)
HasProfile(p, id) == \E f \in ToSet(profiles[p]) : f.id = id
HasConnector(p, id) == id \in ToSet(connectors[p])
AskedFor(id) == CHOOSE f \in asked : f.id = id

(***************************************************************************)
(* notify_disconnect() holds m_profile_mutex, too, until it returns.       *)
(***************************************************************************)
ProfileLocked(p) ==
  \E c \in Clients : /\ act[c].pc \in {"call", "unsubscribe"}
                     /\ p \in ToSet(act[c].frames)

\* The handlers that a port is in, or that wait for its mutex.
Serves(p) ==
  \/ holder[p] # None
  \/ \E c \in Clients : \/ act[c].at = p
                        \/ outer[c].at = p
                        \/ act[c].pc = "lock" /\ act[c].list[act[c].k] = p

Init ==
  /\ alive = [p \in Ports |-> TRUE]
  /\ allowDup \in BOOLEAN
  /\ profiles = [p \in Ports |-> <<>>]
  /\ connectors = [p \in Ports |-> <<>>]
  /\ holder = [p \in Ports |-> None]
  /\ act = [c \in Clients |-> Idle]
  /\ outer = [c \in Clients |-> Idle]
  /\ calls = 0
  /\ asked = {} /\ cut = {} /\ missed = {}

-----------------------------------------------------------------------------
(***************************************************************************)
(* What the clients call.                                                  *)
(***************************************************************************)
Begins(c, call) ==
  /\ act[c].pc = "idle"
  /\ calls < MaxCalls
  /\ calls' = calls + 1
  /\ act' = [act EXCEPT ![c] = call]
  /\ UNCHANGED <<alive, allowDup, ports, outer, cut, missed>>

\* connect(): a new identifier, and the first port of the list is called.
Connect(c) ==
  \E id \in Conns, l \in PortLists : \E at \in ToSet(l) :
    /\ \A f \in asked : f.id # id
    /\ alive[at] /\ ~ProfileLocked(at)
    /\ Begins(c, [Idle EXCEPT !.pc = "enter", !.id = id, !.at = at,
                              !.list = l])
    /\ asked' = asked \cup {[id |-> id, list |-> l, at |-> at]}

Disconnect(c) ==
  \E at \in Ports, id \in Conns :
    /\ alive[at] /\ HasProfile(at, id)
    /\ Begins(c, [Idle EXCEPT !.pc = "next", !.at = at, !.todo = {id}])
    /\ UNCHANGED asked

\* disconnect_all() works on a copy of the profiles.
DisconnectAll(c) ==
  \E at \in Ports :
    LET ids == {f.id : f \in ToSet(profiles[at])}
    IN  /\ alive[at] /\ ~ProfileLocked(at)
        /\ ids # {}
        /\ Begins(c, [Idle EXCEPT !.pc = "next", !.at = at, !.todo = ids])
        /\ UNCHANGED asked

\* updateConnectors(): the connections one of whose ports does not exist.
DeadConnections(p) ==
  {f.id : f \in {g \in ToSet(profiles[p]) : \E q \in ToSet(g.list) : ~alive[q]}}

\* get_port_profile(), get_connector_profile(), get_connector_profiles()
GetProfiles(c) ==
  \E at \in Ports :
    /\ alive[at] /\ ~ProfileLocked(at)
    /\ DeadConnections(at) # {}
    /\ Begins(c, [Idle EXCEPT !.pc = "next", !.at = at,
                              !.todo = DeadConnections(at)])
    /\ UNCHANGED asked

\* The process of a port ends while it serves no call.
Die(p) ==
  /\ p \in Mortal /\ alive[p] /\ ~Serves(p)
  /\ alive' = [alive EXCEPT ![p] = FALSE]
  /\ UNCHANGED <<allowDup, ports, act, outer, calls, history>>

-----------------------------------------------------------------------------
(***************************************************************************)
(* notify_connect() along the list of ports.                               *)
(***************************************************************************)
Unwound(frames) == IF frames = <<>> THEN "connected" ELSE "subscribe"

\* The call to a port that does not exist raises an exception; nothing
\* catches it before connect(), which returns.
CallRaises(c) ==
  LET a == act[c]
  IN  /\ a.pc = "enter" /\ ~alive[a.list[a.k]]
      /\ holder' = [p \in Ports |-> IF p \in ToSet(a.frames)
                                      THEN None ELSE holder[p]]
      /\ act' = [act EXCEPT ![c] = Idle]
      /\ cut' = cut \cup {a.id}
      /\ UNCHANGED <<alive, allowDup, profiles, connectors, outer, calls,
                     asked, missed>>

\* The override of InPortBase and OutPortBase looks at fan_in or fan_out
\* before the mutex is taken.
CheckFan(c) ==
  LET a == act[c]  p == a.list[a.k]
  IN  /\ a.pc = "enter" /\ alive[p]
      /\ act' = [act EXCEPT ![c] =
                   IF Fan[p] <= Len(connectors[p])
                     THEN [a EXCEPT !.pc = Unwound(a.frames), !.bad = TRUE]
                     ELSE [a EXCEPT !.pc = "lock"]]
      /\ UNCHANGED <<alive, allowDup, ports, outer, calls, history>>

\* With the mutex, and unless double connections are allowed, the port asks
\* itself for its connections, which disconnects the dead ones.
LockPort(c) ==
  LET a == act[c]
      p == a.list[a.k]
      inside == [a EXCEPT !.pc = "dup", !.frames = Append(a.frames, p)]
      dead == IF allowDup THEN {} ELSE DeadConnections(p)
  IN  /\ a.pc = "lock" /\ holder[p] = None
      /\ holder' = [holder EXCEPT ![p] = c]
      /\ IF dead = {}
           THEN act' = [act EXCEPT ![c] = inside] /\ UNCHANGED outer
           ELSE /\ outer' = [outer EXCEPT ![c] = inside]
                /\ act' = [act EXCEPT ![c] =
                             [Idle EXCEPT !.pc = "next", !.at = p,
                                          !.todo = dead]]
      /\ UNCHANGED <<alive, allowDup, profiles, connectors, calls, history>>

\* A faulty variant: only a connection of the same ports counts.
SameConnection(p, list) ==
  \E f \in ToSet(profiles[p]) : f.list = list

AlreadyConnected(p, list) ==
  \E f \in ToSet(profiles[p]) :
    \E q \in ToSet(list) \ {p} : q \in ToSet(f.list)

RefuseDuplicate(c) ==
  LET a == act[c]  p == Last(a.frames)
  IN  /\ a.pc = "dup" /\ ~allowDup /\ AlreadyConnected(p, a.list)
      /\ holder' = [holder EXCEPT ![p] = None]
      /\ act' = [act EXCEPT ![c] =
                   [a EXCEPT !.pc = Unwound(Front(a.frames)), !.bad = TRUE,
                             !.frames = Front(a.frames)]]
      /\ UNCHANGED <<alive, allowDup, profiles, connectors, outer, calls,
                     history>>

\* A faulty variant: off by one.
OverLimit(p) == Limit[p] # NoLimit /\ Limit[p] < Len(profiles[p])

AtLimit(p) == Limit[p] # NoLimit /\ Limit[p] <= Len(profiles[p])

\* publishInterfaces(); whatever it returns, the next port is called.
Publish(c) ==
  LET a == act[c]
      p == Last(a.frames)
      publishes == p \in Providers /\ ~AtLimit(p)
      last == a.k = Len(a.list)
  IN  /\ a.pc = "dup"
      /\ allowDup \/ ~AlreadyConnected(p, a.list)
      /\ connectors' = IF publishes
                         THEN [connectors EXCEPT ![p] = Append(@, a.id)]
                         ELSE connectors
      /\ act' = [act EXCEPT ![c] =
                   [a EXCEPT !.pc = IF last THEN "subscribe" ELSE "enter",
                             !.k = IF last THEN @ ELSE @ + 1,
                             !.pub = @ \/ publishes,
                             !.bad = @ \/ AtLimit(p)]]
      /\ UNCHANGED <<alive, allowDup, profiles, holder, outer, calls, history>>

ProfileOf(call) == [id |-> call.id, list |-> call.list]

\* subscribeInterfaces(), and the profile is stored whatever it returns.
Subscribe(c) ==
  LET a == act[c]
      p == Last(a.frames)
      creates == p \notin Providers /\ a.pub
      fails == IF p \in Providers THEN ~HasConnector(p, a.id) ELSE ~a.pub
      i == ProfileIndex(p, a.id)
  IN  /\ a.pc = "subscribe"
      /\ connectors' = IF creates
                         THEN [connectors EXCEPT ![p] = Append(@, a.id)]
                         ELSE connectors
      /\ profiles' = [profiles EXCEPT ![p] =
                        IF i = 0 THEN Append(@, ProfileOf(a))
                                 ELSE [@ EXCEPT ![i] = ProfileOf(a)]]
      /\ holder' = [holder EXCEPT ![p] = None]
      /\ act' = [act EXCEPT ![c] =
                   [a EXCEPT !.pc = Unwound(Front(a.frames)),
                             !.frames = Front(a.frames),
                             !.bad = @ \/ fails]]
      /\ UNCHANGED <<alive, allowDup, outer, calls, history>>

\* A faulty variant: an error is returned as it is.
NoCleanUp(c) ==
  /\ act[c].pc = "connected"
  /\ act' = [act EXCEPT ![c] = Idle]
  /\ UNCHANGED <<alive, allowDup, ports, outer, calls, history>>

\* connect() has the answer of the first port, and cleans up after an error.
CleanUp(c) ==
  LET a == act[c]
  IN  /\ a.pc = "connected"
      /\ act' = [act EXCEPT ![c] =
                   IF a.bad
                     THEN [Idle EXCEPT !.pc = "next", !.at = a.at,
                                       !.todo = {a.id}]
                     ELSE Idle]
      /\ UNCHANGED <<alive, allowDup, ports, outer, calls, history>>

-----------------------------------------------------------------------------
(***************************************************************************)
(* disconnect(), once per identifier on the list of the call, and          *)
(* notify_disconnect() along the ports.                                    *)
(***************************************************************************)
\* The index is looked up without m_profile_mutex.
Find(c) ==
  \E id \in act[c].todo :
    LET a == act[c]  i == ProfileIndex(a.at, id)
    IN  /\ a.pc = "next"
        /\ act' = [act EXCEPT ![c] =
                     IF i = 0
                       THEN [a EXCEPT !.todo = @ \ {id}]
                       ELSE [Idle EXCEPT !.pc = "copy", !.at = a.at, !.id = id,
                                         !.todo = a.todo \ {id}, !.index = i]]
        /\ UNCHANGED <<alive, allowDup, ports, outer, calls, history>>

AllDisconnected(c) ==
  /\ act[c].pc = "next" /\ act[c].todo = {}
  /\ act' = [act EXCEPT ![c] = outer[c]]
  /\ outer' = [outer EXCEPT ![c] = Idle]
  /\ UNCHANGED <<alive, allowDup, ports, calls, history>>

\* With the mutex the profile at the index is copied, whose it may be by
\* now; beyond the end of the list the sequence raises an exception.
Copy(c) ==
  LET a == act[c]
  IN  /\ a.pc = "copy" /\ ~ProfileLocked(a.at)
      /\ IF a.index > Len(profiles[a.at])
           THEN /\ act' = [act EXCEPT ![c] =
                             [a EXCEPT !.pc = "next", !.todo = {}]]
                /\ missed' = missed \cup {a.id} \cup a.todo
           ELSE LET f == profiles[a.at][a.index]
                IN  /\ act' = [act EXCEPT ![c] =
                                 [a EXCEPT !.pc = "call", !.list = f.list]]
                    /\ missed' = IF f.id = a.id THEN missed
                                                ELSE missed \cup {a.id}
      /\ UNCHANGED <<alive, allowDup, ports, outer, calls, asked, cut>>

Returned(frames) == IF frames = <<>> THEN "next" ELSE "unsubscribe"

\* A faulty variant: a port that does not answer ends the chain.
StopAtDead(c) ==
  LET a == act[c]
  IN  /\ a.pc = "call" /\ a.k <= Len(a.list) /\ ~alive[a.list[a.k]]
      /\ act' = [act EXCEPT ![c] = [a EXCEPT !.pc = Returned(a.frames)]]
      /\ UNCHANGED <<alive, allowDup, ports, outer, calls, history>>

\* A port that does not answer is skipped, unless it was the last one.
SkipDead(c) ==
  LET a == act[c]
  IN  /\ a.pc = "call" /\ a.k <= Len(a.list) /\ ~alive[a.list[a.k]]
      /\ act' = [act EXCEPT ![c] =
                   IF a.k < Len(a.list)
                     THEN [a EXCEPT !.k = @ + 1]
                     ELSE [a EXCEPT !.pc = Returned(a.frames), !.bad = TRUE]]
      /\ UNCHANGED <<alive, allowDup, ports, outer, calls, history>>

\* A faulty variant: the chain starts again at the first port.
PositionOfFirst(p, list) == 1

PositionAfter(p, list) == SelectInSeq(list, LAMBDA q : q = p) + 1

\* The port of the call finds its profile and calls the next port of it.
NotifyDisconnect(c) ==
  LET a == act[c]
      p == a.list[a.k]
      f == CHOOSE g \in ToSet(profiles[p]) : g.id = a.id
      next == PositionAfter(p, f.list)
  IN  /\ a.pc = "call" /\ a.k <= Len(a.list) /\ alive[p]
      /\ holder[p] = None
      /\ HasProfile(p, a.id)
      /\ holder' = [holder EXCEPT ![p] = c]
      /\ act' = [act EXCEPT ![c] =
                   [a EXCEPT !.frames = Append(@, p), !.list = f.list,
                             !.k = next,
                             !.pc = IF next > Len(f.list)
                                      THEN "unsubscribe" ELSE "call"]]
      /\ UNCHANGED <<alive, allowDup, profiles, connectors, outer, calls,
                     history>>

\* A faulty variant: the mutex is not released.
UnknownKeepsMutex(c) ==
  LET a == act[c]  p == a.list[a.k]
  IN  /\ a.pc = "call" /\ a.k <= Len(a.list) /\ alive[p]
      /\ holder[p] = None
      /\ ~HasProfile(p, a.id)
      /\ holder' = [holder EXCEPT ![p] = c]
      /\ act' = [act EXCEPT ![c] =
                   [a EXCEPT !.pc = Returned(a.frames), !.bad = TRUE]]
      /\ UNCHANGED <<alive, allowDup, profiles, connectors, outer, calls,
                     history>>

\* ... or answers BAD_PARAMETER.
NotifyUnknown(c) ==
  LET a == act[c]  p == a.list[a.k]
  IN  /\ a.pc = "call" /\ a.k <= Len(a.list) /\ alive[p]
      /\ holder[p] = None
      /\ ~HasProfile(p, a.id)
      /\ act' = [act EXCEPT ![c] =
                   [a EXCEPT !.pc = Returned(a.frames), !.bad = TRUE]]
      /\ UNCHANGED <<alive, allowDup, ports, outer, calls, history>>

\* unsubscribeInterfaces() deletes the first connector of that identifier.
Unsubscribe(c) ==
  LET a == act[c]
      p == Last(a.frames)
      i == SelectInSeq(connectors[p], LAMBDA id : id = a.id)
  IN  /\ a.pc = "unsubscribe"
      /\ connectors' = IF i = 0 THEN connectors
                                ELSE [connectors EXCEPT ![p] = RemoveAt(@, i)]
      /\ profiles' = [profiles EXCEPT ![p] =
                        RemoveAt(@, ProfileIndex(p, a.id))]
      /\ holder' = [holder EXCEPT ![p] = None]
      /\ act' = [act EXCEPT ![c] =
                   [a EXCEPT !.frames = Front(a.frames),
                             !.pc = Returned(Front(a.frames))]]
      /\ UNCHANGED <<alive, allowDup, outer, calls, history>>

-----------------------------------------------------------------------------
ConnectStep(c) ==
  CallRaises(c) \/ CheckFan(c) \/ LockPort(c) \/ RefuseDuplicate(c)
    \/ Publish(c) \/ Subscribe(c) \/ CleanUp(c)

DisconnectStep(c) ==
  Find(c) \/ AllDisconnected(c) \/ Copy(c) \/ SkipDead(c)
    \/ NotifyDisconnect(c) \/ NotifyUnknown(c) \/ Unsubscribe(c)

Next ==
  \/ \E c \in Clients : \/ Connect(c) \/ Disconnect(c)
                        \/ DisconnectAll(c) \/ GetProfiles(c)
                        \/ ConnectStep(c) \/ DisconnectStep(c)
  \/ \E p \in Ports : Die(p)

Spec == Init /\ [][Next]_vars

\* A thread that may go on does; nothing makes a client call or a port die.
FairSpec ==
  Spec /\ \A c \in Clients : WF_vars(ConnectStep(c) \/ DisconnectStep(c))

-----------------------------------------------------------------------------
(***************************************************************************)
(* Properties.                                                             *)
(***************************************************************************)
TypeOK ==
  /\ alive \in [Ports -> BOOLEAN]
  /\ allowDup \in BOOLEAN
  /\ profiles \in [Ports -> Seq(Profile)]
  /\ connectors \in [Ports -> Seq(Conns)]
  /\ holder \in [Ports -> Clients \cup {None}]
  /\ act \in [Clients -> Call]
  /\ outer \in [Clients -> Call]
  /\ calls \in 0 .. MaxCalls
  /\ asked \subseteq [id : Conns, list : PortLists, at : Ports]
  /\ cut \subseteq Conns /\ missed \subseteq Conns

\* The port that a call is about to enter, or waits for.
Calls(c, p) ==
  /\ act[c].pc \in {"enter", "lock", "call"}
  /\ act[c].k <= Len(act[c].list)
  /\ p = act[c].list[act[c].k]

(***************************************************************************)
(* A call that waits for the mutex of a port holds only those of ports     *)
(* before it on the list of the connection (PortBase.cpp:250, 450): two    *)
(* calls block each other only if their connections list two ports in      *)
(* opposite orders.  It waits for a mutex that it holds itself only when   *)
(* double connections are not allowed and a port of an earlier connection  *)
(* has died: notify_connect() then asks its own port for the connections,  *)
(* with the mutex held, which disconnects the dead ones (PortBase.cpp:269).*)
(***************************************************************************)
WaitsInListOrder ==
  \A c \in Clients, p \in Ports :
    Calls(c, p) =>
      /\ \A q \in ToSet(act[c].frames) :
           \E i \in 1 .. act[c].k - 1 : act[c].list[i] = q
      /\ (act[c].pc \in {"lock", "call"} /\ holder[p] = c) =>
           /\ ~allowDup
           /\ outer[c].pc = "dup"
           /\ \E q \in ToSet(act[c].list) : ~alive[q]

AtRest == \A c \in Clients : act[c].pc = "idle"
LivePorts(f) == {p \in ToSet(f.list) : alive[p]}

(***************************************************************************)
(* When no call is under way, the live ports of a connection either all    *)
(* have it or all do not, whatever failed on the way or died; and a port   *)
(* that has it has its connector, one that does not has none.  This is for *)
(* connections made at the first port of the list (otherwise the port that *)
(* cleans up after an error may be one that was not reached), that were    *)
(* not looked up in vain by disconnect(), and, for the connectors, whose   *)
(* chain met no dead port (PortBase.cpp:220).                              *)
(***************************************************************************)
AgreeAtRest ==
  AtRest =>
    \A f \in asked :
      (f.at = f.list[1] /\ f.id \notin missed) =>
        /\ \A p, q \in LivePorts(f) :
             HasProfile(p, f.id) => HasProfile(q, f.id)
        /\ f.id \notin cut =>
             \A p \in LivePorts(f) : HasProfile(p, f.id) <=> HasConnector(p, f.id)

(***************************************************************************)
(* When no call is under way a live port has no more connections than its  *)
(* limit, although a connection over the limit is first made and stored    *)
(* and only then taken back (PortBase.cpp:365).                            *)
(***************************************************************************)
LimitKept ==
  (AtRest /\ missed = {} /\ \A f \in asked : f.at = f.list[1]) =>
    \A p \in Ports :
      alive[p] /\ Limit[p] # NoLimit => Len(profiles[p]) <= Limit[p]

(***************************************************************************)
(* Unless double connections are allowed, no port is connected twice to    *)
(* another one, by however many clients at a time: the test and the        *)
(* storing of the profile are under one mutex (PortBase.cpp:262, 317).     *)
(***************************************************************************)
NoDoubleConnection ==
  ~allowDup =>
    \A p \in Ports : \A i, j \in 1 .. Len(profiles[p]) :
      (\E q \in Ports \ {p} : /\ q \in ToSet(profiles[p][i].list)
                              /\ q \in ToSet(profiles[p][j].list)) => i = j

(***************************************************************************)
(* When disconnect() has disconnected the first port that it reached, no   *)
(* live port of the connection has it any more, dead ports in the middle   *)
(* of the chain or not, and whatever it answers (PortBase.cpp:400); unless *)
(* another disconnect() moved the profile that it looked up, so that it    *)
(* went to the ports of another connection (PortBase.cpp:390).             *)
(***************************************************************************)
DisconnectedMeansGone ==
  [][\A c \in Clients :
       (Unsubscribe(c) /\ Len(act[c].frames) = 1 /\ act[c].id \notin missed) =>
         \A p \in Ports : alive[p] =>
           \A i \in 1 .. Len(profiles'[p]) : profiles'[p][i].id # act[c].id]_vars

\* A call that disconnects dead connections inside notify_connect().
CleansUpInside(c) == outer[c].pc # "idle"

(***************************************************************************)
(* Every call returns, whatever the others do and whichever ports die, if  *)
(* all clients list the ports in one order and no notify_connect()         *)
(* disconnects dead connections: it waits for ports that come earlier on   *)
(* their lists, and so for calls that wait for it (PortBase.cpp:270).      *)
(***************************************************************************)
CallsReturn ==
  \A c \in Clients :
    act[c].pc # "idle" ~> (act[c].pc = "idle"
                             \/ \E d \in Clients : CleansUpInside(d))

=============================================================================
