------------------------ MODULE PortAgreementProofs ------------------------
(***************************************************************************)
(* Theorems about what PortConnection leaves behind: when no call is under *)
(* way the ports of a connection agree on it and keep their limits, and a  *)
(* connection that was disconnected is gone, for any ports, lists of       *)
(* ports, clients and connections.                                         *)
(***************************************************************************)
EXTENDS PortConnectionProofs

Disconnecting == {"next", "copy", "call", "unsubscribe"}

(***************************************************************************)
(* The notify_connect() of a client's call.                                *)
(***************************************************************************)
Maker(c) == IF outer[c] = Idle THEN act[c] ELSE outer[c]

Makes(c, id) == Maker(c).pc \in Connecting /\ Maker(c).id = id

-----------------------------------------------------------------------------
(***************************************************************************)
(* What holds of a call, and what its steps change.                        *)
(***************************************************************************)
LEMMA LastOrBefore ==
  ASSUME NEW k \in Nat, NEW m \in 1 .. k + 1
  PROVE  m \in 1 .. k \/ m = k + 1
OBVIOUS

LEMMA ListFacts ==
  ASSUME NEW l \in PortLists
  PROVE  /\ l \in Seq(Ports) /\ Len(l) \in Nat \ {0} /\ Distinct(l)
         /\ \A i \in 1 .. Len(l) : l[i] \in Ports
         /\ \A p : p \in ToSet(l) <=> \E i \in 1 .. Len(l) : l[i] = p
<1>1. l \in Seq(Ports) /\ Len(l) > 0 /\ Distinct(l)
  BY ConnectionAssumption DEF Distinct
<1>2. Len(l) \in Nat /\ \A i \in 1 .. Len(l) : l[i] \in Ports
  BY <1>1, LenProperties, ElementOfSeq
<1>3. ToSet(l) = {l[i] : i \in 1 .. Len(l)}
  BY <1>1, Elements
<1>. QED
  BY <1>1, <1>2, <1>3

LEMMA MakerFacts ==
  ASSUME ConnInv, NEW c \in Clients
  PROVE  /\ Maker(c) \in Call /\ Shape(Maker(c)) /\ InOrder(Maker(c))
         /\ outer[c] = Idle \/ outer[c].pc = "dup"
         /\ act[c].pc \notin Disconnecting => outer[c] = Idle /\ Maker(c) = act[c]
         /\ Maker(c).pc \in Connecting =>
              /\ Maker(c).id \in Conns /\ Maker(c).list \in PortLists
              /\ Asked(Maker(c).id, Maker(c).list)
         /\ \A p \in ToSet(Maker(c).frames) : p \in Ports /\ holder[p] = c
         /\ Maker(c).frames \in Seq(Ports) /\ Distinct(Maker(c).frames)
<1>1. /\ TypeOK /\ act[c] \in Call /\ outer[c] \in Call
      /\ Shape(act[c]) /\ InOrder(act[c])
      /\ outer[c] = Idle \/ Nested(act[c], outer[c])
      /\ \A p \in Ports : holder[p] = c <=> Holds(c, p)
  BY CallFacts
<1>2. Maker(c) \in Call /\ Shape(Maker(c)) /\ InOrder(Maker(c))
  BY <1>1 DEF Maker, Nested
<1>3. outer[c] = Idle \/ outer[c].pc = "dup"
  BY <1>1 DEF Nested
<1>4. act[c].pc \notin Disconnecting => outer[c] = Idle /\ Maker(c) = act[c]
  BY <1>1 DEF Nested, Maker, Disconnecting
<1>5. Maker(c).pc \in Connecting =>
        /\ Maker(c).id \in Conns /\ Maker(c).list \in PortLists
        /\ Asked(Maker(c).id, Maker(c).list)
  BY <1>1, <1>2, AskedIds DEF Shape
<1>6. Maker(c).frames \in Seq(Ports) /\ Distinct(Maker(c).frames)
      /\ ToSet(Maker(c).frames) \subseteq Ports
  BY <1>2, Elements DEF Call, Shape
<1>7. \A p \in ToSet(Maker(c).frames) : Holds(c, p)
  BY DEF Maker, Holds
<1>. QED
  BY <1>1, <1>2, <1>3, <1>4, <1>5, <1>6, <1>7

(***************************************************************************)
(* The connections that the ports keep are connections asked for.          *)
(***************************************************************************)
LEMMA KeptFacts ==
  ASSUME ConnInv, NEW p \in Ports, NEW id, HasProfile(p, id)
  PROVE  \A l : Asked(id, l) => l \in PortLists /\ p \in ToSet(l)
<1>1. PICK f \in ToSet(profiles[p]) : f.id = id
  BY DEF HasProfile
<1>2. Asked(id, f.list) /\ p \in ToSet(f.list)
  BY <1>1 DEF ConnInv, ProfilesInv
<1>3. ASSUME NEW l, Asked(id, l)
      PROVE  l = f.list
  BY <1>2, <1>3, OneAsked DEF ConnInv
<1>. QED
  BY <1>2, <1>3, AskedIds DEF ConnInv

LEMMA ProfileOfPort ==
  ASSUME TypeOK, NEW p \in Ports
  PROVE  /\ profiles[p] \in Seq(Profile) /\ Len(profiles[p]) \in Nat
         /\ \A id : HasProfile(p, id) <=>
                      \E i \in 1 .. Len(profiles[p]) : profiles[p][i].id = id
<1>1. profiles[p] \in Seq(Profile)
  BY DEF TypeOK
<1>. QED
  BY <1>1, Elements, LenProperties DEF HasProfile

ClientStep(c) ==
  \/ Connect(c) \/ Disconnect(c) \/ DisconnectAll(c) \/ GetProfiles(c)
  \/ ConnectStep(c) \/ DisconnectStep(c)

LEMMA StepFacts ==
  ASSUME TypeOK, NEW c \in Clients, ClientStep(c)
  PROVE  /\ UNCHANGED <<alive, allowDup>>
         /\ \A d \in Clients \ {c} :
              act'[d] = act[d] /\ outer'[d] = outer[d] /\ Maker(d)' = Maker(d)
         /\ missed \subseteq missed' /\ cut \subseteq cut'
<1>1. UNCHANGED <<alive, allowDup>>
  BY DEF ClientStep, Connect, Disconnect, DisconnectAll, GetProfiles, Begins,
         ConnectStep, CallRaises, CheckFan, LockPort, RefuseDuplicate, Publish,
         Subscribe, CleanUp, DisconnectStep, Find, AllDisconnected, Copy,
         SkipDead, NotifyDisconnect, NotifyUnknown, Unsubscribe
<1>2. (\E b : act' = [act EXCEPT ![c] = b])
      /\ (outer' = outer \/ \E b : outer' = [outer EXCEPT ![c] = b])
  <2>1. ASSUME NEW call, Begins(c, call)
        PROVE  act' = [act EXCEPT ![c] = call] /\ outer' = outer
    BY <2>1 DEF Begins
  <2>2. CASE Connect(c) \/ Disconnect(c) \/ DisconnectAll(c) \/ GetProfiles(c)
    BY <2>1, <2>2 DEF Connect, Disconnect, DisconnectAll, GetProfiles
  <2>3. CASE ConnectStep(c)
    BY <2>3 DEF ConnectStep, CallRaises, CheckFan, LockPort, RefuseDuplicate,
                Publish, Subscribe, CleanUp
  <2>4. CASE DisconnectStep(c)
    BY <2>4 DEF DisconnectStep, Find, AllDisconnected, Copy, SkipDead,
                NotifyDisconnect, NotifyUnknown, Unsubscribe
  <2>. QED
    BY <2>2, <2>3, <2>4 DEF ClientStep
<1>3. \A d \in Clients \ {c} : act'[d] = act[d] /\ outer'[d] = outer[d]
  BY <1>2 DEF TypeOK
<1>4. \A d \in Clients \ {c} : Maker(d)' = Maker(d)
  BY <1>3 DEF Maker
<1>5. missed \subseteq missed' /\ cut \subseteq cut'
  BY DEF ClientStep, Connect, Disconnect, DisconnectAll, GetProfiles, Begins,
         ConnectStep, CallRaises, CheckFan, LockPort, RefuseDuplicate, Publish,
         Subscribe, CleanUp, DisconnectStep, Find, AllDisconnected, Copy,
         SkipDead, NotifyDisconnect, NotifyUnknown, Unsubscribe, history
<1>. QED
  BY <1>1, <1>3, <1>4, <1>5

(***************************************************************************)
(* The steps of disconnect() and notify_disconnect().                      *)
(***************************************************************************)
Keeps(c) ==
  /\ UNCHANGED <<alive, allowDup, profiles, connectors, outer, asked, cut>>
  /\ act'[c].at = act[c].at

LEMMA FindEffect ==
  ASSUME ConnInv, NEW c \in Clients, Find(c)
  PROVE  /\ act[c].pc = "next" /\ Keeps(c) /\ UNCHANGED <<holder, missed>>
         /\ \E id \in act[c].todo :
              /\ act'[c].todo = act[c].todo \ {id}
              /\ \/ ~HasProfile(act[c].at, id) /\ act'[c].pc = "next"
                 \/ /\ act'[c].pc = "copy" /\ act'[c].id = id
                    /\ act'[c].k = 1 /\ act'[c].frames = <<>>
<1>. DEFINE a == act[c]
<1>1. a.pc = "next" /\ a \in Call /\ TypeOK /\ a.at \in Ports
  BY CallFacts DEF Find, Shape
<1>2. PICK id \in a.todo :
        act' = [act EXCEPT ![c] =
                  IF ProfileIndex(a.at, id) = 0
                    THEN [a EXCEPT !.todo = @ \ {id}]
                    ELSE [Idle EXCEPT !.pc = "copy", !.at = a.at, !.id = id,
                                      !.todo = a.todo \ {id},
                                      !.index = ProfileIndex(a.at, id)]]
  BY DEF Find
<1>3. UNCHANGED <<alive, allowDup, profiles, connectors, outer, asked, cut,
                  holder, missed>>
  BY DEF Find, ports, history
<1>4. CASE ProfileIndex(a.at, id) = 0
  <2>1. ~HasProfile(a.at, id)
    BY <1>1, <1>4, ProfileAt
  <2>2. act'[c] = [a EXCEPT !.todo = @ \ {id}]
    BY <1>1, <1>2, <1>4 DEF TypeOK
  <2>3. /\ act'[c].todo = a.todo \ {id} /\ act'[c].pc = "next"
        /\ act'[c].at = a.at
    BY <1>1, <2>2 DEF Call
  <2>. QED
    BY <1>1, <1>3, <2>1, <2>3 DEF Keeps
<1>5. CASE ProfileIndex(a.at, id) # 0
  <2>1. act'[c] = [Idle EXCEPT !.pc = "copy", !.at = a.at, !.id = id,
                               !.todo = a.todo \ {id},
                               !.index = ProfileIndex(a.at, id)]
    BY <1>1, <1>2, <1>5 DEF TypeOK
  <2>2. /\ act'[c].todo = a.todo \ {id} /\ act'[c].pc = "copy"
        /\ act'[c].id = id /\ act'[c].k = 1 /\ act'[c].frames = <<>>
        /\ act'[c].at = a.at
    BY <2>1 DEF Idle
  <2>. QED
    BY <1>1, <1>3, <2>2 DEF Keeps
<1>. QED
  BY <1>4, <1>5

LEMMA CopyEffect ==
  ASSUME ConnInv, NEW c \in Clients, Copy(c)
  PROVE  /\ act[c].pc = "copy" /\ Keeps(c) /\ UNCHANGED holder
         /\ act'[c].frames = <<>>
         /\ \/ /\ act'[c].pc = "next" /\ act'[c].todo = {}
               /\ {act[c].id} \cup act[c].todo \subseteq missed'
            \/ /\ act'[c].pc = "call"
               /\ act'[c].id = act[c].id /\ act'[c].todo = act[c].todo
               /\ act'[c].k = act[c].k
               /\ act[c].id \in missed' \/ Asked(act[c].id, act'[c].list)
<1>. DEFINE a == act[c]
            s == profiles[a.at]
            f == s[a.index]
<1>1. /\ a.pc = "copy" /\ a \in Call /\ TypeOK
      /\ UNCHANGED <<alive, allowDup, profiles, connectors, holder, outer,
                     asked, cut>>
  BY CallFacts DEF Copy, ports
<1>2. /\ a.frames = <<>> /\ a.at \in Ports /\ a.index > 0 /\ a.index \in Nat
  BY <1>1, CallFacts DEF Shape, Call
<1>3. s \in Seq(Profile) /\ Len(s) \in Nat
  BY <1>1, <1>2, LenProperties DEF TypeOK
<1>4. CASE a.index > Len(s)
  <2>1. /\ act'[c] = [a EXCEPT !.pc = "next", !.todo = {}]
        /\ missed' = missed \cup {a.id} \cup a.todo
    BY <1>1, <1>4 DEF Copy, TypeOK
  <2>2. /\ act'[c].pc = "next" /\ act'[c].frames = <<>> /\ act'[c].at = a.at
        /\ act'[c].todo = {}
    BY <1>1, <1>2, <2>1 DEF Call
  <2>. QED
    BY <1>1, <2>1, <2>2 DEF Keeps
<1>5. CASE ~(a.index > Len(s))
  <2>1. f \in ToSet(s)
    <3>1. a.index \in 1 .. Len(s)
      BY <1>2, <1>3, <1>5
    <3>. QED
      BY <3>1 DEF ToSet
  <2>2. Asked(f.id, f.list)
    BY <1>2, <2>1 DEF ConnInv, ProfilesInv
  <2>3. /\ act'[c] = [a EXCEPT !.pc = "call", !.list = f.list]
        /\ missed' = IF f.id = a.id THEN missed ELSE missed \cup {a.id}
    BY <1>1, <1>5 DEF Copy, TypeOK
  <2>. HIDE DEF f
  <2>4. /\ act'[c].pc = "call" /\ act'[c].frames = <<>> /\ act'[c].at = a.at
        /\ act'[c].id = a.id /\ act'[c].todo = a.todo /\ act'[c].k = a.k
        /\ act'[c].list = f.list
    BY <1>1, <1>2, <2>3 DEF Call
  <2>. QED
    BY <1>1, <2>2, <2>3, <2>4 DEF Keeps
<1>. QED
  BY <1>4, <1>5

SameChain(c) ==
  /\ Keeps(c) /\ UNCHANGED missed
  /\ act'[c].id = act[c].id /\ act'[c].todo = act[c].todo

LEMMA SkipDeadEffect ==
  ASSUME ConnInv, NEW c \in Clients, SkipDead(c)
  PROVE  /\ act[c].pc = "call" /\ act[c].k \in 1 .. Len(act[c].list)
         /\ ~alive[act[c].list[act[c].k]]
         /\ SameChain(c) /\ UNCHANGED holder
         /\ act'[c].frames = act[c].frames /\ act'[c].list = act[c].list
         /\ \/ act'[c].pc = "call" /\ act'[c].k = act[c].k + 1
            \/ /\ act'[c].pc = Returned(act[c].frames)
               /\ act[c].k = Len(act[c].list)
<1>. DEFINE a == act[c]
<1>1. /\ a.pc = "call" /\ a \in Call /\ TypeOK /\ ~alive[a.list[a.k]]
      /\ a.k <= Len(a.list)
      /\ UNCHANGED <<alive, allowDup, profiles, connectors, holder, outer,
                     asked, cut, missed>>
  BY CallFacts DEF SkipDead, ports, history
<1>2. a.k \in Nat /\ a.k > 0 /\ Len(a.list) \in Nat
  BY <1>1, CallFacts DEF Shape, Call
<1>3. \/ a.k < Len(a.list) /\ act'[c] = [a EXCEPT !.k = @ + 1]
      \/ /\ ~(a.k < Len(a.list))
         /\ act'[c] = [a EXCEPT !.pc = Returned(a.frames), !.bad = TRUE]
  BY <1>1 DEF SkipDead, TypeOK
<1>4. CASE a.k < Len(a.list) /\ act'[c] = [a EXCEPT !.k = @ + 1]
  <2>1. /\ act'[c].pc = "call" /\ act'[c].k = a.k + 1
        /\ act'[c].frames = a.frames /\ act'[c].list = a.list
        /\ act'[c].id = a.id /\ act'[c].todo = a.todo /\ act'[c].at = a.at
    BY <1>1, <1>4 DEF Call
  <2>. QED
    BY <1>1, <1>2, <2>1 DEF SameChain, Keeps
<1>5. CASE ~(a.k < Len(a.list))
           /\ act'[c] = [a EXCEPT !.pc = Returned(a.frames), !.bad = TRUE]
  <2>1. /\ act'[c].pc = Returned(a.frames)
        /\ act'[c].frames = a.frames /\ act'[c].list = a.list
        /\ act'[c].id = a.id /\ act'[c].todo = a.todo /\ act'[c].at = a.at
    BY <1>1, <1>5 DEF Call
  <2>2. a.k = Len(a.list)
    BY <1>1, <1>2, <1>5
  <2>. QED
    BY <1>1, <1>2, <2>1, <2>2 DEF SameChain, Keeps
<1>. QED
  BY <1>3, <1>4, <1>5

LEMMA NotifyUnknownEffect ==
  ASSUME ConnInv, NEW c \in Clients, NotifyUnknown(c)
  PROVE  /\ act[c].pc = "call" /\ act[c].k \in 1 .. Len(act[c].list)
         /\ alive[act[c].list[act[c].k]]
         /\ ~HasProfile(act[c].list[act[c].k], act[c].id)
         /\ SameChain(c) /\ UNCHANGED holder
         /\ act'[c].frames = act[c].frames /\ act'[c].list = act[c].list
         /\ act'[c].pc = Returned(act[c].frames)
<1>. DEFINE a == act[c]
<1>1. /\ a.pc = "call" /\ a \in Call /\ TypeOK /\ alive[a.list[a.k]]
      /\ a.k <= Len(a.list) /\ ~HasProfile(a.list[a.k], a.id)
      /\ UNCHANGED <<alive, allowDup, profiles, connectors, holder, outer,
                     asked, cut, missed>>
  BY CallFacts DEF NotifyUnknown, ports, history
<1>2. a.k \in Nat /\ a.k > 0 /\ Len(a.list) \in Nat
  BY <1>1, CallFacts DEF Shape, Call
<1>3. act'[c] = [a EXCEPT !.pc = Returned(a.frames), !.bad = TRUE]
  BY <1>1 DEF NotifyUnknown, TypeOK
<1>4. /\ act'[c].pc = Returned(a.frames)
      /\ act'[c].frames = a.frames /\ act'[c].list = a.list
      /\ act'[c].id = a.id /\ act'[c].todo = a.todo /\ act'[c].at = a.at
  BY <1>1, <1>3 DEF Call
<1>. QED
  BY <1>1, <1>2, <1>4 DEF SameChain, Keeps

LEMMA NotifyDisconnectEffect ==
  ASSUME ConnInv, NEW c \in Clients, NotifyDisconnect(c),
         NEW p, p = act[c].list[act[c].k]
  PROVE  /\ act[c].pc = "call" /\ act[c].k \in 1 .. Len(act[c].list)
         /\ p \in Ports /\ alive[p] /\ holder[p] = None
         /\ HasProfile(p, act[c].id)
         /\ SameChain(c)
         /\ holder' = [holder EXCEPT ![p] = c]
         /\ Asked(act[c].id, act'[c].list)
         /\ act'[c].frames = Append(act[c].frames, p)
         /\ act'[c].k = PositionAfter(p, act'[c].list)
         /\ act'[c].pc = IF act'[c].k > Len(act'[c].list)
                           THEN "unsubscribe" ELSE "call"
<1>. DEFINE a == act[c]
            f == CHOOSE g \in ToSet(profiles[p]) : g.id = a.id
            n == PositionAfter(p, f.list)
            pc == IF n > Len(f.list) THEN "unsubscribe" ELSE "call"
<1>1. /\ a.pc = "call" /\ a \in Call /\ TypeOK /\ alive[p] /\ holder[p] = None
      /\ a.k <= Len(a.list) /\ HasProfile(p, a.id)
      /\ holder' = [holder EXCEPT ![p] = c]
      /\ act' = [act EXCEPT ![c] =
                   [a EXCEPT !.frames = Append(@, p), !.list = f.list, !.k = n,
                             !.pc = pc]]
      /\ UNCHANGED <<alive, allowDup, profiles, connectors, outer,
                     asked, cut, missed>>
  BY CallFacts DEF NotifyDisconnect, history
<1>2. /\ a.k \in Nat /\ a.k > 0 /\ Len(a.list) \in Nat /\ a.list \in Seq(Ports)
  BY <1>1, CallFacts DEF Shape, Call
<1>3. a.k \in 1 .. Len(a.list) /\ p \in Ports
  <2>0. a.k <= Len(a.list)
    BY <1>1
  <2>. HIDE DEF a
  <2>1. a.k \in 1 .. Len(a.list)
    BY <1>2, <2>0
  <2>. USE DEF a
  <2>. QED
    BY <1>2, <2>1, ElementOfSeq
<1>4. f \in ToSet(profiles[p]) /\ f.id = a.id
  BY <1>1 DEF HasProfile
<1>5. Asked(a.id, f.list)
  BY <1>3, <1>4 DEF ConnInv, ProfilesInv
<1>. HIDE DEF f, n, pc
<1>6. act'[c] = [a EXCEPT !.frames = Append(@, p), !.list = f.list, !.k = n,
                          !.pc = pc]
  BY <1>1 DEF TypeOK
<1>7. /\ act'[c].frames = Append(a.frames, p) /\ act'[c].list = f.list
      /\ act'[c].k = n /\ act'[c].pc = pc
      /\ act'[c].id = a.id /\ act'[c].todo = a.todo /\ act'[c].at = a.at
  <2>1. a \in Call
    BY <1>1
  <2>. HIDE DEF a
  <2>. QED
    BY <1>6, <2>1 DEF Call
<1>8. SameChain(c)
  BY <1>1, <1>7 DEF SameChain, Keeps
<1>. QED
  BY <1>1, <1>3, <1>5, <1>7, <1>8 DEF n, pc

LEMMA AllDisconnectedEffect ==
  ASSUME ConnInv, NEW c \in Clients, AllDisconnected(c)
  PROVE  /\ act[c].pc = "next" /\ act[c].todo = {}
         /\ act'[c] = outer[c] /\ outer'[c] = Idle
         /\ UNCHANGED <<alive, allowDup, profiles, connectors, holder, asked,
                        cut, missed>>
BY CallFacts DEF AllDisconnected, ports, history, TypeOK

LEMMA CleanUpEffect ==
  ASSUME ConnInv, NEW c \in Clients, CleanUp(c)
  PROVE  /\ act[c].pc = "connected"
         /\ UNCHANGED <<alive, allowDup, profiles, connectors, holder, outer,
                        asked, cut, missed>>
         /\ \/ ~act[c].bad /\ act'[c] = Idle
            \/ /\ act[c].bad /\ act'[c].pc = "next" /\ act'[c].at = act[c].at
               /\ act'[c].todo = {act[c].id}
<1>. DEFINE a == act[c]
<1>1. /\ a.pc = "connected" /\ TypeOK
      /\ UNCHANGED <<alive, allowDup, profiles, connectors, holder, outer,
                     asked, cut, missed>>
      /\ act' = [act EXCEPT ![c] =
                   IF a.bad THEN [Idle EXCEPT !.pc = "next", !.at = a.at,
                                              !.todo = {a.id}]
                            ELSE Idle]
  BY CallFacts DEF CleanUp, ports, history
<1>2. CASE a.bad
  <2>1. act'[c] = [Idle EXCEPT !.pc = "next", !.at = a.at, !.todo = {a.id}]
    BY <1>1, <1>2 DEF TypeOK
  <2>2. act'[c].pc = "next" /\ act'[c].at = a.at /\ act'[c].todo = {a.id}
    BY <2>1 DEF Idle
  <2>. QED
    BY <1>1, <1>2, <2>2
<1>3. CASE ~a.bad
  BY <1>1, <1>3 DEF TypeOK
<1>. QED
  BY <1>2, <1>3

(***************************************************************************)
(* The clients' calls to disconnect connections that a port has.           *)
(***************************************************************************)
Disconnects(c) == Disconnect(c) \/ DisconnectAll(c) \/ GetProfiles(c)

LEMMA DisconnectsEffect ==
  ASSUME ConnInv, NEW c \in Clients, Disconnects(c)
  PROVE  /\ act[c].pc = "idle"
         /\ UNCHANGED <<alive, allowDup, profiles, connectors, holder, outer,
                        asked, cut, missed>>
         /\ act'[c].pc = "next" /\ act'[c].at \in Ports /\ alive[act'[c].at]
         /\ \A id \in act'[c].todo : HasProfile(act'[c].at, id)
<1>1. TypeOK
  BY DEF ConnInv
<1>2. PICK at \in Ports, ids \in SUBSET Conns :
        /\ alive[at]
        /\ Begins(c, [Idle EXCEPT !.pc = "next", !.at = at, !.todo = ids])
        /\ UNCHANGED asked
        /\ \A id \in ids : HasProfile(at, id)
  <2>1. CASE Disconnect(c)
    <3>1. PICK at \in Ports, id \in Conns :
            /\ alive[at] /\ HasProfile(at, id)
            /\ Begins(c, [Idle EXCEPT !.pc = "next", !.at = at, !.todo = {id}])
            /\ UNCHANGED asked
      BY <2>1 DEF Disconnect
    <3>. DEFINE ids == {id}
    <3>2. /\ ids \in SUBSET Conns /\ \A n \in ids : HasProfile(at, n)
          /\ Begins(c, [Idle EXCEPT !.pc = "next", !.at = at, !.todo = ids])
      BY <3>1
    <3>. QED
      BY <3>1, <3>2
  <2>2. CASE DisconnectAll(c)
    BY <1>1, <2>2, ProfileIds DEF DisconnectAll, HasProfile
  <2>3. CASE GetProfiles(c)
    BY <1>1, <2>3, ProfileIds DEF GetProfiles, DeadConnections, HasProfile
  <2>. QED
    BY <2>1, <2>2, <2>3 DEF Disconnects
<1>3. /\ act[c].pc = "idle"
      /\ UNCHANGED <<alive, allowDup, profiles, connectors, holder, outer,
                     asked, cut, missed>>
      /\ act'[c] = [Idle EXCEPT !.pc = "next", !.at = at, !.todo = ids]
  BY <1>1, <1>2 DEF Begins, ports, TypeOK
<1>4. act'[c].pc = "next" /\ act'[c].at = at /\ act'[c].todo = ids
  BY <1>3 DEF Idle
<1>. QED
  BY <1>2, <1>3, <1>4

LEMMA ConnectEffect ==
  ASSUME ConnInv, NEW c \in Clients, Connect(c)
  PROVE  /\ act[c].pc = "idle"
         /\ UNCHANGED <<alive, allowDup, profiles, connectors, holder, outer,
                        cut, missed>>
         /\ act'[c].pc = "enter" /\ act'[c].frames = <<>> /\ act'[c].k = 1
         /\ ~act'[c].bad /\ act'[c].list \in PortLists
         /\ act'[c].at \in Ports /\ alive[act'[c].at]
         /\ \A f \in asked : f.id # act'[c].id
         /\ asked' = asked \cup {[id |-> act'[c].id, list |-> act'[c].list,
                                  at |-> act'[c].at]}
<1>1. PICK id \in Conns, l \in PortLists : \E at \in ToSet(l) :
        /\ \A f \in asked : f.id # id
        /\ alive[at]
        /\ Begins(c, [Idle EXCEPT !.pc = "enter", !.id = id, !.at = at, !.list = l])
        /\ asked' = asked \cup {[id |-> id, list |-> l, at |-> at]}
  BY DEF Connect
<1>2. PICK at \in ToSet(l) :
        /\ \A f \in asked : f.id # id
        /\ alive[at]
        /\ Begins(c, [Idle EXCEPT !.pc = "enter", !.id = id, !.at = at, !.list = l])
        /\ asked' = asked \cup {[id |-> id, list |-> l, at |-> at]}
  BY <1>1
<1>3. /\ act[c].pc = "idle"
      /\ UNCHANGED <<alive, allowDup, profiles, connectors, holder, outer,
                     cut, missed>>
      /\ act'[c] = [Idle EXCEPT !.pc = "enter", !.id = id, !.at = at, !.list = l]
  BY <1>2 DEF Begins, ports, ConnInv, TypeOK
<1>4. /\ act'[c].pc = "enter" /\ act'[c].id = id /\ act'[c].at = at
      /\ act'[c].list = l /\ act'[c].frames = <<>> /\ act'[c].k = 1
      /\ ~act'[c].bad
  BY <1>3 DEF Idle
<1>5. at \in Ports
  BY ListFacts
<1>. QED
  BY <1>2, <1>3, <1>4, <1>5

-----------------------------------------------------------------------------
(***************************************************************************)
(* The steps of connect() and notify_connect().                            *)
(***************************************************************************)
SameMaking(c) ==
  /\ outer[c] = Idle /\ outer'[c] = Idle
  /\ act'[c].id = act[c].id /\ act'[c].list = act[c].list
  /\ act'[c].at = act[c].at
  /\ UNCHANGED <<alive, allowDup, asked, cut, missed>>

LEMMA CallRaisesEffect ==
  ASSUME ConnInv, NEW c \in Clients, CallRaises(c)
  PROVE  /\ act[c].pc = "enter" /\ outer[c] = Idle
         /\ act'[c] = Idle /\ outer' = outer
         /\ UNCHANGED <<alive, allowDup, profiles, connectors, asked, missed>>
         /\ cut' = cut \cup {act[c].id}
         /\ \A p \in Ports : holder'[p] \in {holder[p], None}
<1>1. act[c].pc = "enter" /\ outer[c] = Idle /\ TypeOK
  BY Unnested, CallFacts DEF CallRaises
<1>2. act'[c] = Idle
  BY <1>1 DEF CallRaises, TypeOK
<1>3. \A p \in Ports : holder'[p] \in {holder[p], None}
  BY DEF CallRaises
<1>. QED
  BY <1>1, <1>2, <1>3 DEF CallRaises

LEMMA CheckFanEffect ==
  ASSUME ConnInv, NEW c \in Clients, CheckFan(c)
  PROVE  /\ act[c].pc = "enter" /\ act[c].k \in 1 .. Len(act[c].list)
         /\ alive[act[c].list[act[c].k]]
         /\ SameMaking(c) /\ UNCHANGED <<profiles, connectors, holder>>
         /\ act'[c].frames = act[c].frames
         /\ \/ /\ act'[c].pc = "lock" /\ act'[c].bad = act[c].bad
               /\ act'[c].k = act[c].k
            \/ act'[c].pc = Unwound(act[c].frames) /\ act'[c].bad
<1>. DEFINE a == act[c]
<1>1. /\ a.pc = "enter" /\ outer[c] = Idle /\ a \in Call /\ TypeOK
      /\ alive[a.list[a.k]] /\ a.k \in 1 .. Len(a.list)
      /\ UNCHANGED <<alive, allowDup, profiles, connectors, holder, outer, asked,
                     cut, missed>>
  BY Unnested, CallFacts DEF CheckFan, ports, history, Shape
<1>2. \/ act'[c] = [a EXCEPT !.pc = Unwound(a.frames), !.bad = TRUE]
      \/ act'[c] = [a EXCEPT !.pc = "lock"]
  BY <1>1 DEF CheckFan, TypeOK
<1>3. /\ act'[c].id = a.id /\ act'[c].list = a.list /\ act'[c].at = a.at
      /\ act'[c].frames = a.frames
      /\ \/ act'[c].pc = "lock" /\ act'[c].bad = a.bad /\ act'[c].k = a.k
         \/ act'[c].pc = Unwound(a.frames) /\ act'[c].bad
  BY <1>1, <1>2 DEF Call
<1>. QED
  BY <1>1, <1>3 DEF SameMaking

LEMMA LockPortEffect ==
  ASSUME ConnInv, NEW c \in Clients, LockPort(c),
         NEW p, p = act[c].list[act[c].k]
  PROVE  /\ act[c].pc = "lock" /\ act[c].k \in 1 .. Len(act[c].list)
         /\ outer[c] = Idle /\ p \in Ports /\ p \notin ToSet(act[c].frames)
         /\ holder' = [holder EXCEPT ![p] = c]
         /\ UNCHANGED <<alive, allowDup, profiles, connectors, asked, cut, missed>>
         /\ Maker(c).pc' = "dup"
         /\ Maker(c).frames' = Append(act[c].frames, p)
         /\ Maker(c).id' = act[c].id /\ Maker(c).list' = act[c].list
         /\ Maker(c).at' = act[c].at /\ Maker(c).k' = act[c].k
         /\ Maker(c).bad' = act[c].bad
         /\ \/ act'[c].pc = "dup" /\ act'[c].at = act[c].at
            \/ /\ act'[c].pc = "next" /\ act'[c].at = p
               /\ \A id \in act'[c].todo : HasProfile(p, id)
<1>. DEFINE a == act[c]
            inside == [a EXCEPT !.pc = "dup", !.frames = Append(a.frames, p)]
            dead == IF allowDup THEN {} ELSE DeadConnections(p)
            asking == [Idle EXCEPT !.pc = "next", !.at = p, !.todo = dead]
<1>1. /\ a.pc = "lock" /\ outer[c] = Idle /\ a \in Call /\ TypeOK
      /\ a.k \in 1 .. Len(a.list) /\ a.list \in Seq(Ports)
  BY Unnested, CallFacts DEF LockPort, Shape
<1>2. /\ holder[p] = None
      /\ holder' = [holder EXCEPT ![p] = c]
      /\ UNCHANGED <<alive, allowDup, profiles, connectors, asked, cut, missed>>
  BY DEF LockPort, history
<1>3. p \in Ports
  BY <1>1, ElementOfSeq
<1>4. p \notin ToSet(a.frames)
  BY <1>2, <1>3, CallFacts, ConnectionAssumption DEF Holds
<1>5. \/ act' = [act EXCEPT ![c] = inside] /\ outer' = outer
      \/ /\ act' = [act EXCEPT ![c] = asking]
         /\ outer' = [outer EXCEPT ![c] = inside]
  BY DEF LockPort
<1>6. \A id \in dead : HasProfile(p, id)
  BY DEF DeadConnections, HasProfile
<1>. HIDE DEF dead
<1>7. /\ inside.pc = "dup" /\ inside.frames = Append(a.frames, p)
      /\ inside.id = a.id /\ inside.list = a.list /\ inside.at = a.at
      /\ inside.k = a.k /\ inside.bad = a.bad
  BY <1>1 DEF Call
<1>8. asking.pc = "next" /\ asking.at = p /\ asking.todo = dead
  BY DEF Idle
<1>. HIDE DEF inside, asking
<1>9. \/ act'[c] = inside /\ outer'[c] = Idle
      \/ act'[c] = asking /\ outer'[c] = inside
  BY <1>1, <1>5 DEF TypeOK
<1>10. Maker(c)' = inside
  <2>1. inside # Idle
    BY <1>7, NoFrames
  <2>. QED
    BY <1>9, <2>1 DEF Maker
<1>11. \/ act'[c].pc = "dup" /\ act'[c].at = a.at
       \/ /\ act'[c].pc = "next" /\ act'[c].at = p
          /\ \A id \in act'[c].todo : HasProfile(p, id)
  BY <1>6, <1>7, <1>8, <1>9
<1>. QED
  BY <1>1, <1>2, <1>3, <1>4, <1>7, <1>10, <1>11

LEMMA RefuseDuplicateEffect ==
  ASSUME ConnInv, NEW c \in Clients, RefuseDuplicate(c)
  PROVE  /\ act[c].pc = "dup" /\ act[c].frames # <<>>
         /\ SameMaking(c) /\ UNCHANGED <<profiles, connectors>>
         /\ holder' = [holder EXCEPT ![Last(act[c].frames)] = None]
         /\ act'[c].frames = Front(act[c].frames)
         /\ act'[c].pc = Unwound(Front(act[c].frames)) /\ act'[c].bad
<1>. DEFINE a == act[c]
            pc == Unwound(Front(a.frames))
<1>1. /\ a.pc = "dup" /\ outer[c] = Idle /\ a \in Call /\ TypeOK
      /\ a.frames # <<>>
      /\ holder' = [holder EXCEPT ![Last(a.frames)] = None]
      /\ UNCHANGED <<alive, allowDup, profiles, connectors, outer, asked, cut,
                     missed>>
  BY Unnested, CallFacts DEF RefuseDuplicate, history, Shape
<1>2. act' = [act EXCEPT ![c] = [a EXCEPT !.pc = pc, !.bad = TRUE,
                                          !.frames = Front(a.frames)]]
  BY DEF RefuseDuplicate
<1>. HIDE DEF pc
<1>3. act'[c] = [a EXCEPT !.pc = pc, !.bad = TRUE, !.frames = Front(a.frames)]
  BY <1>1, <1>2 DEF TypeOK
<1>4. /\ act'[c].id = a.id /\ act'[c].list = a.list /\ act'[c].at = a.at
      /\ act'[c].frames = Front(a.frames) /\ act'[c].pc = pc /\ act'[c].bad
  BY <1>1, <1>3 DEF Call
<1>. QED
  BY <1>1, <1>4 DEF SameMaking, pc

LEMMA PublishEffect ==
  ASSUME ConnInv, NEW c \in Clients, Publish(c),
         NEW p, p = Last(act[c].frames)
  PROVE  /\ act[c].pc = "dup" /\ act[c].k \in 1 .. Len(act[c].list)
         /\ p \in Ports /\ p \in ToSet(act[c].frames)
         /\ SameMaking(c) /\ UNCHANGED <<profiles, holder>>
         /\ act'[c].frames = act[c].frames
         /\ \/ /\ act'[c].pc = "enter" /\ act'[c].k = act[c].k + 1
               /\ act[c].k < Len(act[c].list)
            \/ act'[c].pc = "subscribe" /\ act[c].k = Len(act[c].list)
         /\ act[c].bad \/ AtLimit(p) <=> act'[c].bad
         /\ \A q \in Ports \ {p} : connectors'[q] = connectors[q]
         /\ \/ connectors'[p] = connectors[p]
            \/ /\ p \in Providers
               /\ connectors'[p] = Append(connectors[p], act[c].id)
<1>. DEFINE a == act[c]
            last == a.k = Len(a.list)
            pc == IF last THEN "subscribe" ELSE "enter"
            k == IF last THEN a.k ELSE a.k + 1
            publishes == p \in Providers /\ ~AtLimit(p)
            pub == a.pub \/ publishes
            bad == a.bad \/ AtLimit(p)
<1>1. /\ a.pc = "dup" /\ outer[c] = Idle /\ a \in Call /\ TypeOK
      /\ a.frames # <<>> /\ a.k \in 1 .. Len(a.list) /\ a.list \in Seq(Ports)
      /\ a.frames \in Seq(Ports) /\ Distinct(a.frames)
      /\ UNCHANGED <<alive, allowDup, profiles, holder, outer, asked, cut, missed>>
  BY Unnested, CallFacts DEF Publish, history, Shape
<1>2. p \in Ports /\ p \in ToSet(a.frames)
  BY <1>1, FrontLast
<1>3. act' = [act EXCEPT ![c] = [a EXCEPT !.pc = pc, !.k = k, !.pub = pub,
                                          !.bad = bad]]
  BY DEF Publish
<1>4. connectors' = IF publishes
                      THEN [connectors EXCEPT ![p] = Append(@, a.id)]
                      ELSE connectors
  BY DEF Publish
<1>5. /\ \A q \in Ports \ {p} : connectors'[q] = connectors[q]
      /\ \/ connectors'[p] = connectors[p]
         \/ p \in Providers /\ connectors'[p] = Append(connectors[p], a.id)
  BY <1>1, <1>2, <1>4 DEF TypeOK
<1>. HIDE DEF pc, k, pub, bad
<1>6. act'[c] = [a EXCEPT !.pc = pc, !.k = k, !.pub = pub, !.bad = bad]
  BY <1>1, <1>3 DEF TypeOK
<1>7. /\ act'[c].id = a.id /\ act'[c].list = a.list /\ act'[c].at = a.at
      /\ act'[c].frames = a.frames /\ act'[c].pc = pc /\ act'[c].k = k
      /\ act'[c].bad = bad
  BY <1>1, <1>6 DEF Call
<1>8. \/ act'[c].pc = "enter" /\ act'[c].k = a.k + 1 /\ a.k < Len(a.list)
      \/ act'[c].pc = "subscribe" /\ a.k = Len(a.list)
  BY <1>1, <1>7 DEF pc, k
<1>9. a.bad \/ AtLimit(p) <=> act'[c].bad
  BY <1>7 DEF bad
<1>. QED
  BY <1>1, <1>2, <1>5, <1>7, <1>8, <1>9 DEF SameMaking

LEMMA SubscribeEffect ==
  ASSUME ConnInv, NEW c \in Clients, Subscribe(c),
         NEW p, p = Last(act[c].frames)
  PROVE  /\ act[c].pc = "subscribe" /\ act[c].frames # <<>>
         /\ p \in Ports /\ p \in ToSet(act[c].frames)
         /\ SameMaking(c)
         /\ act'[c].frames = Front(act[c].frames)
         /\ act'[c].pc = Unwound(Front(act[c].frames))
         /\ holder' = [holder EXCEPT ![p] = None]
         /\ \A q \in Ports \ {p} :
              profiles'[q] = profiles[q] /\ connectors'[q] = connectors[q]
         /\ ~HasProfile(p, act[c].id) =>
              profiles'[p] = Append(profiles[p], ProfileOf(act[c]))
         /\ ProfileOf(act[c]) \in Profile /\ ProfileOf(act[c]).id = act[c].id
         /\ \/ connectors'[p] = connectors[p]
            \/ /\ p \notin Providers
               /\ connectors'[p] = Append(connectors[p], act[c].id)
         /\ ~act'[c].bad =>
              /\ ~act[c].bad
              /\ \/ HasConnector(p, act[c].id) /\ connectors'[p] = connectors[p]
                 \/ connectors'[p] = Append(connectors[p], act[c].id)
<1>. DEFINE a == act[c]
            i == ProfileIndex(p, a.id)
            creates == p \notin Providers /\ a.pub
            fails == IF p \in Providers THEN ~HasConnector(p, a.id) ELSE ~a.pub
            bad == a.bad \/ fails
            pc == Unwound(Front(a.frames))
<1>1. /\ a.pc = "subscribe" /\ outer[c] = Idle /\ a \in Call /\ TypeOK
      /\ a.frames # <<>> /\ a.frames \in Seq(Ports) /\ Distinct(a.frames)
      /\ a.list \in PortLists /\ Asked(a.id, a.list)
      /\ holder' = [holder EXCEPT ![p] = None]
      /\ UNCHANGED <<alive, allowDup, outer, asked, cut, missed>>
  BY Unnested, CallFacts DEF Subscribe, history, Shape, Connecting
<1>2. p \in Ports /\ p \in ToSet(a.frames)
  BY <1>1, FrontLast
<1>3. /\ act' = [act EXCEPT ![c] = [a EXCEPT !.pc = pc,
                                             !.frames = Front(a.frames),
                                             !.bad = bad]]
      /\ connectors' = IF creates
                         THEN [connectors EXCEPT ![p] = Append(@, a.id)]
                         ELSE connectors
      /\ profiles' = [profiles EXCEPT ![p] =
                        IF i = 0 THEN Append(@, ProfileOf(a))
                                 ELSE [@ EXCEPT ![i] = ProfileOf(a)]]
  BY DEF Subscribe
<1>4. /\ \A q \in Ports \ {p} : connectors'[q] = connectors[q]
      /\ creates => connectors'[p] = Append(connectors[p], a.id)
      /\ ~creates => connectors'[p] = connectors[p]
  BY <1>1, <1>2, <1>3 DEF TypeOK
<1>5. /\ \A q \in Ports \ {p} : profiles'[q] = profiles[q]
      /\ i = 0 => profiles'[p] = Append(profiles[p], ProfileOf(a))
  BY <1>1, <1>2, <1>3 DEF TypeOK
<1>6. ~HasProfile(p, a.id) => i = 0
  BY <1>1, <1>2, ProfileAt
<1>7. ProfileOf(a) \in Profile /\ ProfileOf(a).id = a.id
  BY <1>1, AskedIds DEF ProfileOf, Profile
<1>. HIDE DEF pc, bad, i
<1>8. act'[c] = [a EXCEPT !.pc = pc, !.frames = Front(a.frames), !.bad = bad]
  BY <1>1, <1>3 DEF TypeOK
<1>9. /\ act'[c].id = a.id /\ act'[c].list = a.list /\ act'[c].at = a.at
      /\ act'[c].frames = Front(a.frames) /\ act'[c].pc = pc
      /\ act'[c].bad = bad
  BY <1>1, <1>8 DEF Call
<1>10. ~act'[c].bad =>
         /\ ~a.bad
         /\ \/ HasConnector(p, a.id) /\ connectors'[p] = connectors[p]
            \/ connectors'[p] = Append(connectors[p], a.id)
  BY <1>4, <1>9 DEF bad
<1>. QED
  BY <1>1, <1>2, <1>4, <1>5, <1>6, <1>7, <1>9, <1>10 DEF SameMaking, pc

LEMMA UnsubscribeEffect ==
  ASSUME ConnInv, NEW c \in Clients, Unsubscribe(c),
         NEW p, p = Last(act[c].frames)
  PROVE  /\ act[c].pc = "unsubscribe" /\ act[c].frames # <<>>
         /\ p \in Ports /\ p \in ToSet(act[c].frames)
         /\ UNCHANGED <<alive, allowDup, outer, asked, cut, missed>>
         /\ act'[c].id = act[c].id /\ act'[c].todo = act[c].todo
         /\ act'[c].at = act[c].at
         /\ act'[c].frames = Front(act[c].frames)
         /\ act'[c].pc = Returned(Front(act[c].frames))
         /\ holder' = [holder EXCEPT ![p] = None]
         /\ \A q \in Ports \ {p} :
              profiles'[q] = profiles[q] /\ connectors'[q] = connectors[q]
         /\ profiles'[p] = RemoveAt(profiles[p], ProfileIndex(p, act[c].id))
         /\ \/ /\ \A j \in 1 .. Len(connectors[p]) : connectors[p][j] # act[c].id
               /\ connectors'[p] = connectors[p]
            \/ \E j \in 1 .. Len(connectors[p]) :
                 /\ connectors[p][j] = act[c].id
                 /\ connectors'[p] = RemoveAt(connectors[p], j)
<1>. DEFINE a == act[c]
            m == SelectInSeq(connectors[p], LAMBDA id : id = a.id)
            I == {j \in 1 .. Len(connectors[p]) : connectors[p][j] = a.id}
            pc == Returned(Front(a.frames))
<1>1. /\ a.pc = "unsubscribe" /\ a \in Call /\ TypeOK
      /\ a.frames # <<>> /\ a.frames \in Seq(Ports) /\ Distinct(a.frames)
      /\ connectors' = IF m = 0 THEN connectors
                                ELSE [connectors EXCEPT ![p] = RemoveAt(@, m)]
      /\ profiles' = [profiles EXCEPT ![p] = RemoveAt(@, ProfileIndex(p, a.id))]
      /\ holder' = [holder EXCEPT ![p] = None]
      /\ act' = [act EXCEPT ![c] = [a EXCEPT !.frames = Front(a.frames),
                                             !.pc = pc]]
      /\ UNCHANGED <<alive, allowDup, outer, asked, cut, missed>>
  <2>1. /\ a.pc = "unsubscribe" /\ a \in Call /\ TypeOK
        /\ a.frames # <<>> /\ a.frames \in Seq(Ports) /\ Distinct(a.frames)
    BY CallFacts DEF Unsubscribe, Shape
  <2>2. UNCHANGED <<alive, allowDup, outer, asked, cut, missed>>
    BY DEF Unsubscribe, history
  <2>3. /\ connectors' = IF m = 0 THEN connectors
                                  ELSE [connectors EXCEPT ![p] = RemoveAt(@, m)]
        /\ profiles' = [profiles EXCEPT ![p] = RemoveAt(@, ProfileIndex(p, a.id))]
        /\ holder' = [holder EXCEPT ![p] = None]
        /\ act' = [act EXCEPT ![c] = [a EXCEPT !.frames = Front(a.frames),
                                               !.pc = pc]]
    BY Zenon DEF Unsubscribe
  <2>. QED
    BY <2>1, <2>2, <2>3
<1>2. p \in Ports /\ p \in ToSet(a.frames)
  BY <1>1, FrontLast
<1>3. m = IF I # {} THEN Min(I) ELSE 0
  BY DEF SelectInSeq
<1>4. I \in SUBSET Nat
  OBVIOUS
<1>. HIDE DEF m, I
<1>5. I # {} => m \in I
  BY <1>3, <1>4, LeastPosition
<1>6. I = {} => m = 0
  BY <1>3
<1>7. I # {} => m # 0
  BY <1>5 DEF I
<1>8. /\ \A q \in Ports \ {p} : connectors'[q] = connectors[q]
      /\ m = 0 => connectors'[p] = connectors[p]
      /\ m # 0 => connectors'[p] = RemoveAt(connectors[p], m)
  BY <1>1, <1>2 DEF TypeOK
<1>9. \/ /\ \A j \in 1 .. Len(connectors[p]) : connectors[p][j] # a.id
         /\ connectors'[p] = connectors[p]
      \/ \E j \in 1 .. Len(connectors[p]) :
           connectors[p][j] = a.id /\ connectors'[p] = RemoveAt(connectors[p], j)
  BY <1>5, <1>6, <1>7, <1>8 DEF I
<1>10. /\ \A q \in Ports \ {p} : profiles'[q] = profiles[q]
       /\ profiles'[p] = RemoveAt(profiles[p], ProfileIndex(p, a.id))
  BY <1>1, <1>2 DEF TypeOK
<1>. HIDE DEF pc
<1>11. act'[c] = [a EXCEPT !.frames = Front(a.frames), !.pc = pc]
  BY <1>1 DEF TypeOK
<1>12. /\ act'[c].id = a.id /\ act'[c].todo = a.todo /\ act'[c].at = a.at
       /\ act'[c].frames = Front(a.frames) /\ act'[c].pc = pc
  <2>1. a \in Call
    BY <1>1
  <2>. HIDE DEF a
  <2>. QED
    BY <1>11, <2>1 DEF Call
<1>13. act'[c].pc = Returned(Front(a.frames))
  BY <1>12 DEF pc
<1>. QED
  BY <1>1, <1>2, <1>8, <1>9, <1>10, <1>12, <1>13

-----------------------------------------------------------------------------
(***************************************************************************)
(* A port has at most one profile and one connector of a connection.       *)
(***************************************************************************)
OneOfEach(s) == \A i, j \in 1 .. Len(s) : s[i].id = s[j].id => i = j

Ids(s) == {f.id : f \in ToSet(s)}

LEMMA IdsAppended ==
  ASSUME NEW s \in Seq(Profile), NEW f \in Profile,
         OneOfEach(s), \A i \in 1 .. Len(s) : s[i].id # f.id,
         NEW t, t = Append(s, f)
  PROVE  OneOfEach(t) /\ Ids(t) = Ids(s) \cup {f.id}
<1>1. /\ t \in Seq(Profile) /\ Len(t) = Len(s) + 1 /\ Len(s) \in Nat
      /\ \A i \in 1 .. Len(s) : t[i] = s[i]
      /\ t[Len(s) + 1] = f
  BY AppendProperties, LenProperties
<1>2. \A i \in 1 .. Len(t) : i \in 1 .. Len(s) \/ i = Len(s) + 1
  BY <1>1
<1>3. OneOfEach(t)
  BY <1>1, <1>2 DEF OneOfEach
<1>4. ToSet(t) = {t[i] : i \in 1 .. Len(t)} /\ ToSet(s) = {s[i] : i \in 1 .. Len(s)}
  BY DEF ToSet
<1>5. Len(s) + 1 \in 1 .. Len(t) /\ \A i \in 1 .. Len(s) : i \in 1 .. Len(t)
  BY <1>1
<1>6. ToSet(t) = ToSet(s) \cup {f}
  <2>1. ASSUME NEW g \in ToSet(t) PROVE g \in ToSet(s) \cup {f}
    BY <1>1, <1>2, <1>4
  <2>2. ASSUME NEW g \in ToSet(s) \cup {f} PROVE g \in ToSet(t)
    BY <1>1, <1>4, <1>5
  <2>. QED
    BY <2>1, <2>2
<1>. QED
  BY <1>3, <1>6 DEF Ids

LEMMA IdsRemoved ==
  ASSUME NEW s \in Seq(Profile), OneOfEach(s), NEW id, NEW i \in 0 .. Len(s),
         (i # 0 /\ s[i].id = id) \/ (i = 0 /\ id \notin Ids(s)),
         NEW t, t = RemoveAt(s, i)
  PROVE  t \in Seq(Profile) /\ OneOfEach(t) /\ Ids(t) = Ids(s) \ {id}
<1>0. Len(s) \in Nat
  BY LenProperties
<1>1. ToSet(t) = {t[j] : j \in 1 .. Len(t)} /\ ToSet(s) = {s[j] : j \in 1 .. Len(s)}
  BY DEF ToSet
<1>2. CASE i = 0
  <2>1. SubSeq(s, 1, i - 1) = <<>> /\ SubSeq(s, i + 1, Len(s)) = s
    BY <1>0, <1>2, SubSeqEmpty, SubSeqFull
  <2>2. t = s
    BY <2>1, ConcatEmptySeq DEF RemoveAt
  <2>. QED
    BY <1>2, <2>2
<1>3. CASE i # 0
  <2>1. i \in 1 .. Len(s)
    BY <1>0, <1>3
  <2>2. /\ t \in Seq(Profile) /\ Len(t) = Len(s) - 1
        /\ \A j \in 1 .. Len(s) - 1 : t[j] = IF j < i THEN s[j] ELSE s[j + 1]
    BY <2>1, Removed
  <2>3. ASSUME NEW j \in 1 .. Len(t)
        PROVE  \E k \in 1 .. Len(s) : k # i /\ t[j] = s[k]
    <3>1. CASE j < i
      BY <1>0, <2>1, <2>2, <3>1
    <3>2. CASE ~(j < i)
      <4>1. j + 1 \in 1 .. Len(s) /\ j + 1 # i /\ t[j] = s[j + 1]
        BY <1>0, <2>1, <2>2, <3>2
      <4>. QED
        BY <4>1
    <3>. QED
      BY <3>1, <3>2
  <2>4. ASSUME NEW k \in 1 .. Len(s), k # i
        PROVE  \E j \in 1 .. Len(t) : t[j] = s[k]
    <3>1. CASE k < i
      <4>1. k \in 1 .. Len(t) /\ t[k] = s[k]
        BY <1>0, <2>1, <2>2, <3>1
      <4>. QED
        BY <4>1
    <3>2. CASE ~(k < i)
      <4>1. k - 1 \in 1 .. Len(t) /\ ~(k - 1 < i) /\ (k - 1) + 1 = k
        BY <1>0, <2>1, <2>2, <2>4, <3>2
      <4>2. t[k - 1] = s[k]
        BY <2>2, <4>1
      <4>. QED
        BY <4>1, <4>2
    <3>. QED
      BY <3>1, <3>2
  <2>5. OneOfEach(t)
    <3>1. PICK e \in [1 .. Len(t) -> 1 .. Len(s)] :
            /\ \A j \in 1 .. Len(t) : t[j] = s[e[j]]
            /\ \A j, k \in 1 .. Len(t) : e[j] = e[k] => j = k
      BY Dropped
    <3>2. ASSUME NEW j \in 1 .. Len(t), NEW k \in 1 .. Len(t), t[j].id = t[k].id
          PROVE  j = k
      <4>1. s[e[j]].id = s[e[k]].id /\ e[j] \in 1 .. Len(s) /\ e[k] \in 1 .. Len(s)
        BY <3>1, <3>2
      <4>2. e[j] = e[k]
        BY <4>1 DEF OneOfEach
      <4>. QED
        BY <3>1, <4>2
    <3>. QED
      BY <3>2 DEF OneOfEach
  <2>6. ASSUME NEW n, \E g \in ToSet(t) : g.id = n
        PROVE  (\E g \in ToSet(s) : g.id = n) /\ n # id
    <3>1. PICK j \in 1 .. Len(t) : t[j].id = n
      BY <1>1, <2>6
    <3>2. PICK k \in 1 .. Len(s) : k # i /\ s[k].id = n
      BY <2>3, <3>1
    <3>. QED
      BY <1>1, <1>3, <2>1, <3>2 DEF OneOfEach
  <2>7. ASSUME NEW n, n # id, \E g \in ToSet(s) : g.id = n
        PROVE  \E g \in ToSet(t) : g.id = n
    <3>1. PICK k \in 1 .. Len(s) : s[k].id = n
      BY <1>1, <2>7
    <3>2. PICK j \in 1 .. Len(t) : t[j] = s[k]
      BY <1>3, <2>4, <2>7, <3>1
    <3>. QED
      BY <1>1, <3>1, <3>2
  <2>8. Ids(t) = Ids(s) \ {id}
    <3>1. \A n : n \in Ids(t) <=> \E g \in ToSet(t) : g.id = n
      BY DEF Ids
    <3>2. \A n : n \in Ids(s) <=> \E g \in ToSet(s) : g.id = n
      BY DEF Ids
    <3>3. ASSUME NEW n \in Ids(t) PROVE n \in Ids(s) \ {id}
      BY <2>6, <3>1, <3>2
    <3>4. ASSUME NEW n \in Ids(s) \ {id} PROVE n \in Ids(t)
      BY <2>7, <3>1, <3>2
    <3>. QED
      BY <3>3, <3>4
  <2>. QED
    BY <2>2, <2>5, <2>8
<1>. QED
  BY <1>2, <1>3

LEMMA HasId ==
  \A p, id : HasProfile(p, id) <=> id \in Ids(profiles[p])
BY DEF HasProfile, Ids

LEMMA SubscribeProfiles ==
  ASSUME ConnInv, NEW c \in Clients, Subscribe(c),
         NEW p, p = Last(act[c].frames),
         OneOfEach(profiles[p]), ~HasProfile(p, act[c].id)
  PROVE  /\ OneOfEach(profiles'[p])
         /\ \A q \in Ports : \A id :
              HasProfile(q, id)' <=> HasProfile(q, id) \/ (q = p /\ id = act[c].id)
<1>. DEFINE f == ProfileOf(act[c])
            s == profiles[p]
            t == profiles'[p]
<1>1. /\ p \in Ports /\ f \in Profile /\ f.id = act[c].id
      /\ t = Append(s, f)
      /\ \A q \in Ports \ {p} : profiles'[q] = profiles[q]
  BY SubscribeEffect
<1>2. s \in Seq(Profile) /\ \A i \in 1 .. Len(s) : s[i].id # f.id
  BY <1>1, ProfileOfPort DEF ConnInv
<1>. HIDE DEF f, s, t
<1>3. OneOfEach(t) /\ Ids(t) = Ids(s) \cup {f.id}
  <2>1. OneOfEach(s)
    BY DEF s
  <2>. QED
    BY <1>1, <1>2, <2>1, IdsAppended, ZenonT(40)
<1>4. \A id : HasProfile(p, id)' <=> HasProfile(p, id) \/ id = f.id
  BY <1>3, HasId DEF HasProfile, Ids, s, t
<1>5. \A q \in Ports \ {p} : \A id : HasProfile(q, id)' <=> HasProfile(q, id)
  BY <1>1 DEF HasProfile
<1>. QED
  BY <1>1, <1>3, <1>4, <1>5 DEF t

LEMMA UnsubscribeProfiles ==
  ASSUME ConnInv, NEW c \in Clients, Unsubscribe(c),
         NEW p, p = Last(act[c].frames), OneOfEach(profiles[p])
  PROVE  /\ OneOfEach(profiles'[p])
         /\ \A q \in Ports : \A id :
              HasProfile(q, id)' <=> HasProfile(q, id) /\ ~(q = p /\ id = act[c].id)
<1>. DEFINE i == ProfileIndex(p, act[c].id)
            s == profiles[p]
            t == profiles'[p]
<1>1. /\ p \in Ports /\ t = RemoveAt(s, i)
      /\ \A q \in Ports \ {p} : profiles'[q] = profiles[q]
  BY UnsubscribeEffect
<1>2. /\ s \in Seq(Profile) /\ i \in 0 .. Len(s)
      /\ (i # 0 /\ s[i].id = act[c].id) \/ (i = 0 /\ act[c].id \notin Ids(s))
  BY <1>1, ProfileOfPort, ProfileAt, HasId DEF ConnInv
<1>. HIDE DEF i, s, t
<1>3. OneOfEach(t) /\ Ids(t) = Ids(s) \ {act[c].id}
  <2>1. OneOfEach(s)
    BY DEF s
  <2>2. ASSUME NEW n, n = act[c].id
        PROVE  OneOfEach(t) /\ Ids(t) = Ids(s) \ {n}
    <3>1. (i # 0 /\ s[i].id = n) \/ (i = 0 /\ n \notin Ids(s))
      BY <1>2, <2>2
    <3>2. t = RemoveAt(s, i) /\ s \in Seq(Profile) /\ i \in 0 .. Len(s)
      BY <1>1, <1>2
    <3>. QED
      BY <2>1, <3>1, <3>2, IdsRemoved
  <2>. QED
    BY <2>2
<1>4. \A n : HasProfile(p, n)' <=> HasProfile(p, n) /\ n # act[c].id
  BY <1>3, HasId DEF HasProfile, Ids, s, t
<1>5. \A q \in Ports \ {p} : \A n : HasProfile(q, n)' <=> HasProfile(q, n)
  BY <1>1 DEF HasProfile
<1>. QED
  BY <1>1, <1>3, <1>4, <1>5 DEF t

-----------------------------------------------------------------------------
(***************************************************************************)
(* The connections under way.  A call that makes a connection has gone     *)
(* down the list of its ports, and no port has the connection before the   *)
(* call is on its way back.                                                *)
(***************************************************************************)
MakeInv(a) ==
  /\ Len(a.frames) <= Len(a.list)
  /\ \A n \in 1 .. Len(a.frames) : a.frames[n] = a.list[n]
  /\ a.pc \in {"enter", "lock"} => Len(a.frames) = a.k - 1
  /\ a.pc = "dup" => Len(a.frames) = a.k
  /\ a.pc = "subscribe" => \A p \in ToSet(a.frames) : ~HasProfile(p, a.id)
  /\ a.pc # "subscribe" => \A p \in Ports : ~HasProfile(p, a.id)

MakersInv ==
  /\ \A p \in Ports : OneOfEach(profiles[p])
  /\ \A c, d \in Clients : \A id \in Conns :
       Makes(c, id) /\ Makes(d, id) => c = d
  /\ \A c \in Clients : Maker(c).pc \in Connecting => MakeInv(Maker(c))

LEMMA MakersInvInit == Init => MakersInv
<1>. SUFFICES ASSUME Init PROVE MakersInv
  OBVIOUS
<1>1. \A c \in Clients : Maker(c).pc \notin Connecting
  BY NoFrames DEF Init, Maker, Connecting
<1>2. \A p \in Ports : OneOfEach(profiles[p])
  BY DEF Init, OneOfEach
<1>. QED
  BY <1>1, <1>2 DEF MakersInv, Makes

(***************************************************************************)
(* Steps that are not about a connection under way.                        *)
(***************************************************************************)
MakerKept(c) ==
  \/ Maker(c)' = Maker(c)
  \/ Maker(c).pc \notin Connecting /\ Maker(c).pc' \notin Connecting

Quiet(c) ==
  \/ Disconnects(c) \/ CleanUp(c) \/ Find(c) \/ AllDisconnected(c) \/ Copy(c)
  \/ SkipDead(c) \/ NotifyDisconnect(c) \/ NotifyUnknown(c)

LEMMA QuietMaker ==
  ASSUME ConnInv, NEW c \in Clients, Quiet(c) \/ Unsubscribe(c)
  PROVE  MakerKept(c) /\ UNCHANGED <<asked, cut>>
<1>1. ASSUME act[c].pc \notin Connecting, act'[c].pc \notin Connecting,
             outer' = outer
      PROVE  MakerKept(c)
  BY <1>1 DEF MakerKept, Maker
<1>2. CASE Disconnects(c)
  BY <1>1, <1>2, DisconnectsEffect DEF Connecting
<1>3. CASE CleanUp(c)
  BY <1>1, <1>3, CleanUpEffect, NoFrames DEF Connecting
<1>4. CASE Find(c)
  BY <1>1, <1>4, FindEffect DEF Connecting, Keeps
<1>5. CASE AllDisconnected(c)
  <2>1. /\ act[c].pc = "next" /\ act'[c] = outer[c] /\ outer'[c] = Idle
        /\ UNCHANGED <<asked, cut>>
    BY <1>5, AllDisconnectedEffect
  <2>. QED
    BY <2>1, NoFrames DEF MakerKept, Maker, Connecting
<1>6. CASE Copy(c)
  BY <1>1, <1>6, CopyEffect DEF Connecting, Keeps
<1>7. CASE SkipDead(c)
  BY <1>1, <1>7, SkipDeadEffect DEF Connecting, SameChain, Keeps, Returned
<1>8. CASE NotifyDisconnect(c)
  BY <1>1, <1>8, NotifyDisconnectEffect DEF Connecting, SameChain, Keeps
<1>9. CASE NotifyUnknown(c)
  BY <1>1, <1>9, NotifyUnknownEffect DEF Connecting, SameChain, Keeps, Returned
<1>10. CASE Unsubscribe(c)
  BY <1>1, <1>10, UnsubscribeEffect DEF Connecting, Returned
<1>. QED
  BY <1>2, <1>3, <1>4, <1>5, <1>6, <1>7, <1>8, <1>9, <1>10 DEF Quiet

LEMMA QuietPorts ==
  ASSUME ConnInv, NEW c \in Clients, Quiet(c)
  PROVE  UNCHANGED <<profiles, connectors>>
BY DisconnectsEffect, CleanUpEffect, FindEffect, AllDisconnectedEffect,
   CopyEffect,
   SkipDeadEffect, NotifyDisconnectEffect, NotifyUnknownEffect
   DEF Quiet, SameChain, Keeps

Goes(c) ==
  CheckFan(c) \/ LockPort(c) \/ RefuseDuplicate(c) \/ Publish(c) \/ Subscribe(c)

LEMMA GoesMaker ==
  ASSUME ConnInv, NEW c \in Clients, Goes(c)
  PROVE  /\ act[c].pc \in Connecting /\ Maker(c) = act[c]
         /\ Maker(c).id' = act[c].id /\ Maker(c).list' = act[c].list
         /\ Maker(c).at' = act[c].at
         /\ UNCHANGED <<asked, cut, missed>>
<1>1. ASSUME act[c].pc \in Connecting, SameMaking(c)
      PROVE  /\ Maker(c) = act[c]
             /\ Maker(c).id' = act[c].id /\ Maker(c).list' = act[c].list
             /\ Maker(c).at' = act[c].at
             /\ UNCHANGED <<asked, cut, missed>>
  BY <1>1 DEF SameMaking, Maker
<1>2. CASE CheckFan(c)
  BY <1>1, <1>2, CheckFanEffect DEF Connecting
<1>3. CASE LockPort(c)
  BY <1>3, LockPortEffect DEF Connecting, Maker
<1>4. CASE RefuseDuplicate(c)
  BY <1>1, <1>4, RefuseDuplicateEffect DEF Connecting
<1>5. CASE Publish(c)
  BY <1>1, <1>5, PublishEffect DEF Connecting
<1>6. CASE Subscribe(c)
  BY <1>1, <1>6, SubscribeEffect DEF Connecting
<1>. QED
  BY <1>2, <1>3, <1>4, <1>5, <1>6 DEF Goes

LEMMA StepKinds ==
  \A c \in Clients : ClientStep(c) <=>
    Connect(c) \/ Quiet(c) \/ CallRaises(c) \/ Goes(c) \/ Unsubscribe(c)
BY DEF ClientStep, Quiet, Disconnects, Goes, ConnectStep, DisconnectStep

LEMMA MakesOnly ==
  ASSUME ConnInv, NEW c \in Clients, ClientStep(c), ~Connect(c),
         NEW d \in Clients, NEW id, Makes(d, id)'
  PROVE  Makes(d, id)
<1>1. CASE d # c
  BY <1>1, StepFacts DEF Makes, ConnInv
<1>2. CASE d = c /\ (Quiet(c) \/ Unsubscribe(c))
  BY <1>2, QuietMaker DEF MakerKept, Makes
<1>3. CASE d = c /\ CallRaises(c)
  BY <1>3, CallRaisesEffect, NoFrames DEF Makes, Maker, Connecting
<1>4. CASE d = c /\ Goes(c)
  BY <1>4, GoesMaker DEF Makes
<1>. QED
  BY <1>1, <1>2, <1>3, <1>4, StepKinds

LEMMA MakeKept ==
  ASSUME NEW a \in Call, MakeInv(a),
         \A q \in Ports : HasProfile(q, a.id)' => HasProfile(q, a.id)
  PROVE  MakeInv(a)'
<1>1. ToSet(a.frames) \subseteq Ports
  BY Elements DEF Call
<1>. QED
  BY <1>1 DEF MakeInv

LEMMA FrontAt ==
  ASSUME NEW s \in Seq(Ports), s # <<>>, Distinct(s)
  PROVE  /\ Len(s) \in Nat \ {0} /\ Len(Front(s)) = Len(s) - 1
         /\ \A n \in 1 .. Len(s) - 1 : Front(s)[n] = s[n]
         /\ Last(s) = s[Len(s)] /\ Front(s) \in Seq(Ports)
         /\ ToSet(Front(s)) = ToSet(s) \ {Last(s)}
         /\ Front(s) = <<>> <=> Len(s) = 1
<1>1. Len(s) \in Nat \ {0} /\ Len(s) - 1 \in 0 .. Len(s)
  BY EmptySeq, LenProperties
<1>2. /\ Len(SubSeq(s, 1, Len(s) - 1)) = Len(s) - 1
      /\ \A n \in 1 .. Len(s) - 1 : SubSeq(s, 1, Len(s) - 1)[n] = s[n]
  BY <1>1, Prefix
<1>3. Front(s) \in Seq(Ports) /\ ToSet(Front(s)) = ToSet(s) \ {Last(s)}
  BY FrontLast
<1>4. Front(s) = <<>> <=> Len(Front(s)) = 0
  BY <1>3, EmptySeq
<1>. QED
  BY <1>1, <1>2, <1>3, <1>4 DEF Front, Last

LEMMA GoesMakeInv ==
  ASSUME ConnInv, MakersInv, NEW c \in Clients, Goes(c),
         NEW b, b = Maker(c)', b.pc \in Connecting, NEW id, id = act[c].id
  PROVE  MakeInv(b)'
<1>. DEFINE a == act[c]
<1>1. a.pc \in Connecting /\ Maker(c) = a
  BY GoesMaker
<1>2. a \in Call /\ Shape(a) /\ MakeInv(a) /\ a.list \in PortLists
  BY <1>1, MakerFacts DEF MakersInv
<1>3. /\ a.frames \in Seq(Ports) /\ Distinct(a.frames) /\ Len(a.frames) \in Nat
      /\ ToSet(a.frames) \subseteq Ports
  BY <1>1, MakerFacts, LenProperties, Elements
<1>4. Len(a.list) \in Nat \ {0} /\ a.k \in Nat
  BY <1>2, ListFacts DEF Call
<1>5. ASSUME SameMaking(c)
      PROVE  b = act'[c] /\ b.list = a.list /\ b.id = id
  BY <1>5 DEF SameMaking, Maker
<1>6. UNCHANGED profiles =>
        \A q \in Ports : HasProfile(q, id)' <=> HasProfile(q, id)
  BY DEF HasProfile
<1>7. CASE CheckFan(c)
  <2>1. /\ a.pc = "enter" /\ SameMaking(c) /\ UNCHANGED profiles
        /\ act'[c].frames = a.frames
        /\ \/ act'[c].pc = "lock" /\ act'[c].k = a.k
           \/ act'[c].pc = Unwound(a.frames)
    BY <1>7, CheckFanEffect
  <2>2. act'[c].pc \in {"lock", "subscribe"}
    BY <1>5, <2>1 DEF Unwound, Connecting
  <2>3. \A q \in Ports : ~HasProfile(q, id)'
    BY <1>2, <1>6, <2>1 DEF MakeInv
  <2>. QED
    BY <1>2, <1>3, <1>5, <2>1, <2>2, <2>3 DEF MakeInv, Unwound
<1>8. CASE LockPort(c)
  <2>. DEFINE p == a.list[a.k]
  <2>1. /\ a.pc = "lock" /\ a.k \in 1 .. Len(a.list) /\ p \in Ports
        /\ UNCHANGED profiles
        /\ b.pc = "dup" /\ b.frames = Append(a.frames, p)
        /\ b.id = id /\ b.list = a.list /\ b.k = a.k
    BY <1>8, LockPortEffect
  <2>2. Len(a.frames) = a.k - 1
    BY <1>2, <2>1 DEF MakeInv
  <2>3. /\ Len(Append(a.frames, p)) = Len(a.frames) + 1
        /\ \A n \in 1 .. Len(a.frames) : Append(a.frames, p)[n] = a.frames[n]
        /\ Append(a.frames, p)[Len(a.frames) + 1] = p
    BY <1>3, <2>1, AppendProperties
  <2>4. \A q \in Ports : ~HasProfile(q, id)'
    BY <1>2, <1>6, <2>1 DEF MakeInv
  <2>5. \A n \in 1 .. a.k : Append(a.frames, p)[n] = a.list[n]
    <3>. SUFFICES ASSUME NEW n \in 1 .. a.k
                  PROVE  Append(a.frames, p)[n] = a.list[n]
      OBVIOUS
    <3>1. CASE n = a.k
      BY <1>4, <2>2, <2>3, <3>1
    <3>2. CASE n # a.k
      <4>1. n \in 1 .. Len(a.frames)
        BY <1>4, <2>2, <3>2
      <4>. QED
        BY <1>2, <2>3, <4>1 DEF MakeInv
    <3>. QED
      BY <3>1, <3>2
  <2>6. Len(Append(a.frames, p)) = a.k
    BY <1>4, <2>2, <2>3
  <2>. HIDE DEF p
  <2>. QED
    BY <1>4, <2>1, <2>4, <2>5, <2>6 DEF MakeInv
<1>9. CASE RefuseDuplicate(c)
  <2>1. /\ a.pc = "dup" /\ a.frames # <<>> /\ SameMaking(c) /\ UNCHANGED profiles
        /\ act'[c].frames = Front(a.frames)
        /\ act'[c].pc = Unwound(Front(a.frames))
    BY <1>9, RefuseDuplicateEffect
  <2>2. act'[c].pc = "subscribe"
    BY <1>5, <2>1 DEF Unwound, Connecting
  <2>3. \A q \in Ports : ~HasProfile(q, id)'
    BY <1>2, <1>6, <2>1 DEF MakeInv
  <2>4. /\ Len(Front(a.frames)) = Len(a.frames) - 1
        /\ \A n \in 1 .. Len(a.frames) - 1 : Front(a.frames)[n] = a.frames[n]
        /\ ToSet(Front(a.frames)) \subseteq Ports
    BY <1>3, <2>1, FrontAt
  <2>5. /\ Len(Front(a.frames)) <= Len(a.list)
        /\ \A n \in 1 .. Len(Front(a.frames)) : Front(a.frames)[n] = a.list[n]
    BY <1>2, <1>3, <1>4, <2>4 DEF MakeInv
  <2>. QED
    BY <1>5, <2>1, <2>2, <2>3, <2>4, <2>5 DEF MakeInv
<1>10. CASE Publish(c)
  <2>1. /\ a.pc = "dup" /\ SameMaking(c) /\ UNCHANGED profiles
        /\ act'[c].frames = a.frames
        /\ \/ act'[c].pc = "enter" /\ act'[c].k = a.k + 1
           \/ act'[c].pc = "subscribe"
    BY <1>10, PublishEffect
  <2>2. \A q \in Ports : ~HasProfile(q, id)'
    BY <1>2, <1>6, <2>1 DEF MakeInv
  <2>3. Len(a.frames) = a.k
    BY <1>2, <2>1 DEF MakeInv
  <2>4. b.frames = a.frames /\ b.list = a.list /\ b.id = id
    BY <1>5, <2>1
  <2>5. /\ Len(b.frames) <= Len(b.list)
        /\ \A n \in 1 .. Len(b.frames) : b.frames[n] = b.list[n]
    BY <1>2, <2>4 DEF MakeInv
  <2>6. (b.pc = "enter" /\ Len(b.frames) = b.k - 1) \/ b.pc = "subscribe"
    BY <1>4, <1>5, <2>1, <2>3, <2>4
  <2>. QED
    BY <1>3, <2>2, <2>4, <2>5, <2>6 DEF MakeInv
<1>11. CASE Subscribe(c)
  <2>. DEFINE p == Last(a.frames)
  <2>1. /\ a.pc = "subscribe" /\ a.frames # <<>> /\ SameMaking(c)
        /\ p \in Ports /\ p \in ToSet(a.frames)
        /\ act'[c].frames = Front(a.frames)
        /\ act'[c].pc = Unwound(Front(a.frames))
    BY <1>11, SubscribeEffect
  <2>2. act'[c].pc = "subscribe"
    BY <1>5, <2>1 DEF Unwound, Connecting
  <2>3. ~HasProfile(p, a.id) /\ OneOfEach(profiles[p])
    <3>1. OneOfEach(profiles[p])
      BY <2>1 DEF MakersInv
    <3>2. \A q \in ToSet(a.frames) : ~HasProfile(q, a.id)
      BY <1>2, <2>1 DEF MakeInv
    <3>. QED
      BY <2>1, <3>1, <3>2
  <2>4. /\ Len(Front(a.frames)) = Len(a.frames) - 1
        /\ \A n \in 1 .. Len(a.frames) - 1 : Front(a.frames)[n] = a.frames[n]
        /\ ToSet(Front(a.frames)) = ToSet(a.frames) \ {p}
    BY <1>3, <2>1, FrontAt
  <2>5. \A q \in ToSet(Front(a.frames)) : ~HasProfile(q, id)'
    <3>1. \A q \in Ports : q # p /\ ~HasProfile(q, id) => ~HasProfile(q, id)'
      BY <1>11, <2>3, SubscribeProfiles
    <3>. QED
      BY <1>2, <1>3, <2>1, <2>4, <3>1 DEF MakeInv
  <2>6. /\ Len(Front(a.frames)) <= Len(a.list)
        /\ \A n \in 1 .. Len(Front(a.frames)) : Front(a.frames)[n] = a.list[n]
    BY <1>2, <1>3, <1>4, <2>4 DEF MakeInv
  <2>. QED
    BY <1>5, <2>1, <2>2, <2>5, <2>6 DEF MakeInv
<1>. QED
  BY <1>7, <1>8, <1>9, <1>10, <1>11 DEF Goes

(***************************************************************************)
(* Which steps change what the ports have.                                 *)
(***************************************************************************)
LEMMA SubscribesNew ==
  ASSUME ConnInv, MakersInv, NEW c \in Clients, Subscribe(c),
         NEW p, p = Last(act[c].frames)
  PROVE  /\ p \in Ports /\ OneOfEach(profiles[p]) /\ ~HasProfile(p, act[c].id)
         /\ OneOfEach(profiles'[p])
         /\ \A q \in Ports : \A id :
              HasProfile(q, id)' <=> HasProfile(q, id) \/ (q = p /\ id = act[c].id)
<1>1. act[c].pc = "subscribe" /\ p \in Ports /\ p \in ToSet(act[c].frames)
  BY SubscribeEffect
<1>2. MakeInv(act[c])
  BY <1>1, MakerFacts DEF MakersInv, Connecting, Disconnecting
<1>3. OneOfEach(profiles[p]) /\ ~HasProfile(p, act[c].id)
  BY <1>1, <1>2 DEF MakeInv, MakersInv
<1>. QED
  BY <1>1, <1>3, SubscribeProfiles

LEMMA ProfilesSame ==
  ASSUME ConnInv, NEW c \in Clients, ClientStep(c), ~Subscribe(c), ~Unsubscribe(c)
  PROVE  /\ UNCHANGED profiles
         /\ \A q \in Ports : \A id : HasProfile(q, id)' <=> HasProfile(q, id)
<1>1. UNCHANGED profiles
  BY StepKinds, ConnectEffect, QuietPorts, CallRaisesEffect, CheckFanEffect,
     LockPortEffect, RefuseDuplicateEffect, PublishEffect DEF Goes
<1>. QED
  BY <1>1 DEF HasProfile

LEMMA ProfileGained ==
  ASSUME ConnInv, MakersInv, NEW c \in Clients, ClientStep(c),
         NEW q \in Ports, NEW id, HasProfile(q, id)', ~HasProfile(q, id)
  PROVE  Subscribe(c) /\ id = act[c].id /\ q = Last(act[c].frames)
<1>1. CASE Subscribe(c)
  BY <1>1, SubscribesNew
<1>2. CASE Unsubscribe(c)
  <2>1. Last(act[c].frames) \in Ports
    BY <1>2, UnsubscribeEffect
  <2>. QED
    BY <1>2, <2>1, UnsubscribeProfiles DEF MakersInv
<1>3. CASE ~Subscribe(c) /\ ~Unsubscribe(c)
  BY <1>3, ProfilesSame
<1>. QED
  BY <1>1, <1>2, <1>3

LEMMA ProfileLost ==
  ASSUME ConnInv, MakersInv, NEW c \in Clients, ClientStep(c),
         NEW q \in Ports, NEW id, ~HasProfile(q, id)', HasProfile(q, id)
  PROVE  Unsubscribe(c) /\ id = act[c].id /\ q = Last(act[c].frames)
<1>1. CASE Subscribe(c)
  BY <1>1, SubscribesNew
<1>2. CASE Unsubscribe(c)
  <2>1. Last(act[c].frames) \in Ports
    BY <1>2, UnsubscribeEffect
  <2>. QED
    BY <1>2, <2>1, UnsubscribeProfiles DEF MakersInv
<1>3. CASE ~Subscribe(c) /\ ~Unsubscribe(c)
  BY <1>3, ProfilesSame
<1>. QED
  BY <1>1, <1>2, <1>3

(***************************************************************************)
(* A new connection is one that nobody has.                                *)
(***************************************************************************)
LEMMA ConnectsNew ==
  ASSUME ConnInv, NEW c \in Clients, Connect(c), NEW b, b = act'[c]
  PROVE  /\ Maker(c)' = b /\ b.pc = "enter" /\ b.frames = <<>> /\ b.k = 1
         /\ b.list \in PortLists /\ ~b.bad
         /\ \A q \in Ports : ~HasProfile(q, b.id) /\ ~HasProfile(q, b.id)'
         /\ \A d \in Clients : ~Makes(d, b.id)
         /\ \A l : ~Asked(b.id, l)
<1>1. /\ act[c].pc = "idle" /\ b.pc = "enter" /\ b.frames = <<>> /\ b.k = 1
      /\ b.list \in PortLists /\ ~b.bad /\ UNCHANGED <<profiles, outer>>
      /\ \A f \in asked : f.id # b.id
  BY ConnectEffect
<1>2. Maker(c)' = b
  BY <1>1, MakerFacts DEF Maker, Disconnecting
<1>3. \A l : ~Asked(b.id, l)
  BY <1>1 DEF Asked
<1>4. \A q \in Ports : ~HasProfile(q, b.id)
  BY <1>3 DEF ConnInv, ProfilesInv, HasProfile
<1>5. \A q \in Ports : ~HasProfile(q, b.id)'
  BY <1>1, <1>4 DEF HasProfile
<1>6. \A d \in Clients : ~Makes(d, b.id)
  BY <1>3, MakerFacts DEF Makes
<1>. QED
  BY <1>1, <1>2, <1>3, <1>4, <1>5, <1>6

LEMMA MakersInvStep ==
  ASSUME ConnInv, MakersInv, NEW c \in Clients, ClientStep(c)
  PROVE  MakersInv'
<1>1. ASSUME NEW q \in Ports
      PROVE  OneOfEach(profiles'[q])
  <2>1. OneOfEach(profiles[q])
    BY DEF MakersInv
  <2>2. CASE Subscribe(c)
    BY <2>1, <2>2, SubscribesNew, SubscribeEffect
  <2>3. CASE Unsubscribe(c)
    <3>1. Last(act[c].frames) \in Ports
          /\ \A r \in Ports \ {Last(act[c].frames)} : profiles'[r] = profiles[r]
      BY <2>3, UnsubscribeEffect
    <3>. QED
      BY <2>1, <2>3, <3>1, UnsubscribeProfiles
  <2>4. CASE ~Subscribe(c) /\ ~Unsubscribe(c)
    BY <2>1, <2>4, ProfilesSame
  <2>. QED
    BY <2>2, <2>3, <2>4
<1>2. ASSUME NEW d \in Clients, NEW e \in Clients, NEW id \in Conns,
             Makes(d, id)', Makes(e, id)'
      PROVE  d = e
  <2>1. CASE ~Connect(c)
    BY <1>2, <2>1, MakesOnly DEF MakersInv
  <2>2. CASE Connect(c)
    <3>1. PICK b : b = act'[c]
      OBVIOUS
    <3>2. Maker(c)' = b /\ \A x \in Clients : ~Makes(x, b.id)
      BY <2>2, <3>1, ConnectsNew
    <3>3. \A x \in Clients \ {c} : Makes(x, id)' <=> Makes(x, id)
      BY StepFacts DEF Makes, ConnInv
    <3>4. Makes(c, id)' => id = b.id
      BY <3>2 DEF Makes
    <3>5. CASE id = b.id
      BY <1>2, <3>2, <3>3, <3>5
    <3>6. CASE id # b.id
      BY <1>2, <3>3, <3>4, <3>6 DEF MakersInv
    <3>. QED
      BY <3>5, <3>6
  <2>. QED
    BY <2>1, <2>2
<1>3. ASSUME NEW d \in Clients, NEW b, b = Maker(d)', b.pc \in Connecting
      PROVE  MakeInv(b)'
  <2>1. ASSUME b = Maker(d), ~(Subscribe(c) /\ d = c)
        PROVE  MakeInv(b)'
    <3>1. b \in Call /\ MakeInv(b) /\ Makes(d, b.id) /\ b.id \in Conns
      BY <1>3, <2>1, MakerFacts DEF MakersInv, Makes
    <3>2. ASSUME Subscribe(c)
          PROVE  act[c].id # b.id
      <4>1. Makes(c, act[c].id)
        BY <3>2, GoesMaker DEF Makes, Goes
      <4>. QED
        BY <2>1, <3>1, <3>2, <4>1 DEF MakersInv
    <3>3. \A q \in Ports : HasProfile(q, b.id)' => HasProfile(q, b.id)
      BY <3>2, ProfileGained
    <3>. QED
      BY <3>1, <3>3, MakeKept
  <2>2. CASE d # c
    BY <1>3, <2>1, <2>2, StepFacts DEF ConnInv
  <2>3. CASE d = c /\ (Quiet(c) \/ Unsubscribe(c))
    <3>1. b = Maker(d)
      BY <1>3, <2>3, QuietMaker DEF MakerKept
    <3>2. ~Subscribe(c)
      BY <1>3, <2>3, <3>1, QuietMaker, GoesMaker, SubscribeEffect,
         UnsubscribeEffect, DisconnectsEffect,
         CleanUpEffect, FindEffect, AllDisconnectedEffect, CopyEffect,
         SkipDeadEffect, NotifyDisconnectEffect, NotifyUnknownEffect
         DEF Quiet
    <3>. QED
      BY <2>1, <3>1, <3>2
  <2>4. CASE d = c /\ CallRaises(c)
    BY <1>3, <2>4, CallRaisesEffect, NoFrames DEF Maker, Connecting
  <2>5. CASE d = c /\ Goes(c)
    BY <1>3, <2>5, GoesMakeInv
  <2>6. CASE d = c /\ Connect(c)
    <3>1. /\ b = act'[c] /\ b.pc = "enter" /\ b.frames = <<>> /\ b.k = 1
          /\ b.list \in PortLists
          /\ \A q \in Ports : ~HasProfile(q, b.id)'
      BY <1>3, <2>6, ConnectsNew
    <3>2. Len(b.list) \in Nat /\ Len(b.frames) = 0
      BY <3>1, ListFacts
    <3>. QED
      BY <3>1, <3>2 DEF MakeInv
  <2>. QED
    BY <2>2, <2>3, <2>4, <2>5, <2>6, StepKinds
<1>4. ASSUME NEW d \in Clients, Maker(d).pc' \in Connecting
      PROVE  MakeInv(Maker(d))'
  <2>1. PICK b : b = Maker(d)'
    OBVIOUS
  <2>2. MakeInv(b)'
    BY <1>3, <1>4, <2>1
  <2>. QED
    BY <2>1, <2>2 DEF MakeInv, HasProfile
<1>. QED
  BY <1>1, <1>2, <1>4 DEF MakersInv

-----------------------------------------------------------------------------
(***************************************************************************)
(* A port that a call needs does not die (see Serves).                     *)
(***************************************************************************)
Lives(a) ==
  /\ a.pc # "idle" => alive[a.at]
  /\ a.pc = "lock" => alive[a.list[a.k]]

AliveInv ==
  /\ \A p \in Ports : holder[p] # None => alive[p]
  /\ \A c \in Clients : Lives(act[c]) /\ Lives(outer[c])

LEMMA AliveInvInit == Init => AliveInv
BY NoFrames DEF Init, AliveInv, Lives

LEMMA AliveInvDie ==
  ASSUME ConnInv, AliveInv, NEW p \in Ports, Die(p)
  PROVE  AliveInv'
<1>1. /\ UNCHANGED <<holder, act, outer>> /\ TypeOK
      /\ \A q : q # p => alive'[q] = alive[q]
      /\ holder[p] = None
      /\ \A c \in Clients : act[c].at # p /\ outer[c].at # p
      /\ \A c \in Clients : act[c].pc = "lock" => act[c].list[act[c].k] # p
  BY DEF Die, Serves, ports, ConnInv, TypeOK
<1>2. \A c \in Clients : outer[c].pc # "lock"
  BY MakerFacts, NoFrames
<1>. QED
  BY <1>1, <1>2 DEF AliveInv, Lives

LEMMA HolderLives ==
  ASSUME ConnInv, AliveInv, NEW c \in Clients, ClientStep(c), NEW q \in Ports
  PROVE  holder'[q] \in {holder[q], None} \/ alive[q]
<1>1. TypeOK
  BY DEF ConnInv
<1>2. ASSUME NEW p \in Ports, holder' = [holder EXCEPT ![p] = None]
      PROVE  holder'[q] \in {holder[q], None}
  BY <1>1, <1>2 DEF TypeOK
<1>3. ASSUME NEW p \in Ports, holder' = [holder EXCEPT ![p] = c], alive[p]
      PROVE  holder'[q] = holder[q] \/ alive[q]
  BY <1>1, <1>3 DEF TypeOK
<1>4. CASE Quiet(c) /\ ~NotifyDisconnect(c)
  BY <1>4, DisconnectsEffect, CleanUpEffect, FindEffect, AllDisconnectedEffect,
     CopyEffect, SkipDeadEffect, NotifyUnknownEffect DEF Quiet
<1>5. CASE NotifyDisconnect(c)
  BY <1>3, <1>5, NotifyDisconnectEffect
<1>6. CASE LockPort(c)
  <2>1. PICK p \in Ports : /\ p = act[c].list[act[c].k] /\ act[c].pc = "lock"
                           /\ holder' = [holder EXCEPT ![p] = c]
    BY <1>6, LockPortEffect
  <2>2. alive[p]
    BY <2>1 DEF AliveInv, Lives
  <2>. QED
    BY <1>3, <2>1, <2>2
<1>7. CASE RefuseDuplicate(c)
  <2>1. Last(act[c].frames) \in Ports
    BY <1>7, RefuseDuplicateEffect, CallFacts, FrontLast
  <2>. QED
    BY <1>2, <1>7, <2>1, RefuseDuplicateEffect
<1>8. CASE Subscribe(c)
  BY <1>2, <1>8, SubscribeEffect
<1>9. CASE Unsubscribe(c)
  BY <1>2, <1>9, UnsubscribeEffect
<1>10. CASE Connect(c) \/ CallRaises(c) \/ CheckFan(c) \/ Publish(c)
  BY <1>10, ConnectEffect, CallRaisesEffect, CheckFanEffect, PublishEffect
<1>. QED
  BY <1>4, <1>5, <1>6, <1>7, <1>8, <1>9, <1>10, StepKinds DEF Goes

LEMMA CallLives ==
  ASSUME ConnInv, AliveInv, NEW c \in Clients, ClientStep(c),
         NEW b, b = act'[c], NEW o, o = outer'[c]
  PROVE  Lives(b) /\ Lives(o)
<1>. DEFINE a == act[c]
<1>1. Lives(a) /\ Lives(outer[c]) /\ Lives(Idle)
  BY NoFrames DEF AliveInv, Lives
<1>2. ASSUME a.pc # "idle", b.pc # "lock", b.at = a.at, o = outer[c]
      PROVE  Lives(b) /\ Lives(o)
  BY <1>1, <1>2 DEF Lives
<1>3. CASE Connect(c)
  BY <1>1, <1>3, ConnectEffect DEF Lives
<1>4. CASE Disconnects(c)
  BY <1>1, <1>4, DisconnectsEffect DEF Lives
<1>5. CASE CleanUp(c)
  BY <1>1, <1>5, CleanUpEffect DEF Lives
<1>6. CASE AllDisconnected(c)
  BY <1>1, <1>6, AllDisconnectedEffect
<1>7. CASE Find(c)
  BY <1>2, <1>7, FindEffect DEF Keeps
<1>8. CASE Copy(c)
  BY <1>2, <1>8, CopyEffect DEF Keeps
<1>9. CASE SkipDead(c)
  BY <1>2, <1>9, SkipDeadEffect DEF SameChain, Keeps, Returned
<1>10. CASE NotifyDisconnect(c)
  BY <1>2, <1>10, NotifyDisconnectEffect DEF SameChain, Keeps
<1>11. CASE NotifyUnknown(c)
  BY <1>2, <1>11, NotifyUnknownEffect DEF SameChain, Keeps, Returned
<1>12. CASE Unsubscribe(c)
  BY <1>2, <1>12, UnsubscribeEffect DEF Returned
<1>13. CASE CallRaises(c)
  BY <1>1, <1>13, CallRaisesEffect
<1>14. CASE CheckFan(c)
  BY <1>1, <1>14, CheckFanEffect DEF SameMaking, Lives, Unwound
<1>15. CASE LockPort(c)
  <2>1. PICK p \in Ports : /\ p = a.list[a.k] /\ a.pc = "lock"
                           /\ Maker(c).pc' = "dup" /\ Maker(c).at' = a.at
                           /\ \/ b.pc = "dup" /\ b.at = a.at
                              \/ b.pc = "next" /\ b.at = p
    BY <1>15, LockPortEffect
  <2>2. Lives(b)
    BY <1>1, <2>1 DEF Lives
  <2>3. o = Idle \/ Maker(c)' = o
    BY DEF Maker
  <2>. QED
    BY <1>1, <2>1, <2>2, <2>3 DEF Lives
<1>16. CASE RefuseDuplicate(c)
  BY <1>2, <1>16, RefuseDuplicateEffect DEF SameMaking, Unwound
<1>17. CASE Publish(c)
  BY <1>2, <1>17, PublishEffect DEF SameMaking
<1>18. CASE Subscribe(c)
  BY <1>2, <1>18, SubscribeEffect DEF SameMaking, Unwound
<1>. QED
  BY <1>3, <1>4, <1>5, <1>6, <1>7, <1>8, <1>9, <1>10, <1>11, <1>12, <1>13,
     <1>14,
     <1>15, <1>16, <1>17, <1>18, StepKinds DEF Quiet, Goes

LEMMA AliveInvStep ==
  ASSUME ConnInv, AliveInv, NEW c \in Clients, ClientStep(c)
  PROVE  AliveInv'
<1>1. /\ alive' = alive
      /\ \A d \in Clients \ {c} : act'[d] = act[d] /\ outer'[d] = outer[d]
  BY StepFacts DEF ConnInv
<1>2. ASSUME NEW q \in Ports, holder'[q] # None
      PROVE  alive'[q]
  BY <1>1, <1>2, HolderLives DEF AliveInv
<1>3. ASSUME NEW d \in Clients
      PROVE  Lives(act'[d]) /\ Lives(outer'[d])
  BY <1>1, CallLives DEF AliveInv
<1>. QED
  BY <1>1, <1>2, <1>3 DEF AliveInv, Lives

-----------------------------------------------------------------------------
(***************************************************************************)
(* Disconnecting.  A connection is on the first ports of its list, down to *)
(* where a notify_connect() has come on its way back, and one after the    *)
(* other is disconnected from the last one on.                             *)
(***************************************************************************)
Down(id, list) ==
  \A i, j \in 1 .. Len(list) :
    (i < j /\ alive[list[i]] /\ alive[list[j]] /\ HasProfile(list[j], id)) =>
      \/ HasProfile(list[i], id)
      \/ \E c \in Clients : Makes(c, id) /\ i <= Len(Maker(c).frames)

DownInv == \A f \in asked : f.id \notin missed => Down(f.id, f.list)

Ordered(frames, list) ==
  \A n, m \in 1 .. Len(frames), i, j \in 1 .. Len(list) :
    n < m /\ list[i] = frames[n] /\ list[j] = frames[m] => i < j

ChainInv(a) ==
  /\ Asked(a.id, a.list)
  /\ a.pc = "call" =>
       \A j \in 1 .. Len(a.list) :
         j < a.k /\ alive[a.list[j]] => a.list[j] \in ToSet(a.frames)
  /\ a.frames # <<>> =>
       /\ \A c \in Clients : ~Makes(c, a.id)
       /\ \A p \in ToSet(a.frames) : HasProfile(p, a.id)
       /\ Ordered(a.frames, a.list)
  /\ a.pc = "unsubscribe" =>
       \A p \in Ports : alive[p] /\ HasProfile(p, a.id) => p \in ToSet(a.frames)

InChain(c) == act[c].pc \in {"call", "unsubscribe"} /\ act[c].id \notin missed

ChainsInv ==
  \A c \in Clients : /\ act[c].pc = "copy" => act[c].k = 1
                     /\ InChain(c) => ChainInv(act[c])

LEMMA ChainsInvInit == Init => DownInv /\ ChainsInv
BY NoFrames DEF Init, DownInv, ChainsInv, InChain

LEMMA ChainsInvDie ==
  ASSUME ConnInv, DownInv, ChainsInv, NEW p \in Ports, Die(p)
  PROVE  (MakersInv => MakersInv') /\ DownInv' /\ ChainsInv'
<1>1. /\ UNCHANGED <<profiles, act, outer, asked, missed>>
      /\ \A q : alive'[q] => alive[q]
  BY DEF Die, ports, history, ConnInv, TypeOK
<1>2. \A c \in Clients : Maker(c)' = Maker(c)
  BY <1>1 DEF Maker
<1>3. \A q, id : HasProfile(q, id)' <=> HasProfile(q, id)
  BY <1>1 DEF HasProfile
<1>4. \A c \in Clients : \A id : Makes(c, id)' <=> Makes(c, id)
  BY <1>2 DEF Makes
<1>5. MakersInv => MakersInv'
  BY <1>1, <1>2, <1>3, <1>4 DEF MakersInv, MakeInv
<1>6. DownInv'
  BY <1>1, <1>2, <1>3, <1>4 DEF DownInv, Down
<1>7. ChainsInv'
  BY <1>1, <1>3, <1>4 DEF ChainsInv, ChainInv, InChain, Asked
<1>. QED
  BY <1>5, <1>6, <1>7

LEMMA ChainKept ==
  ASSUME ConnInv, MakersInv, NEW c \in Clients, ClientStep(c),
         NEW a \in Call, ChainInv(a), Shape(a), a.pc \in {"call", "unsubscribe"},
         \A p \in ToSet(a.frames) :
           ~(Unsubscribe(c) /\ p = Last(act[c].frames))
  PROVE  ChainInv(a)'
<1>1. alive' = alive /\ ToSet(a.frames) \subseteq Ports
  BY StepFacts, Elements DEF ConnInv, Call
<1>2. Asked(a.id, a.list)'
  <2>1. asked \subseteq asked'
    BY StepKinds, ConnectEffect, QuietMaker, CallRaisesEffect, GoesMaker
  <2>. QED
    BY <2>1 DEF ChainInv, Asked
<1>3. ASSUME a.frames # <<>>, NEW d \in Clients, Makes(d, a.id)'
      PROVE  FALSE
  <2>1. CASE ~Connect(c)
    BY <1>3, <2>1, MakesOnly DEF ChainInv
  <2>2. CASE Connect(c)
    <3>1. PICK b : b = act'[c]
      OBVIOUS
    <3>2. Maker(c)' = b /\ \A l : ~Asked(b.id, l)
      BY <2>2, <3>1, ConnectsNew
    <3>3. CASE d = c
      BY <1>3, <3>2, <3>3 DEF Makes, ChainInv
    <3>4. CASE d # c
      BY <1>3, <3>4, StepFacts DEF Makes, ConnInv, ChainInv
    <3>. QED
      BY <3>3, <3>4
  <2>. QED
    BY <2>1, <2>2
<1>4. \A p \in ToSet(a.frames) : HasProfile(p, a.id)'
  BY <1>1, ProfileLost, NoFrames DEF ChainInv
<1>5. ASSUME a.pc = "unsubscribe", NEW p \in Ports, alive[p], HasProfile(p, a.id)'
      PROVE  p \in ToSet(a.frames)
  <2>1. CASE HasProfile(p, a.id)
    BY <1>5, <2>1 DEF ChainInv
  <2>2. CASE ~HasProfile(p, a.id)
    <3>1. Subscribe(c) /\ a.id = act[c].id
      BY <1>5, <2>2, ProfileGained
    <3>2. Makes(c, a.id)
      BY <3>1, GoesMaker DEF Makes, Goes
    <3>3. a.frames # <<>>
      BY <1>5 DEF Shape
    <3>. QED
      BY <3>2, <3>3 DEF ChainInv
  <2>. QED
    BY <2>1, <2>2
<1>6. (a.pc = "call" =>
         \A j \in 1 .. Len(a.list) :
           j < a.k /\ alive[a.list[j]] => a.list[j] \in ToSet(a.frames))'
  BY <1>1 DEF ChainInv
<1>7. (a.frames # <<>> =>
         /\ \A d \in Clients : ~Makes(d, a.id)
         /\ \A p \in ToSet(a.frames) : HasProfile(p, a.id)
         /\ Ordered(a.frames, a.list))'
  BY <1>3, <1>4 DEF ChainInv, Ordered
<1>8. (a.pc = "unsubscribe" =>
         \A p \in Ports : alive[p] /\ HasProfile(p, a.id) => p \in ToSet(a.frames))'
  BY <1>1, <1>5
<1>. QED
  BY <1>2, <1>6, <1>7, <1>8 DEF ChainInv

(***************************************************************************)
(* The next step of a chain.                                               *)
(***************************************************************************)
LEMMA CopyChain ==
  ASSUME ConnInv, ChainsInv, NEW c \in Clients, Copy(c),
         NEW b, b = act'[c], b.pc = "call", b.id \notin missed',
         NEW id, id = act[c].id
  PROVE  ChainInv(b)'
<1>1. /\ b.frames = <<>> /\ b.id = id /\ b.k = act[c].k
      /\ Asked(id, b.list) /\ asked' = asked /\ act[c].pc = "copy"
  BY CopyEffect DEF Keeps
<1>2. b.k = 1
  BY <1>1 DEF ChainsInv
<1>. QED
  BY <1>1, <1>2 DEF ChainInv, Asked

LEMMA ReturnsChain ==
  ASSUME ConnInv, NEW c \in Clients, ClientStep(c), ~Connect(c), SameChain(c),
         NEW a, a = act[c], NEW b, b = act'[c], ChainInv(a),
         b.frames = a.frames, b.list = a.list, b.id = a.id,
         b.pc = "unsubscribe",
         \A p \in Ports : alive[p] /\ HasProfile(p, a.id) => p \in ToSet(a.frames)
  PROVE  ChainInv(b)'
<1>1. UNCHANGED <<alive, profiles, asked>>
  BY DEF SameChain, Keeps
<1>2. \A p : HasProfile(p, a.id)' <=> HasProfile(p, a.id)
  BY <1>1 DEF HasProfile
<1>3. \A d \in Clients : Makes(d, a.id)' => Makes(d, a.id)
  BY MakesOnly
<1>. QED
  BY <1>1, <1>2, <1>3 DEF ChainInv, Asked, Ordered

LEMMA AskedList ==
  ASSUME ConnInv, NEW c \in Clients, ChainInv(act[c])
  PROVE  /\ act[c].id \in Conns /\ act[c].list \in PortLists
         /\ act[c].list \in Seq(Ports) /\ Len(act[c].list) \in Nat \ {0}
         /\ Distinct(act[c].list)
         /\ \A p \in Ports : HasProfile(p, act[c].id) =>
              \E j \in 1 .. Len(act[c].list) : act[c].list[j] = p
<1>1. act[c].id \in Conns /\ act[c].list \in PortLists
  BY AskedIds DEF ChainInv, ConnInv
<1>. QED
  BY <1>1, ListFacts, KeptFacts DEF ChainInv

LEMMA SkipDeadChain ==
  ASSUME ConnInv, NEW c \in Clients, SkipDead(c), ChainInv(act[c]),
         NEW a, a = act[c], NEW b, b = act'[c], b.pc \in {"call", "unsubscribe"}
  PROVE  ChainInv(b)'
<1>1. /\ a.pc = "call" /\ a.k \in 1 .. Len(a.list) /\ ~alive[a.list[a.k]]
      /\ SameChain(c) /\ b.frames = a.frames /\ b.list = a.list /\ b.id = a.id
      /\ \/ b.pc = "call" /\ b.k = a.k + 1
         \/ b.pc = Returned(a.frames) /\ a.k = Len(a.list)
  BY SkipDeadEffect DEF SameChain
<1>2. ClientStep(c) /\ ~Connect(c)
  BY <1>1, ConnectEffect DEF ClientStep, DisconnectStep
<1>3. CASE b.pc = "call"
  <2>1. UNCHANGED <<alive, profiles, asked>>
    BY <1>1 DEF SameChain, Keeps
  <2>2. \A p : HasProfile(p, a.id)' <=> HasProfile(p, a.id)
    BY <2>1 DEF HasProfile
  <2>3. \A d \in Clients : Makes(d, a.id)' => Makes(d, a.id)
    BY <1>2, MakesOnly
  <2>4. b.k = a.k + 1
    BY <1>1, <1>3 DEF Returned
  <2>5. \A j \in 1 .. Len(a.list) :
          j < a.k + 1 /\ alive[a.list[j]] => a.list[j] \in ToSet(a.frames)
    <3>. SUFFICES ASSUME NEW j \in 1 .. Len(a.list), j < a.k + 1, alive[a.list[j]]
                  PROVE  a.list[j] \in ToSet(a.frames)
      OBVIOUS
    <3>1. j < a.k \/ j = a.k
      BY <1>1, CallFacts
    <3>. QED
      BY <1>1, <3>1 DEF ChainInv
  <2>. QED
    <3>1. Asked(b.id, b.list)'
      BY <1>1, <2>1 DEF ChainInv, Asked
    <3>2. (\A j \in 1 .. Len(b.list) :
             j < b.k /\ alive[b.list[j]] => b.list[j] \in ToSet(b.frames))'
      BY <1>1, <2>1, <2>4, <2>5
    <3>3. a.frames # <<>> =>
            /\ \A d \in Clients : ~Makes(d, a.id)'
            /\ \A p \in ToSet(a.frames) : HasProfile(p, a.id)'
            /\ Ordered(a.frames, a.list)
      BY <2>2, <2>3 DEF ChainInv
    <3>. QED
      BY <1>1, <1>3, <3>1, <3>2, <3>3 DEF ChainInv
<1>4. CASE b.pc = "unsubscribe"
  <2>1. \A p \in Ports : alive[p] /\ HasProfile(p, a.id) => p \in ToSet(a.frames)
    <3>. SUFFICES ASSUME NEW p \in Ports, alive[p], HasProfile(p, a.id)
                  PROVE  p \in ToSet(a.frames)
      OBVIOUS
    <3>1. PICK j \in 1 .. Len(a.list) : a.list[j] = p
      BY AskedList
    <3>2. a.k = Len(a.list) /\ Len(a.list) \in Nat
      BY <1>1, <1>4, CallFacts
    <3>3. j < a.k
      BY <1>1, <3>1, <3>2
    <3>. QED
      BY <1>1, <3>1, <3>3 DEF ChainInv
  <2>. QED
    BY <1>1, <1>2, <1>4, <2>1, ReturnsChain
<1>. QED
  BY <1>3, <1>4

LEMMA NotifyUnknownChain ==
  ASSUME ConnInv, DownInv, NEW c \in Clients, NotifyUnknown(c), ChainInv(act[c]),
         act[c].id \notin missed, NEW a, a = act[c], NEW b, b = act'[c],
          b.pc \in {"call", "unsubscribe"}
  PROVE  ChainInv(b)'
<1>1. /\ a.pc = "call" /\ a.k \in 1 .. Len(a.list) /\ alive[a.list[a.k]]
      /\ ~HasProfile(a.list[a.k], a.id)
      /\ SameChain(c) /\ b.frames = a.frames /\ b.list = a.list /\ b.id = a.id
      /\ b.pc = Returned(a.frames)
  BY NotifyUnknownEffect DEF SameChain
<1>2. ClientStep(c) /\ ~Connect(c)
  BY <1>1, ConnectEffect DEF ClientStep, DisconnectStep
<1>3. b.pc = "unsubscribe" /\ a.frames # <<>>
  BY <1>1 DEF Returned
<1>4. \A p \in Ports : alive[p] /\ HasProfile(p, a.id) => p \in ToSet(a.frames)
  <2>. SUFFICES ASSUME NEW p \in Ports, alive[p], HasProfile(p, a.id)
                PROVE  p \in ToSet(a.frames)
    OBVIOUS
  <2>1. PICK j \in 1 .. Len(a.list) : a.list[j] = p
    BY AskedList
  <2>2. Down(a.id, a.list)
    BY DEF DownInv, ChainInv, Asked
  <2>3. \A d \in Clients : ~Makes(d, a.id)
    BY <1>3 DEF ChainInv
  <2>4. ~(a.k < j)
    BY <1>1, <2>1, <2>2, <2>3 DEF Down
  <2>5. a.k # j
    BY <1>1, <2>1
  <2>6. j < a.k
    BY <1>1, <2>4, <2>5, CallFacts
  <2>. QED
    BY <1>1, <2>1, <2>6 DEF ChainInv
<1>. QED
  BY <1>1, <1>2, <1>3, <1>4, ReturnsChain

(***************************************************************************)
(* A port that has the connection and is free is not on the way of a       *)
(* notify_connect() of it that the chain has not met.                      *)
(***************************************************************************)
LEMMA NoMakerAhead ==
  ASSUME ConnInv, MakersInv, AliveInv, NEW a, NEW c \in Clients, a = act[c],
         ChainInv(a), a.pc = "call", a.k \in 1 .. Len(a.list),
         HasProfile(a.list[a.k], a.id), holder[a.list[a.k]] = None,
         NEW d \in Clients
  PROVE  ~Makes(d, a.id)
<1>. SUFFICES ASSUME Makes(d, a.id), a.frames = <<>>
              PROVE  FALSE
  BY DEF ChainInv
<1>. DEFINE b == Maker(d)
<1>1. /\ b.pc \in Connecting /\ b.id = a.id /\ MakeInv(b) /\ Shape(b)
      /\ b.frames \in Seq(Ports) /\ Asked(a.id, b.list)
      /\ \A p \in ToSet(b.frames) : p \in Ports /\ holder[p] = d
  BY MakerFacts DEF Makes, MakersInv
<1>2. b.list = a.list
  BY <1>1, OneAsked DEF ChainInv, ConnInv
<1>3. a.list \in Seq(Ports) /\ Len(a.list) \in Nat /\ a.list[a.k] \in Ports
  BY CallFacts, ElementOfSeq
<1>4. b.pc = "subscribe" /\ b.frames # <<>>
  BY <1>1, <1>3 DEF MakeInv, Shape
<1>5. Len(b.frames) \in Nat \ {0}
  BY <1>1, <1>4, EmptySeq, LenProperties
<1>6. b.frames[1] = a.list[1] /\ b.frames[1] \in ToSet(b.frames)
  <2>1. 1 \in 1 .. Len(b.frames)
    BY <1>5
  <2>. QED
    BY <1>1, <1>2, <2>1, Elements DEF MakeInv
<1>7. alive[a.list[1]] /\ holder[a.list[1]] = d
  BY <1>1, <1>6, ConnectionAssumption DEF AliveInv
<1>8. a.k # 1
  BY <1>7, ConnectionAssumption
<1>9. 1 \in 1 .. Len(a.list) /\ 1 < a.k
  BY <1>3, <1>8
<1>10. a.list[1] \in ToSet(a.frames)
  BY <1>7, <1>9 DEF ChainInv
<1>. QED
  BY <1>10, NoFrames

LEMMA NotifyDisconnectChain ==
  ASSUME ConnInv, MakersInv, AliveInv, NEW c \in Clients, NotifyDisconnect(c),
         ChainInv(act[c]), NEW a, a = act[c], NEW b, b = act'[c]
  PROVE  ChainInv(b)'
<1>. DEFINE p == a.list[a.k]
<1>1. /\ a.pc = "call" /\ a.k \in 1 .. Len(a.list) /\ p \in Ports
      /\ alive[p] /\ holder[p] = None /\ HasProfile(p, a.id) /\ SameChain(c)
      /\ Asked(a.id, b.list) /\ b.id = a.id
      /\ b.frames = Append(a.frames, p) /\ b.k = PositionAfter(p, b.list)
      /\ b.pc = IF b.k > Len(b.list) THEN "unsubscribe" ELSE "call"
  BY NotifyDisconnectEffect DEF SameChain
<1>2. /\ a.frames \in Seq(Ports) /\ Distinct(a.frames) /\ Len(a.frames) \in Nat
      /\ ToSet(a.frames) \subseteq ListedBefore(a.list, a.k)
      /\ p \notin ToSet(a.frames) /\ a.k \in Nat
  <2>1. a.frames \in Seq(Ports) /\ Distinct(a.frames) /\ Len(a.frames) \in Nat
    BY CallFacts, LenProperties
  <2>2. ToSet(a.frames) \subseteq ListedBefore(a.list, a.k)
    BY <1>1, CallFacts DEF InOrder
  <2>3. p \notin ToSet(a.frames)
    BY <1>1, CallFacts, ConnectionAssumption DEF Holds
  <2>. QED
    BY <1>1, <2>1, <2>2, <2>3, CallFacts
<1>3. /\ a.list \in Seq(Ports) /\ Len(a.list) \in Nat /\ Distinct(a.list)
  BY AskedList
<1>4. b.list = a.list
  BY <1>1, OneAsked DEF ChainInv, ConnInv
<1>5. b.k = a.k + 1
  <2>0. p \in ToSet(a.list) /\ b.k = PositionAfter(p, a.list) /\ p \in Ports
    <3>1. p \in ToSet(a.list)
      BY <1>1, <1>3, Elements
    <3>. QED
      BY <1>1, <1>4, <3>1
  <2>. HIDE DEF p
  <2>1. /\ b.k - 1 \in 1 .. Len(a.list) /\ a.list[b.k - 1] = p
    BY <1>3, <2>0, NextPosition
  <2>. USE DEF p
  <2>2. b.k - 1 = a.k
    BY <1>1, <1>3, <2>1 DEF Distinct
  <2>3. b.k \in 1 .. Len(a.list) + 1
    BY <1>1, <1>3, <1>4, NextPosition
  <2>. QED
    BY <1>3, <2>2, <2>3
<1>6. UNCHANGED <<alive, profiles, asked>>
  BY <1>1 DEF SameChain, Keeps
<1>7. /\ ToSet(b.frames) = ToSet(a.frames) \cup {p} /\ b.frames # <<>>
      /\ Len(b.frames) = Len(a.frames) + 1
      /\ \A n \in 1 .. Len(a.frames) : b.frames[n] = a.frames[n]
      /\ b.frames[Len(a.frames) + 1] = p
  BY <1>1, <1>2, Appended, AppendProperties
<1>8. ASSUME NEW d \in Clients
      PROVE  ~Makes(d, a.id)'
  <2>1. ~Makes(d, a.id)
    BY <1>1, NoMakerAhead
  <2>2. ClientStep(c) /\ ~Connect(c)
    BY <1>1, ConnectEffect DEF ClientStep, DisconnectStep
  <2>. QED
    BY <2>1, <2>2, MakesOnly
<1>9. ASSUME NEW q \in ToSet(b.frames)
      PROVE  HasProfile(q, a.id)'
  <2>1. HasProfile(q, a.id)
    BY <1>1, <1>7, <1>9, NoFrames DEF ChainInv
  <2>. QED
    BY <1>6, <2>1 DEF HasProfile
<1>. HIDE DEF p
<1>10. Ordered(b.frames, b.list)
  <2>. SUFFICES ASSUME NEW n \in 1 .. Len(b.frames), NEW m \in 1 .. Len(b.frames),
                       NEW i \in 1 .. Len(a.list), NEW j \in 1 .. Len(a.list),
                       n < m, a.list[i] = b.frames[n], a.list[j] = b.frames[m]
                PROVE  i < j
    BY <1>4 DEF Ordered
  <2>1. n \in 1 .. Len(a.frames) /\ a.list[i] = a.frames[n]
    BY <1>2, <1>7
  <2>2. CASE m \in 1 .. Len(a.frames)
    <3>1. a.frames # <<>>
      BY <2>2, <1>2, EmptySeq
    <3>. QED
      BY <1>7, <2>1, <2>2, <3>1 DEF ChainInv, Ordered
  <2>3. CASE m = Len(a.frames) + 1
    <3>1. j = a.k
      <4>1. a.list[j] = p
        BY <1>7, <2>3
      <4>2. a.k \in 1 .. Len(a.list) /\ a.list[a.k] = p
        BY <1>1, <1>3 DEF p
      <4>. QED
        BY <1>3, <4>1, <4>2 DEF Distinct
    <3>2. a.list[i] \in ListedBefore(a.list, a.k)
      BY <1>2, <2>1, Elements
    <3>3. PICK k \in 1 .. Len(a.list) : k < a.k /\ a.list[k] = a.list[i]
      BY <3>2 DEF ListedBefore
    <3>4. k = i
      BY <1>3, <3>3 DEF Distinct
    <3>. QED
      BY <3>1, <3>3, <3>4
  <2>4. m \in 1 .. Len(a.frames) + 1
    BY <1>7
  <2>5. Len(a.frames) \in Nat
    BY <1>2
  <2>6. m \in 1 .. Len(a.frames) \/ m = Len(a.frames) + 1
    BY <2>4, <2>5, LastOrBefore
  <2>. QED
    BY <2>2, <2>3, <2>6
<1>11. ASSUME NEW j \in 1 .. Len(a.list), j < a.k + 1, alive[a.list[j]]
       PROVE  a.list[j] \in ToSet(b.frames)
  <2>1. j < a.k \/ j = a.k
    BY <1>2, <1>11
  <2>. QED
    BY <1>1, <1>7, <1>11, <2>1 DEF ChainInv, p
<1>12. ASSUME b.pc = "unsubscribe", NEW q \in Ports, alive[q], HasProfile(q, a.id)
       PROVE  q \in ToSet(b.frames)
  <2>1. PICK j \in 1 .. Len(a.list) : a.list[j] = q
    BY <1>12, AskedList
  <2>2. j < a.k + 1
    BY <1>1, <1>2, <1>3, <1>4, <1>5, <1>12
  <2>. QED
    BY <1>11, <1>12, <2>1, <2>2
<1>13. Asked(b.id, b.list)'
  BY <1>1, <1>6 DEF Asked
<1>14. \A q : HasProfile(q, a.id)' <=> HasProfile(q, a.id)
  BY <1>6 DEF HasProfile
<1>15. (b.pc = "call" =>
          \A j \in 1 .. Len(b.list) :
            j < b.k /\ alive[b.list[j]] => b.list[j] \in ToSet(b.frames))'
  BY <1>4, <1>5, <1>6, <1>11
<1>16. (b.frames # <<>> =>
          /\ \A d \in Clients : ~Makes(d, b.id)
          /\ \A q \in ToSet(b.frames) : HasProfile(q, b.id)
          /\ Ordered(b.frames, b.list))'
  BY <1>1, <1>8, <1>9, <1>10 DEF Ordered
<1>17. (b.pc = "unsubscribe" =>
          \A q \in Ports : alive[q] /\ HasProfile(q, b.id) => q \in ToSet(b.frames))'
  BY <1>1, <1>6, <1>12, <1>14
<1>. QED
  BY <1>13, <1>15, <1>16, <1>17 DEF ChainInv

LEMMA UnsubscribeChain ==
  ASSUME ConnInv, MakersInv, NEW c \in Clients, Unsubscribe(c), ChainInv(act[c]),
         NEW a, a = act[c], NEW b, b = act'[c], NEW p, p = Last(a.frames)
  PROVE  /\ b.pc = "unsubscribe" => ChainInv(b)'
         /\ \A q \in Ports : alive[q] /\ HasProfile(q, a.id)' =>
              q \in ToSet(a.frames) \ {p}
<1>1. /\ a.pc = "unsubscribe" /\ a.frames # <<>> /\ p \in Ports
      /\ UNCHANGED <<alive, asked>>
      /\ b.id = a.id /\ b.frames = Front(a.frames)
      /\ b.pc = Returned(Front(a.frames))
  BY UnsubscribeEffect
<1>2. \A q \in Ports : \A id :
        HasProfile(q, id)' <=> HasProfile(q, id) /\ ~(q = p /\ id = a.id)
  BY <1>1, UnsubscribeProfiles DEF MakersInv
<1>3. b.list = a.list
  <2>1. TypeOK /\ a \in Call
    BY CallFacts
  <2>2. act'[c] = [a EXCEPT !.frames = Front(a.frames),
                            !.pc = Returned(Front(a.frames))]
    BY <2>1 DEF Unsubscribe, TypeOK
  <2>. QED
    BY <2>1, <2>2 DEF Call
<1>4. /\ a.frames \in Seq(Ports) /\ Distinct(a.frames)
      /\ ToSet(a.frames) \subseteq Ports
      /\ Len(a.frames) \in Nat \ {0} /\ Len(Front(a.frames)) = Len(a.frames) - 1
      /\ \A n \in 1 .. Len(a.frames) - 1 : Front(a.frames)[n] = a.frames[n]
      /\ ToSet(Front(a.frames)) = ToSet(a.frames) \ {p}
  BY <1>1, CallFacts, FrontAt
<1>5. \A q \in Ports : alive[q] /\ HasProfile(q, a.id)' => q \in ToSet(a.frames) \ {p}
  BY <1>1, <1>2 DEF ChainInv
<1>6. ASSUME b.pc = "unsubscribe"
      PROVE  ChainInv(b)'
  <2>1. \A d \in Clients : ~Makes(d, a.id)'
    <3>1. ClientStep(c) /\ ~Connect(c)
      BY <1>1, ConnectEffect DEF ClientStep, DisconnectStep
    <3>. QED
      BY <1>1, <3>1, MakesOnly DEF ChainInv
  <2>2. \A q \in ToSet(b.frames) : HasProfile(q, a.id)'
    BY <1>1, <1>2, <1>4 DEF ChainInv
  <2>3. Ordered(b.frames, b.list)
    <3>1. Ordered(a.frames, a.list)
      BY <1>1 DEF ChainInv
    <3>2. /\ Len(b.frames) = Len(a.frames) - 1
          /\ \A n \in 1 .. Len(b.frames) : /\ n \in 1 .. Len(a.frames)
                                         /\ b.frames[n] = a.frames[n]
      BY <1>1, <1>4
    <3>3. b.list = a.list
      BY <1>3
    <3>. SUFFICES ASSUME NEW n \in 1 .. Len(b.frames), NEW m \in 1 .. Len(b.frames),
                         NEW i \in 1 .. Len(b.list), NEW j \in 1 .. Len(b.list),
                         n < m, b.list[i] = b.frames[n], b.list[j] = b.frames[m]
                  PROVE  i < j
      BY DEF Ordered
    <3>4. /\ n \in 1 .. Len(a.frames) /\ m \in 1 .. Len(a.frames)
          /\ i \in 1 .. Len(a.list) /\ j \in 1 .. Len(a.list)
          /\ a.list[i] = a.frames[n] /\ a.list[j] = a.frames[m]
      BY <3>2, <3>3
    <3>. QED
      BY <3>1, <3>4 DEF Ordered
  <2>4. Asked(b.id, b.list)'
    BY <1>1, <1>3 DEF Asked, ChainInv
  <2>5. (\A q \in Ports : alive[q] /\ HasProfile(q, b.id) => q \in ToSet(b.frames))'
    BY <1>1, <1>4, <1>5
  <2>6. (/\ \A d \in Clients : ~Makes(d, b.id)
         /\ \A q \in ToSet(b.frames) : HasProfile(q, b.id)
         /\ Ordered(b.frames, b.list))'
    BY <1>1, <2>1, <2>2, <2>3 DEF Ordered
  <2>. QED
    BY <1>6, <2>4, <2>5, <2>6 DEF ChainInv
<1>. QED
  BY <1>5, <1>6

LEMMA ChainSteps ==
  ASSUME ConnInv, NEW c \in Clients, ClientStep(c),
         act'[c].pc \in {"copy", "call", "unsubscribe"}
  PROVE  \/ Find(c) /\ act'[c].pc = "copy" /\ act'[c].k = 1
         \/ Copy(c) /\ act'[c].pc = "call"
         \/ /\ SkipDead(c) \/ NotifyDisconnect(c) \/ NotifyUnknown(c)
               \/ Unsubscribe(c)
            /\ act[c].pc \in {"call", "unsubscribe"} /\ act'[c].id = act[c].id
            /\ act'[c].pc \in {"call", "unsubscribe"}
<1>1. ~Connect(c) /\ ~Disconnects(c) /\ ~CleanUp(c) /\ ~CallRaises(c)
  BY ConnectEffect, DisconnectsEffect, CleanUpEffect, CallRaisesEffect,
     NoFrames
<1>2. ~AllDisconnected(c)
  BY AllDisconnectedEffect, MakerFacts, NoFrames
<1>3. ~CheckFan(c) /\ ~RefuseDuplicate(c) /\ ~Publish(c) /\ ~Subscribe(c)
  BY CheckFanEffect, RefuseDuplicateEffect, PublishEffect, SubscribeEffect
     DEF Unwound
<1>4. ~LockPort(c)
  BY LockPortEffect
<1>5. Find(c) => act'[c].pc = "copy" /\ act'[c].k = 1
  BY FindEffect
<1>6. Copy(c) => act'[c].pc = "call"
  BY CopyEffect
<1>7. SkipDead(c) \/ NotifyDisconnect(c) \/ NotifyUnknown(c) =>
        /\ act[c].pc = "call" /\ act'[c].id = act[c].id
        /\ act'[c].pc \in {"call", "unsubscribe"}
  BY SkipDeadEffect, NotifyDisconnectEffect, NotifyUnknownEffect
     DEF SameChain, Returned
<1>8. Unsubscribe(c) =>
        /\ act[c].pc = "unsubscribe" /\ act'[c].id = act[c].id
        /\ act'[c].pc = "unsubscribe"
  BY UnsubscribeEffect DEF Returned
<1>. QED
  BY <1>1, <1>2, <1>3, <1>4, <1>5, <1>6, <1>7, <1>8, StepKinds DEF Quiet, Goes

LEMMA ChainsInvStep ==
  ASSUME ConnInv, MakersInv, AliveInv, DownInv, ChainsInv,
         NEW c \in Clients, ClientStep(c)
  PROVE  ChainsInv'
<1>1. /\ \A d \in Clients \ {c} : act'[d] = act[d]
      /\ missed \subseteq missed'
  BY StepFacts DEF ConnInv
<1>2. ASSUME NEW d \in Clients, act'[d].pc = "copy"
      PROVE  act'[d].k = 1
  <2>1. CASE d = c
    BY <1>2, <2>1, ChainSteps
  <2>. QED
    BY <1>1, <1>2, <2>1 DEF ChainsInv
<1>3. ASSUME NEW d \in Clients, NEW b, b = act'[d],
             b.pc \in {"call", "unsubscribe"}, b.id \notin missed'
      PROVE  ChainInv(b)'
  <2>1. CASE d # c
    <3>1. b = act[d] /\ ChainInv(b)
      BY <1>1, <1>3, <2>1 DEF ChainsInv, InChain
    <3>2. b \in Call /\ Shape(b) /\ \A p \in ToSet(b.frames) : holder[p] = d
      BY <3>1, CallFacts DEF Holds
    <3>3. ASSUME NEW p \in ToSet(b.frames), Unsubscribe(c), p = Last(act[c].frames)
          PROVE  FALSE
      <4>1. p \in Ports /\ p \in ToSet(act[c].frames)
        BY <3>3, UnsubscribeEffect
      <4>2. holder[p] = c
        BY <4>1, CallFacts DEF Holds
      <4>. QED
        BY <2>1, <3>2, <3>3, <4>2
    <3>. QED
      BY <1>3, <3>1, <3>2, <3>3, ChainKept
  <2>2. CASE d = c /\ Copy(c) /\ b.pc = "call"
    BY <1>3, <2>2, CopyChain
  <2>3. ASSUME d = c, act[c].pc \in {"call", "unsubscribe"}, b.id = act[c].id
        PROVE  ChainInv(act[c]) /\ act[c].id \notin missed
    BY <1>1, <1>3, <2>3 DEF ChainsInv, InChain
  <2>4. CASE d = c /\ SkipDead(c) /\ act[c].pc \in {"call", "unsubscribe"}
             /\ b.id = act[c].id
    BY <1>3, <2>3, <2>4, SkipDeadChain
  <2>5. CASE d = c /\ NotifyDisconnect(c) /\ act[c].pc \in {"call", "unsubscribe"}
             /\ b.id = act[c].id
    BY <1>3, <2>3, <2>5, NotifyDisconnectChain
  <2>6. CASE d = c /\ NotifyUnknown(c) /\ act[c].pc \in {"call", "unsubscribe"}
             /\ b.id = act[c].id
    BY <1>3, <2>3, <2>6, NotifyUnknownChain
  <2>7. CASE d = c /\ Unsubscribe(c) /\ act[c].pc \in {"call", "unsubscribe"}
             /\ b.id = act[c].id
    <3>1. b.pc = "unsubscribe"
      BY <1>3, <2>7, UnsubscribeEffect DEF Returned
    <3>. QED
      BY <1>3, <2>3, <2>7, <3>1, UnsubscribeChain
  <2>. QED
    BY <1>3, <2>1, <2>2, <2>4, <2>5, <2>6, <2>7, ChainSteps
<1>4. ASSUME NEW d \in Clients, InChain(d)'
      PROVE  ChainInv(act[d])'
  <2>1. PICK b : b = act'[d]
    OBVIOUS
  <2>2. ChainInv(b)'
    BY <1>3, <1>4, <2>1 DEF InChain
  <2>. QED
    BY <2>1, <2>2 DEF ChainInv, Asked, Makes, HasProfile, Ordered
<1>. QED
  BY <1>2, <1>4 DEF ChainsInv

(***************************************************************************)
(* The ports that have a connection stay the first ones of its list.       *)
(***************************************************************************)
LEMMA MakerAt ==
  ASSUME ConnInv, MakersInv, NEW c \in Clients, NEW id, NEW l, Asked(id, l),
         Makes(c, id)
  PROVE  /\ Maker(c).list = l /\ l \in PortLists
         /\ Maker(c).frames \in Seq(Ports) /\ Distinct(Maker(c).frames)
         /\ Len(Maker(c).frames) \in Nat /\ Len(Maker(c).frames) <= Len(l)
         /\ \A n \in 1 .. Len(Maker(c).frames) : Maker(c).frames[n] = l[n]
<1>1. /\ Asked(id, Maker(c).list) /\ Maker(c).list \in PortLists
      /\ Maker(c).frames \in Seq(Ports) /\ Distinct(Maker(c).frames)
      /\ MakeInv(Maker(c))
  BY MakerFacts DEF Makes, MakersInv
<1>2. Maker(c).list = l
  BY <1>1, OneAsked DEF ConnInv
<1>. QED
  BY <1>1, <1>2, LenProperties DEF MakeInv

LEMMA SubscribeAt ==
  ASSUME ConnInv, MakersInv, NEW c \in Clients, Subscribe(c),
         NEW id, id = act[c].id, NEW l, Asked(id, l)
  PROVE  /\ Makes(c, id) /\ Maker(c) = act[c] /\ l \in PortLists
         /\ Len(act[c].frames) \in 1 .. Len(l)
         /\ Last(act[c].frames) = l[Len(act[c].frames)]
         /\ Maker(c).id' = id
         /\ Len(Maker(c).frames') = Len(act[c].frames) - 1
         /\ Len(act[c].frames) # 1 => Makes(c, id)'
<1>. DEFINE a == act[c]
<1>1. Makes(c, id) /\ Maker(c) = a /\ Maker(c).id' = id
  BY GoesMaker DEF Goes, Makes
<1>2. /\ a.frames \in Seq(Ports) /\ Distinct(a.frames) /\ Len(a.frames) \in Nat
      /\ Len(a.frames) <= Len(l) /\ l \in PortLists
      /\ \A n \in 1 .. Len(a.frames) : a.frames[n] = l[n]
  BY <1>1, MakerAt
<1>3. /\ a.pc = "subscribe" /\ a.frames # <<>> /\ SameMaking(c)
      /\ act'[c].frames = Front(a.frames) /\ act'[c].pc = Unwound(Front(a.frames))
  BY SubscribeEffect
<1>4. /\ Len(a.frames) \in Nat \ {0} /\ Len(Front(a.frames)) = Len(a.frames) - 1
      /\ Last(a.frames) = a.frames[Len(a.frames)]
      /\ Front(a.frames) = <<>> <=> Len(a.frames) = 1
  BY <1>2, <1>3, FrontAt
<1>5. Maker(c)' = act'[c]
  BY <1>3 DEF SameMaking, Maker
<1>6. Len(a.frames) \in 1 .. Len(l)
  BY <1>2, <1>4, ListFacts
<1>7. Len(a.frames) # 1 => Makes(c, id)'
  BY <1>1, <1>3, <1>4, <1>5 DEF Makes, Unwound, Connecting
<1>. QED
  BY <1>1, <1>2, <1>3, <1>4, <1>5, <1>6, <1>7

LEMMA DownKept ==
  ASSUME ConnInv, MakersInv, ChainsInv, NEW c \in Clients, ClientStep(c), ~Connect(c),
         NEW id, NEW l, Asked(id, l), id \notin missed, Down(id, l)
  PROVE  Down(id, l)'
<1>0. alive' = alive
  BY StepFacts DEF ConnInv
<1>. SUFFICES ASSUME NEW i \in 1 .. Len(l), NEW j \in 1 .. Len(l), i < j,
                     alive[l[i]], alive[l[j]], HasProfile(l[j], id)',
                     ~HasProfile(l[i], id)'
              PROVE  \E d \in Clients : Makes(d, id)' /\ i <= Len(Maker(d).frames')
  BY <1>0 DEF Down
<1>1. /\ l \in PortLists /\ id \in Conns /\ Len(l) \in Nat /\ Distinct(l)
      /\ l[i] \in Ports /\ l[j] \in Ports /\ l[i] # l[j]
  <2>1. l \in PortLists /\ id \in Conns
    BY AskedIds DEF ConnInv
  <2>2. Len(l) \in Nat /\ Distinct(l) /\ l[i] \in Ports /\ l[j] \in Ports
    BY <2>1, ListFacts
  <2>. QED
    BY <2>1, <2>2 DEF Distinct
<1>2. CASE ~HasProfile(l[j], id)
  <2>1. Subscribe(c) /\ id = act[c].id /\ l[j] = Last(act[c].frames)
    BY <1>1, <1>2, ProfileGained
  <2>2. /\ Len(act[c].frames) \in 1 .. Len(l)
        /\ Last(act[c].frames) = l[Len(act[c].frames)]
        /\ Len(Maker(c).frames') = Len(act[c].frames) - 1
        /\ Len(act[c].frames) # 1 => Makes(c, id)'
    BY <2>1, SubscribeAt
  <2>3. j = Len(act[c].frames)
    BY <1>1, <2>1, <2>2 DEF Distinct
  <2>4. i <= j - 1 /\ j # 1
    BY <1>1
  <2>. QED
    BY <2>2, <2>3, <2>4
<1>3. CASE HasProfile(l[j], id) /\ HasProfile(l[i], id)
  <2>1. Unsubscribe(c) /\ id = act[c].id /\ l[i] = Last(act[c].frames)
    BY <1>1, <1>3, ProfileLost
  <2>2. /\ act[c].pc = "unsubscribe" /\ act[c].frames # <<>>
        /\ act[c].frames \in Seq(Ports) /\ Distinct(act[c].frames)
        /\ ChainInv(act[c]) /\ act[c].list = l
    <3>1. /\ act[c].pc = "unsubscribe" /\ act[c].frames # <<>>
          /\ act[c].frames \in Seq(Ports) /\ Distinct(act[c].frames)
      BY <2>1, UnsubscribeEffect, CallFacts
    <3>2. ChainInv(act[c])
      BY <2>1, <3>1 DEF ChainsInv, InChain
    <3>3. act[c].list = l
      BY <2>1, <3>2, OneAsked DEF ChainInv, ConnInv
    <3>. QED
      BY <3>1, <3>2, <3>3
  <2>3. /\ Len(act[c].frames) \in Nat \ {0}
        /\ l[i] = act[c].frames[Len(act[c].frames)]
    BY <2>1, <2>2, FrontAt
  <2>4. l[j] \in ToSet(act[c].frames)
    BY <1>1, <1>3, <2>1, <2>2 DEF ChainInv
  <2>5. PICK n \in 1 .. Len(act[c].frames) : act[c].frames[n] = l[j]
    BY <2>2, <2>4, Elements
  <2>6. n < Len(act[c].frames)
    BY <1>1, <2>3, <2>5
  <2>7. Len(act[c].frames) \in 1 .. Len(act[c].frames)
    BY <2>3
  <2>8. j < i
    BY <2>2, <2>3, <2>5, <2>6, <2>7 DEF ChainInv, Ordered
  <2>. QED
    BY <1>1, <2>8
<1>4. CASE HasProfile(l[j], id) /\ ~HasProfile(l[i], id)
  <2>1. PICK d \in Clients : Makes(d, id) /\ i <= Len(Maker(d).frames)
    BY <1>4 DEF Down
  <2>2. CASE Maker(d)' = Maker(d)
    BY <2>1, <2>2 DEF Makes
  <2>3. CASE d = c /\ Subscribe(c)
    <3>1. /\ Makes(c, act[c].id) /\ Maker(c) = act[c]
      BY <2>3, GoesMaker DEF Goes, Makes
    <3>2. id = act[c].id
      BY <2>1, <2>3, <3>1 DEF Makes
    <3>3. /\ Len(act[c].frames) \in 1 .. Len(l)
          /\ Last(act[c].frames) = l[Len(act[c].frames)]
          /\ Len(Maker(c).frames') = Len(act[c].frames) - 1
          /\ Len(act[c].frames) # 1 => Makes(c, id)'
      BY <2>3, <3>2, SubscribeAt
    <3>4. l[i] # Last(act[c].frames)
      <4>1. PICK p : p = Last(act[c].frames)
        OBVIOUS
      <4>2. p \in Ports /\ HasProfile(p, id)'
        BY <2>3, <3>2, <4>1, SubscribesNew
      <4>. QED
        BY <4>1, <4>2
    <3>5. i # Len(act[c].frames) /\ i <= Len(act[c].frames)
      BY <2>1, <2>3, <3>1, <3>3, <3>4
    <3>6. i <= Len(act[c].frames) - 1 /\ Len(act[c].frames) # 1
      <4>1. ASSUME NEW m \in 1 .. Len(l), i # m, i <= m
            PROVE  i <= m - 1 /\ m # 1
        BY <1>1, <4>1
      <4>. QED
        BY <3>3, <3>5, <4>1
    <3>. QED
      BY <3>3, <3>6
  <2>4. CASE d = c /\ (CallRaises(c) \/ (Goes(c) /\ ~Subscribe(c)))
    <3>1. act[c].pc \in Connecting /\ Maker(c) = act[c] /\ act[c].pc # "subscribe"
      BY <2>4, CallRaisesEffect, GoesMaker, CheckFanEffect, LockPortEffect,
         RefuseDuplicateEffect, PublishEffect DEF Goes, Maker, Connecting
    <3>2. MakeInv(act[c]) /\ act[c].id = id
      BY <2>1, <2>4, <3>1 DEF MakersInv, Makes
    <3>. QED
      BY <1>1, <1>4, <3>1, <3>2 DEF MakeInv
  <2>5. CASE d = c /\ (Quiet(c) \/ Unsubscribe(c))
    <3>1. Maker(c)' = Maker(c)
      BY <2>1, <2>5, QuietMaker DEF MakerKept, Makes
    <3>. QED
      BY <2>2, <2>5, <3>1
  <2>6. CASE d # c
    BY <2>2, <2>6, StepFacts DEF ConnInv
  <2>. QED
    BY <2>3, <2>4, <2>5, <2>6, StepKinds
<1>. QED
  BY <1>2, <1>3, <1>4

LEMMA DownInvStep ==
  ASSUME ConnInv, MakersInv, ChainsInv, DownInv, NEW c \in Clients, ClientStep(c)
  PROVE  DownInv'
<1>. SUFFICES ASSUME NEW f \in asked', f.id \notin missed'
              PROVE  Down(f.id, f.list)'
  BY DEF DownInv
<1>1. missed \subseteq missed'
  BY StepFacts DEF ConnInv
<1>2. CASE Connect(c)
  <2>1. PICK b : b = act'[c]
    OBVIOUS
  <2>2. asked' = asked \cup {[id |-> b.id, list |-> b.list, at |-> b.at]}
    BY <1>2, <2>1, ConnectEffect
  <2>3. CASE f \in asked
    <3>1. Down(f.id, f.list)
      BY <1>1, <2>3 DEF DownInv
    <3>2. UNCHANGED <<profiles, alive>>
      BY <1>2, ConnectEffect
    <3>3. ASSUME NEW d \in Clients, Makes(d, f.id)
          PROVE  Maker(d)' = Maker(d)
      <4>1. d # c
        BY <1>2, <3>3, ConnectEffect, MakerFacts
           DEF Makes, Disconnecting, Connecting
      <4>. QED
        BY <4>1, StepFacts DEF ConnInv
    <3>4. PICK n, l : n = f.id /\ l = f.list
      OBVIOUS
    <3>5. Down(n, l)'
      BY <3>1, <3>2, <3>3, <3>4 DEF Down, Makes, HasProfile
    <3>. QED
      BY <3>4, <3>5
  <2>4. CASE f \notin asked
    <3>1. f.id = b.id
      BY <2>2, <2>4
    <3>2. \A q \in Ports : ~HasProfile(q, b.id)'
      BY <1>2, <2>1, ConnectsNew
    <3>3. b.list \in PortLists /\ f.list = b.list
      BY <1>2, <2>1, <2>2, <2>4, ConnectEffect
    <3>4. \A j \in 1 .. Len(f.list) : f.list[j] \in Ports
      BY <3>3, ListFacts
    <3>. QED
      BY <3>1, <3>2, <3>4 DEF Down
  <2>. QED
    BY <2>3, <2>4
<1>3. CASE ~Connect(c)
  <2>1. asked' = asked
    BY <1>3, StepKinds, QuietMaker, CallRaisesEffect, GoesMaker
  <2>2. PICK n, l : n = f.id /\ l = f.list
    OBVIOUS
  <2>3. Asked(n, l) /\ Down(n, l) /\ n \notin missed
    BY <1>1, <2>1, <2>2 DEF Asked, DownInv
  <2>4. Down(n, l)'
    BY <1>3, <2>3, DownKept
  <2>. QED
    BY <2>2, <2>4
<1>. QED
  BY <1>2, <1>3

(***************************************************************************)
(* The invariant.                                                          *)
(***************************************************************************)
GoneInv == ConnInv /\ MakersInv /\ AliveInv /\ DownInv /\ ChainsInv

LEMMA GoneInvNext ==
  ASSUME GoneInv, [Next]_vars
  PROVE  GoneInv'
<1>0. ConnInv'
  BY ConnInvNext DEF GoneInv
<1>1. ASSUME NEW c \in Clients, ClientStep(c)
      PROVE  GoneInv'
  BY <1>0, <1>1, MakersInvStep, AliveInvStep, DownInvStep, ChainsInvStep
     DEF GoneInv
<1>2. ASSUME NEW p \in Ports, Die(p)
      PROVE  GoneInv'
  BY <1>0, <1>2, AliveInvDie, ChainsInvDie DEF GoneInv
<1>3. CASE UNCHANGED vars
  <2>1. UNCHANGED <<alive, profiles, holder, act, outer, asked, missed>>
    BY <1>3 DEF vars, ports, history
  <2>2. \A c \in Clients : Maker(c)' = Maker(c)
    BY <2>1 DEF Maker
  <2>3. \A q, id : HasProfile(q, id)' <=> HasProfile(q, id)
    BY <2>1 DEF HasProfile
  <2>4. \A c \in Clients : \A id : Makes(c, id)' <=> Makes(c, id)
    BY <2>2 DEF Makes
  <2>5. MakersInv'
    BY <2>1, <2>2, <2>3, <2>4 DEF GoneInv, MakersInv, MakeInv
  <2>6. AliveInv'
    BY <2>1 DEF GoneInv, AliveInv, Lives
  <2>7. DownInv'
    BY <2>1, <2>2, <2>3, <2>4 DEF GoneInv, DownInv, Down
  <2>8. ChainsInv'
    BY <2>1, <2>3, <2>4 DEF GoneInv, ChainsInv, ChainInv, InChain, Asked
  <2>. QED
    BY <1>0, <2>5, <2>6, <2>7, <2>8 DEF GoneInv
<1>. QED
  BY <1>1, <1>2, <1>3 DEF Next, ClientStep

LEMMA GoneInvInit == Init => GoneInv
BY ConnInvInit, MakersInvInit, AliveInvInit, ChainsInvInit DEF GoneInv

\* Once disconnect() has disconnected the first port that it reached, no live
\* port of the connection has it: notify_connect() stores a connection from the
\* last port to the first one and notify_disconnect() removes it likewise, so that
\* the ports that have it are always the first ones of the list, and a chain holds
\* the mutexes of all the ports that it has passed (PortBase.cpp:317, 400, 460).
THEOREM GoneWhenDisconnected == Spec => DisconnectedMeansGone
<1>. DEFINE P == \A c \in Clients :
       (Unsubscribe(c) /\ Len(act[c].frames) = 1 /\ act[c].id \notin missed) =>
         \A p \in Ports : alive[p] =>
           \A i \in 1 .. Len(profiles'[p]) : profiles'[p][i].id # act[c].id
<1>1. GoneInv /\ [Next]_vars => [P]_vars
  <2>. SUFFICES ASSUME GoneInv, GoneInv', [Next]_vars,
                       NEW c \in Clients, Unsubscribe(c),
                       Len(act[c].frames) = 1, act[c].id \notin missed,
                       NEW q \in Ports, alive[q]
                PROVE  \A i \in 1 .. Len(profiles'[q]) : profiles'[q][i].id # act[c].id
    BY GoneInvNext
  <2>1. PICK id : id = act[c].id
    OBVIOUS
  <2>2. PICK p : p = Last(act[c].frames)
    OBVIOUS
  <2>3. act[c].pc = "unsubscribe" /\ ConnInv /\ MakersInv
    BY UnsubscribeEffect DEF GoneInv
  <2>4. ChainInv(act[c])
    BY <2>3 DEF GoneInv, ChainsInv, InChain
  <2>5. HasProfile(q, id)' => q \in ToSet(act[c].frames) \ {p}
    BY <2>1, <2>2, <2>3, <2>4, UnsubscribeChain
  <2>6. ToSet(act[c].frames) \ {p} = {}
    <3>1. act[c].frames # <<>> /\ act[c].frames \in Seq(Ports) /\ Distinct(act[c].frames)
      BY <2>3, UnsubscribeEffect, CallFacts
    <3>2. Front(act[c].frames) = <<>>
          /\ ToSet(Front(act[c].frames)) = ToSet(act[c].frames) \ {p}
      BY <2>2, <3>1, FrontAt
    <3>. QED
      BY <3>2, NoFrames
  <2>7. ~HasProfile(q, id)'
    BY <2>5, <2>6
  <2>8. TypeOK'
    BY DEF GoneInv, ConnInv
  <2>9. profiles'[q] \in Seq(Profile)
    BY <2>8 DEF TypeOK
  <2>. QED
    BY <2>1, <2>7, <2>9, Elements DEF HasProfile
<1>2. Spec => []GoneInv
  BY GoneInvInit, GoneInvNext, PTL DEF Spec
<1>. QED
  BY <1>1, <1>2, PTL DEF Spec, DisconnectedMeansGone

-----------------------------------------------------------------------------
(***************************************************************************)
(* Agreement.  What a connection is left with that only some of its ports  *)
(* have: a notify_connect() is at it, or a disconnect() that starts at its *)
(* first port is about to look for it, or has disconnected that port.      *)
(***************************************************************************)
IsAsked(id) == \E f \in asked : f.id = id
MadeAt(id, p) == \E f \in asked : f.id = id /\ f.at = p
AtFirst(id, p) == \E f \in asked : f.id = id /\ f.list[1] = p

Clears(a, id) ==
  \/ a.pc = "connected" /\ a.id = id /\ a.bad
  \/ /\ a.pc \in Disconnecting /\ AtFirst(id, a.at)
     /\ id \in a.todo \/ (a.pc \in {"copy", "call"} /\ a.id = id)
  \/ a.pc \in {"call", "unsubscribe"} /\ a.id = id /\ a.frames # <<>>

Cleared(id) == \E c \in Clients : Clears(act[c], id)
Making(id) == \E c \in Clients : Makes(c, id)
Failing(id) == Cleared(id) \/ \E c \in Clients : Makes(c, id) /\ Maker(c).bad

\* What the calls are about.
CallsInv ==
  \A c \in Clients :
    /\ act[c].pc \in Disconnecting => \A id \in act[c].todo : IsAsked(id)
    /\ act[c].pc \in {"copy", "call", "unsubscribe"} => IsAsked(act[c].id)
    /\ act[c].pc = "connected" => MadeAt(act[c].id, act[c].at)

\* A notify_connect() and its answer.
AnswerInv(a) ==
  /\ MadeAt(a.id, a.at) /\ a.id \notin cut
  /\ ~a.bad => \A p \in Looked(a) : ~AtLimit(p)
  /\ ~a.bad /\ a.pc = "subscribe" /\ a.id \notin missed =>
       \A n \in 1 .. Len(a.list) :
         n > Len(a.frames) => HasProfile(a.list[n], a.id)

AnswersInv == \A c \in Clients : Maker(c).pc \in Connecting => AnswerInv(Maker(c))

\* A connector without a profile is one that was published on the way.
ConnectorsInv ==
  /\ \A id \in cut : IsAsked(id)
  /\ \A p \in Ports : Distinct(connectors[p])
  /\ \A p \in Ports, id \in Conns :
       HasConnector(p, id) /\ ~HasProfile(p, id) =>
         \/ id \in cut
         \/ \E c \in Clients : Makes(c, id) /\ p \in Looked(Maker(c)) \cap Providers

FirstInv(f) ==
  /\ Cleared(f.id) => ~Making(f.id)
  /\ \A p, q \in LivePorts(f) :
       HasProfile(p, f.id) /\ ~HasProfile(q, f.id) => Making(f.id) \/ Cleared(f.id)
  /\ \A p \in LivePorts(f) :
       HasProfile(p, f.id) /\ ~HasConnector(p, f.id) => Failing(f.id)

FirstsInv == \A f \in asked : f.at = f.list[1] /\ f.id \notin missed => FirstInv(f)

RestInv == GoneInv /\ CallsInv /\ AnswersInv /\ ConnectorsInv /\ FirstsInv

LEMMA RestInvInit == Init => RestInv
<1>. SUFFICES ASSUME Init PROVE RestInv
  OBVIOUS
<1>1. \A c \in Clients : act[c].pc = "idle" /\ Maker(c).pc \notin Connecting
  BY NoFrames DEF Init, Maker, Connecting
<1>2. CallsInv /\ AnswersInv /\ FirstsInv
  BY <1>1 DEF Init, CallsInv, AnswersInv, FirstsInv, Disconnecting
<1>3. ConnectorsInv
  BY DEF Init, ConnectorsInv, Distinct, HasConnector, ToSet
<1>. QED
  BY <1>2, <1>3, GoneInvInit DEF RestInv

LEMMA RestInvDie ==
  ASSUME RestInv, RestInv => GoneInv',
         UNCHANGED <<profiles, connectors, act, outer, asked, cut, missed>>,
         \A q : alive'[q] => alive[q]
  PROVE  RestInv'
<1>1. \A c \in Clients : Maker(c)' = Maker(c)
  BY DEF Maker
<1>2. \A q, id : HasProfile(q, id)' <=> HasProfile(q, id)
  BY DEF HasProfile
<1>3. \A q, id : HasConnector(q, id)' <=> HasConnector(q, id)
  BY DEF HasConnector
<1>4. \A c \in Clients : \A id : Makes(c, id)' <=> Makes(c, id)
  BY <1>1 DEF Makes
<1>5. CallsInv'
  BY DEF RestInv, CallsInv, IsAsked, MadeAt
<1>6. AnswersInv'
  <2>1. ASSUME NEW a
        PROVE  AnswerInv(a)' <=> AnswerInv(a)
    BY <1>2 DEF AnswerInv, MadeAt, Looked, AtLimit
  <2>2. ASSUME NEW c \in Clients, Maker(c).pc' \in Connecting
        PROVE  AnswerInv(Maker(c))'
    <3>1. PICK a : a = Maker(c)
      OBVIOUS
    <3>2. AnswerInv(a)'
      BY <1>1, <2>1, <2>2, <3>1 DEF RestInv, AnswersInv
    <3>3. a = Maker(c)'
      BY <1>1, <3>1
    <3>. QED
      BY <3>2, <3>3 DEF AnswerInv, MadeAt, Looked, AtLimit, HasProfile
  <2>. QED
    BY <2>2 DEF AnswersInv
<1>7. ConnectorsInv'
  BY <1>1, <1>2, <1>3, <1>4 DEF RestInv, ConnectorsInv, IsAsked, Looked
<1>8. ASSUME NEW id
      PROVE  /\ Cleared(id)' <=> Cleared(id)
             /\ Making(id)' <=> Making(id)
             /\ Failing(id)' <=> Failing(id)
  <2>1. Cleared(id)' <=> Cleared(id)
    BY DEF Cleared, Clears, AtFirst
  <2>. QED
    BY <1>1, <1>4, <2>1 DEF Making, Failing
<1>9. FirstsInv'
  BY <1>2, <1>3, <1>8 DEF RestInv, FirstsInv, FirstInv, LivePorts
<1>. QED
  BY <1>5, <1>6, <1>7, <1>9 DEF RestInv

(***************************************************************************)
(* The calls are about connections that were asked for.                    *)
(***************************************************************************)
LEMMA KeptIsAsked ==
  ASSUME ConnInv, NEW p \in Ports, NEW id, HasProfile(p, id)
  PROVE  IsAsked(id)
BY DEF ConnInv, ProfilesInv, HasProfile, Asked, IsAsked

LEMMA AskedGrows ==
  ASSUME ConnInv, NEW c \in Clients, ClientStep(c)
  PROVE  /\ asked \subseteq asked'
         /\ ~Connect(c) => asked' = asked
         /\ \A id : IsAsked(id) => IsAsked(id)'
         /\ \A id, p : MadeAt(id, p) => MadeAt(id, p)'
         /\ \A id, p : AtFirst(id, p) => AtFirst(id, p)'
         /\ ~CallRaises(c) => cut' = cut
<1>1. Connect(c) => asked \subseteq asked' /\ cut' = cut
  BY ConnectEffect
<1>2. ~Connect(c) => asked' = asked
  BY StepKinds, QuietMaker, CallRaisesEffect, GoesMaker
<1>3. ~Connect(c) /\ ~CallRaises(c) => cut' = cut
  BY StepKinds, QuietMaker, GoesMaker
<1>4. asked \subseteq asked'
  BY <1>1, <1>2
<1>. QED
  BY <1>1, <1>2, <1>3, <1>4 DEF IsAsked, MadeAt, AtFirst

LEMMA Answers ==
  ASSUME ConnInv, NEW c \in Clients, ClientStep(c), act'[c].pc = "connected"
  PROVE  /\ CheckFan(c) \/ RefuseDuplicate(c) \/ Subscribe(c)
         /\ act[c].pc \in Connecting /\ Maker(c) = act[c] /\ Maker(c)' = act'[c]
         /\ act'[c].id = act[c].id /\ act'[c].at = act[c].at
         /\ act'[c].list = act[c].list
         /\ CheckFan(c) => act'[c].bad
<1>1. ~Connect(c) /\ ~Disconnects(c) /\ ~CleanUp(c) /\ ~CallRaises(c)
  BY ConnectEffect, DisconnectsEffect, CleanUpEffect, CallRaisesEffect,
     NoFrames
<1>2. ~AllDisconnected(c)
  BY AllDisconnectedEffect, MakerFacts, NoFrames
<1>3. ~Find(c) /\ ~Copy(c) /\ ~SkipDead(c) /\ ~NotifyDisconnect(c)
      /\ ~NotifyUnknown(c) /\ ~Unsubscribe(c)
  BY FindEffect, CopyEffect, SkipDeadEffect, NotifyDisconnectEffect,
     NotifyUnknownEffect, UnsubscribeEffect DEF Returned
<1>4. ~LockPort(c) /\ ~Publish(c)
  BY LockPortEffect, PublishEffect
<1>5. CheckFan(c) \/ RefuseDuplicate(c) \/ Subscribe(c)
  BY <1>1, <1>2, <1>3, <1>4, StepKinds DEF Quiet, Goes
<1>6. SameMaking(c) /\ (CheckFan(c) => act'[c].bad)
  BY <1>5, CheckFanEffect, RefuseDuplicateEffect, SubscribeEffect
<1>7. act[c].pc \in Connecting /\ Maker(c) = act[c]
  BY <1>5, GoesMaker DEF Goes
<1>. QED
  BY <1>5, <1>6, <1>7 DEF SameMaking, Maker

LEMMA CallsInvStep ==
  ASSUME ConnInv, CallsInv, AnswersInv, NEW c \in Clients, ClientStep(c)
  PROVE  CallsInv'
<1>. DEFINE a == act[c]
            b == act'[c]
<1>1. /\ \A d \in Clients \ {c} : act'[d] = act[d]
      /\ \A id : IsAsked(id) => IsAsked(id)'
      /\ \A id, p : MadeAt(id, p) => MadeAt(id, p)'
  BY StepFacts, AskedGrows DEF ConnInv
<1>2. ASSUME b.pc \in Disconnecting, NEW id \in b.todo
      PROVE  IsAsked(id)
  <2>1. ~Connect(c) /\ ~CallRaises(c)
    BY <1>2, ConnectEffect, CallRaisesEffect, NoFrames DEF Disconnecting
  <2>2. CASE Disconnects(c)
    BY <1>2, <2>2, DisconnectsEffect, KeptIsAsked
  <2>3. CASE CleanUp(c)
    BY <1>2, <2>3, CleanUpEffect, NoFrames
       DEF CallsInv, MadeAt, IsAsked, Disconnecting
  <2>4. CASE AllDisconnected(c)
    BY <1>2, <2>4, AllDisconnectedEffect, MakerFacts, NoFrames
       DEF Disconnecting
  <2>5. CASE a.pc \in Disconnecting /\ b.todo \subseteq a.todo
    BY <1>2, <2>5 DEF CallsInv
  <2>6. CASE Find(c)
    BY <2>5, <2>6, FindEffect DEF Disconnecting
  <2>7. CASE Copy(c)
    BY <2>5, <2>7, CopyEffect DEF Disconnecting
  <2>8. CASE SkipDead(c) \/ NotifyDisconnect(c) \/ NotifyUnknown(c)
    BY <2>5, <2>8, SkipDeadEffect, NotifyDisconnectEffect, NotifyUnknownEffect
       DEF Disconnecting, SameChain
  <2>9. CASE Unsubscribe(c)
    BY <2>5, <2>9, UnsubscribeEffect DEF Disconnecting
  <2>10. CASE LockPort(c)
    BY <1>2, <2>10, LockPortEffect, KeptIsAsked DEF Disconnecting
  <2>11. CASE CheckFan(c) \/ RefuseDuplicate(c) \/ Publish(c) \/ Subscribe(c)
    BY <1>2, <2>11, CheckFanEffect, RefuseDuplicateEffect, PublishEffect,
       SubscribeEffect DEF Disconnecting, Unwound
  <2>. QED
    BY <2>1, <2>2, <2>3, <2>4, <2>6, <2>7, <2>8, <2>9, <2>10, <2>11, StepKinds
       DEF Quiet, Goes
<1>3. ASSUME b.pc \in {"copy", "call", "unsubscribe"}
      PROVE  IsAsked(b.id)
  <2>1. CASE Find(c)
    <3>1. a.pc \in Disconnecting /\ b.id \in a.todo
      BY <1>3, <2>1, FindEffect DEF Disconnecting
    <3>. QED
      BY <3>1 DEF CallsInv
  <2>2. CASE Copy(c)
    BY <1>3, <2>2, CopyEffect DEF CallsInv
  <2>3. CASE a.pc \in {"call", "unsubscribe"} /\ b.id = a.id
    BY <2>3 DEF CallsInv
  <2>. QED
    BY <1>3, <2>1, <2>2, <2>3, ChainSteps
<1>4. ASSUME b.pc = "connected"
      PROVE  MadeAt(b.id, b.at)
  BY <1>4, Answers DEF AnswersInv, AnswerInv
<1>. HIDE DEF b
<1>5. ASSUME NEW d \in Clients
      PROVE  /\ act'[d].pc \in Disconnecting =>
                  \A id \in act'[d].todo : IsAsked(id)'
             /\ act'[d].pc \in {"copy", "call", "unsubscribe"} => IsAsked(act[d].id)'
             /\ act'[d].pc = "connected" => MadeAt(act[d].id, act[d].at)'
  <2>1. PICK e : e = act'[d]
    OBVIOUS
  <2>2. /\ e.pc \in Disconnecting => \A id \in e.todo : IsAsked(id)
        /\ e.pc \in {"copy", "call", "unsubscribe"} => IsAsked(e.id)
        /\ e.pc = "connected" => MadeAt(e.id, e.at)
    <3>1. CASE d = c
      BY <1>2, <1>3, <1>4, <2>1, <3>1 DEF b
    <3>2. CASE d # c
      BY <1>1, <2>1, <3>2 DEF CallsInv
    <3>. QED
      BY <3>1, <3>2
  <2>3. /\ e.pc \in Disconnecting => \A id \in e.todo : IsAsked(id)'
        /\ e.pc \in {"copy", "call", "unsubscribe"} => IsAsked(e.id)'
        /\ e.pc = "connected" => MadeAt(e.id, e.at)'
    BY <1>1, <2>2
  <2>. QED
    BY <2>1, <2>3 DEF IsAsked, MadeAt
<1>. QED
  BY <1>5 DEF CallsInv

(***************************************************************************)
(* A port that has looked keeps its profiles until it stores its own.      *)
(***************************************************************************)
LEMMA LookedHeld ==
  ASSUME ConnInv, NEW d \in Clients, NEW p \in Looked(Maker(d))
  PROVE  p \in Ports /\ holder[p] = d /\ p \in ToSet(Maker(d).frames)
BY MakerFacts DEF Looked

LEMMA LookedKept ==
  ASSUME ConnInv, NEW c \in Clients, ClientStep(c), NEW d \in Clients,
         NEW p \in Looked(Maker(d)),
         ~(Subscribe(c) /\ d = c /\ p = Last(act[c].frames))
  PROVE  profiles'[p] = profiles[p]
<1>1. p \in Ports /\ holder[p] = d /\ p \in ToSet(Maker(d).frames)
  BY LookedHeld
<1>2. CASE Subscribe(c)
  <2>1. /\ Last(act[c].frames) \in ToSet(act[c].frames) /\ Last(act[c].frames) \in Ports
        /\ \A q \in Ports \ {Last(act[c].frames)} : profiles'[q] = profiles[q]
    BY <1>2, SubscribeEffect
  <2>2. holder[Last(act[c].frames)] = c
    BY <2>1, CallFacts DEF Holds
  <2>. QED
    BY <1>1, <1>2, <2>1, <2>2
<1>3. CASE Unsubscribe(c)
  <2>1. /\ Last(act[c].frames) \in ToSet(act[c].frames) /\ Last(act[c].frames) \in Ports
        /\ \A q \in Ports \ {Last(act[c].frames)} : profiles'[q] = profiles[q]
        /\ act[c].pc = "unsubscribe"
    BY <1>3, UnsubscribeEffect
  <2>2. holder[Last(act[c].frames)] = c
    BY <2>1, CallFacts DEF Holds
  <2>. SUFFICES ASSUME p = Last(act[c].frames), d = c
                PROVE  FALSE
    BY <1>1, <2>1, <2>2
  <2>3. CASE outer[c] = Idle
    BY <2>1, <2>3 DEF Maker, Looked
  <2>4. CASE outer[c] # Idle
    <3>1. ToSet(act[c].frames) \cap ToSet(outer[c].frames) = {}
      BY <2>4, CallFacts DEF Nested
    <3>. QED
      BY <1>1, <2>1, <2>4, <3>1 DEF Maker
  <2>. QED
    BY <2>3, <2>4
<1>4. CASE ~Subscribe(c) /\ ~Unsubscribe(c)
  BY <1>4, ProfilesSame
<1>. QED
  BY <1>2, <1>3, <1>4

(***************************************************************************)
(* While a connection is made nobody disconnects it behind the call.       *)
(***************************************************************************)
LEMMA NotLostBehind ==
  ASSUME ConnInv, MakersInv, ChainsInv, NEW c \in Clients, ClientStep(c),
         NEW d \in Clients, NEW id, Makes(d, id), id \notin missed,
         NEW q \in Ports, HasProfile(q, id)
  PROVE  HasProfile(q, id)'
<1>. SUFFICES ASSUME ~HasProfile(q, id)'
              PROVE  FALSE
  OBVIOUS
<1>1. Unsubscribe(c) /\ id = act[c].id
  BY ProfileLost
<1>2. act[c].pc = "unsubscribe" /\ act[c].frames # <<>>
  BY <1>1, UnsubscribeEffect
<1>3. ChainInv(act[c])
  BY <1>1, <1>2 DEF ChainsInv, InChain
<1>. QED
  BY <1>1, <1>2, <1>3 DEF ChainInv

LEMMA AnswerKept ==
  ASSUME ConnInv, MakersInv, ChainsInv, NEW c \in Clients, ClientStep(c),
         NEW d \in Clients, NEW b, b = Maker(d), b.pc \in Connecting, AnswerInv(b),
         ~(Subscribe(c) /\ d = c), ~(CallRaises(c) /\ d = c)
  PROVE  AnswerInv(b)'
<1>1. Makes(d, b.id) /\ b.id \in Conns
  BY MakerFacts DEF Makes
<1>2. MadeAt(b.id, b.at)'
  BY AskedGrows DEF AnswerInv
<1>3. b.id \notin cut'
  <2>1. CASE CallRaises(c)
    <3>1. Makes(c, act[c].id) /\ cut' = cut \cup {act[c].id}
      BY <2>1, CallRaisesEffect DEF Makes, Maker, Connecting
    <3>. QED
      BY <1>1, <2>1, <3>1 DEF MakersInv, AnswerInv
  <2>2. CASE ~CallRaises(c)
    BY <2>2, AskedGrows DEF AnswerInv
  <2>. QED
    BY <2>1, <2>2
<1>4. ASSUME ~b.bad, NEW p \in Looked(b)
      PROVE  ~AtLimit(p)'
  <2>1. profiles'[p] = profiles[p]
    BY <1>4, LookedKept
  <2>. QED
    BY <1>4, <2>1 DEF AnswerInv, AtLimit
<1>5. ASSUME ~b.bad, b.pc = "subscribe", b.id \notin missed',
             NEW n \in 1 .. Len(b.list), n > Len(b.frames)
      PROVE  HasProfile(b.list[n], b.id)'
  <2>1. b.id \notin missed
    BY <1>5, StepFacts DEF ConnInv
  <2>2. HasProfile(b.list[n], b.id)
    BY <1>5, <2>1 DEF AnswerInv
  <2>3. b.list[n] \in Ports
    BY MakerFacts, ListFacts
  <2>. QED
    BY <1>1, <2>1, <2>2, <2>3, NotLostBehind
<1>6. (\A p \in Looked(b) : ~AtLimit(p))' <=> \A p \in Looked(b) : ~AtLimit(p)'
  BY DEF Looked
<1>. QED
  BY <1>2, <1>3, <1>4, <1>5, <1>6 DEF AnswerInv

LEMMA AnswerGoes ==
  ASSUME ConnInv, MakersInv, ChainsInv, NEW c \in Clients, Goes(c),
         NEW a, a = act[c], AnswerInv(a), NEW b, b = Maker(c)', b.pc \in Connecting
  PROVE  AnswerInv(b)'
<1>1. /\ ClientStep(c) /\ ~Connect(c) /\ ~CallRaises(c)
      /\ a.pc \in Connecting /\ Maker(c) = a
      /\ b.id = a.id /\ b.list = a.list /\ b.at = a.at /\ UNCHANGED <<cut, missed>>
  <2>1. a.pc \in Connecting /\ Maker(c) = a
        /\ b.id = a.id /\ b.list = a.list /\ b.at = a.at /\ UNCHANGED <<cut, missed>>
    BY GoesMaker
  <2>2. ~Connect(c)
    BY <2>1, ConnectEffect DEF Connecting
  <2>3. ~CallRaises(c)
    BY CallRaisesEffect, NoFrames DEF Maker, Connecting
  <2>. QED
    BY <2>1, <2>2, <2>3, StepKinds
<1>2. /\ MakeInv(a) /\ Shape(a) /\ a.frames \in Seq(Ports) /\ Distinct(a.frames)
      /\ Len(a.frames) \in Nat /\ a.list \in PortLists /\ Makes(c, a.id)
  BY <1>1, MakerFacts, LenProperties DEF MakersInv, Makes
<1>3. MadeAt(b.id, b.at)' /\ b.id \notin cut'
  BY <1>1, AskedGrows DEF AnswerInv
<1>4. ASSUME SameMaking(c)
      PROVE  b = act'[c]
  BY <1>4 DEF SameMaking, Maker
<1>5. ASSUME NEW p \in Looked(a), ~a.bad, ~(Subscribe(c) /\ p = Last(a.frames))
      PROVE  ~AtLimit(p)'
  <2>1. profiles'[p] = profiles[p]
    BY <1>1, <1>5, LookedKept
  <2>. QED
    BY <1>5, <2>1 DEF AnswerInv, AtLimit
<1>6. CASE CheckFan(c)
  <2>1. /\ a.pc = "enter" /\ b = act'[c] /\ b.frames = a.frames
        /\ (b.pc = "lock" /\ b.bad = a.bad) \/ b.bad
    <3>1. /\ a.pc = "enter" /\ SameMaking(c) /\ act'[c].frames = a.frames
          /\ \/ act'[c].pc = "lock" /\ act'[c].bad = a.bad
             \/ act'[c].bad
      BY <1>6, CheckFanEffect
    <3>. QED
      BY <1>4, <3>1
  <2>2. b.bad \/ (Looked(b) = Looked(a) /\ b.pc = "lock" /\ b.bad = a.bad)
    BY <2>1 DEF Looked
  <2>3. ~b.bad => \A p \in Looked(b) : ~AtLimit(p)'
    BY <1>5, <1>6, <2>1, <2>2, SubscribeEffect
  <2>. QED
    BY <1>3, <2>2, <2>3 DEF AnswerInv, Looked
<1>7. CASE LockPort(c)
  <2>. DEFINE p == a.list[a.k]
  <2>1. /\ a.pc = "lock" /\ p \in Ports /\ p \notin ToSet(a.frames)
        /\ b.pc = "dup" /\ b.frames = Append(a.frames, p) /\ b.bad = a.bad
    BY <1>7, LockPortEffect
  <2>2. Looked(b) = ToSet(a.frames) /\ Looked(a) = ToSet(a.frames)
    BY <1>2, <2>1, Appended DEF Looked
  <2>. HIDE DEF p
  <2>3. ~Subscribe(c)
    BY <2>1, SubscribeEffect
  <2>4. ~b.bad => \A q \in Looked(b) : ~AtLimit(q)'
    BY <1>5, <2>1, <2>2, <2>3
  <2>. QED
    BY <1>3, <2>1, <2>4 DEF AnswerInv, Looked
<1>8. CASE RefuseDuplicate(c)
  <2>1. b.bad
    BY <1>4, <1>8, RefuseDuplicateEffect
  <2>. QED
    BY <1>3, <2>1 DEF AnswerInv
<1>9. CASE Publish(c)
  <2>1. PICK p : p = Last(a.frames)
    OBVIOUS
  <2>2. /\ a.pc = "dup" /\ a.k \in 1 .. Len(a.list) /\ b = act'[c]
        /\ b.frames = a.frames /\ UNCHANGED profiles
        /\ b.pc = "enter" \/ (b.pc = "subscribe" /\ a.k = Len(a.list))
        /\ a.bad \/ AtLimit(p) <=> b.bad
    <3>1. /\ a.pc = "dup" /\ a.k \in 1 .. Len(a.list) /\ SameMaking(c)
          /\ UNCHANGED profiles /\ act'[c].frames = a.frames
          /\ \/ act'[c].pc = "enter"
             \/ act'[c].pc = "subscribe" /\ a.k = Len(a.list)
          /\ a.bad \/ AtLimit(p) <=> act'[c].bad
      BY <1>9, <2>1, PublishEffect
    <3>. QED
      BY <1>4, <3>1
  <2>3. Looked(b) = ToSet(a.frames) /\ Looked(a) = ToSet(a.frames) \ {p}
    BY <2>1, <2>2 DEF Looked
  <2>4. ~Subscribe(c)
    BY <2>2, SubscribeEffect
  <2>5. ~b.bad => \A q \in Looked(b) : ~AtLimit(q)'
    BY <1>5, <2>2, <2>3, <2>4 DEF AtLimit
  <2>6. b.pc = "subscribe" => Len(b.frames) = Len(b.list)
    BY <1>1, <1>2, <2>2 DEF MakeInv
  <2>7. b.pc = "subscribe" => \A n \in 1 .. Len(b.list) : ~(n > Len(b.frames))
    BY <1>2, <2>2, <2>6
  <2>. QED
    BY <1>3, <2>5, <2>7 DEF AnswerInv, Looked
<1>10. CASE Subscribe(c)
  <2>1. PICK p : p = Last(a.frames)
    OBVIOUS
  <2>2. /\ a.pc = "subscribe" /\ a.frames # <<>> /\ b = act'[c]
        /\ b.frames = Front(a.frames) /\ b.pc = Unwound(Front(a.frames))
        /\ ~b.bad => ~a.bad
    BY <1>4, <1>10, SubscribeEffect
  <2>3. /\ Len(a.frames) \in Nat \ {0} /\ Len(b.frames) = Len(a.frames) - 1
        /\ p = a.frames[Len(a.frames)] /\ ToSet(b.frames) = ToSet(a.frames) \ {p}
    BY <1>2, <2>1, <2>2, FrontAt
  <2>4. b.pc = "subscribe"
    BY <2>2 DEF Unwound, Connecting
  <2>5. Looked(b) = ToSet(a.frames) \ {p} /\ Looked(a) = ToSet(a.frames)
    BY <2>2, <2>3, <2>4 DEF Looked
  <2>6. ~b.bad => \A q \in Looked(b) : ~AtLimit(q)'
    BY <1>5, <2>1, <2>2, <2>5
  <2>7. ASSUME ~b.bad, a.id \notin missed, NEW n \in 1 .. Len(a.list),
               n > Len(b.frames)
        PROVE  HasProfile(a.list[n], a.id)'
    <3>1. \A q \in Ports : \A id :
            HasProfile(q, id)' <=> HasProfile(q, id) \/ (q = p /\ id = a.id)
      BY <1>10, <2>1, SubscribesNew
    <3>2. a.list[n] \in Ports
      BY <1>2, ListFacts
    <3>3. n = Len(a.frames) \/ n > Len(a.frames)
      BY <2>3, <2>7
    <3>4. CASE n = Len(a.frames)
      <4>1. a.list[n] = p
        BY <1>2, <2>3, <3>4 DEF MakeInv
      <4>. QED
        BY <3>1, <3>2, <4>1
    <3>5. CASE n > Len(a.frames)
      BY <2>2, <2>7, <3>1, <3>2, <3>5 DEF AnswerInv
    <3>. QED
      BY <3>3, <3>4, <3>5
  <2>8. (~b.bad /\ b.pc = "subscribe" /\ b.id \notin missed =>
           \A n \in 1 .. Len(b.list) :
             n > Len(b.frames) => HasProfile(b.list[n], b.id))'
    BY <1>1, <2>7
  <2>. QED
    BY <1>3, <2>6, <2>8 DEF AnswerInv, Looked
<1>. QED
  BY <1>6, <1>7, <1>8, <1>9, <1>10 DEF Goes

LEMMA AnswersInvStep ==
  ASSUME ConnInv, MakersInv, ChainsInv, AnswersInv, ConnectorsInv,
         NEW c \in Clients, ClientStep(c)
  PROVE  AnswersInv'
<1>1. ASSUME NEW d \in Clients, NEW b, b = Maker(d)', b.pc \in Connecting
      PROVE  AnswerInv(b)'
  <2>1. ASSUME b = Maker(d), ~(Subscribe(c) /\ d = c), ~(CallRaises(c) /\ d = c)
        PROVE  AnswerInv(b)'
    BY <1>1, <2>1, AnswerKept DEF AnswersInv
  <2>2. CASE d # c
    BY <1>1, <2>1, <2>2, StepFacts DEF ConnInv
  <2>3. CASE d = c /\ (Quiet(c) \/ Unsubscribe(c))
    <3>1. b = Maker(c)
      BY <1>1, <2>3, QuietMaker DEF MakerKept
    <3>2. CASE Subscribe(c)
      <4>1. Goes(c) /\ Maker(c) = act[c] /\ AnswerInv(act[c])
        BY <1>1, <3>1, <3>2, GoesMaker DEF Goes, AnswersInv
      <4>. QED
        BY <1>1, <2>3, <4>1, AnswerGoes
    <3>3. ~CallRaises(c)
      BY <1>1, <2>3, CallRaisesEffect, NoFrames DEF Maker, Connecting
    <3>. QED
      BY <2>1, <2>3, <3>1, <3>2, <3>3
  <2>4. CASE d = c /\ CallRaises(c)
    BY <1>1, <2>4, CallRaisesEffect, NoFrames DEF Maker, Connecting
  <2>5. CASE d = c /\ Goes(c)
    <3>1. AnswerInv(act[c])
      BY <2>5, GoesMaker DEF AnswersInv
    <3>. QED
      BY <1>1, <2>5, <3>1, AnswerGoes
  <2>6. CASE d = c /\ Connect(c)
    <3>1. PICK e : e = act'[c]
      OBVIOUS
    <3>2. /\ b = e /\ b.pc = "enter" /\ b.frames = <<>>
      BY <1>1, <2>6, <3>1, ConnectsNew
    <3>3. /\ \A f \in asked : f.id # b.id
          /\ asked' = asked \cup {[id |-> b.id, list |-> b.list, at |-> b.at]}
          /\ cut' = cut
      BY <2>6, <3>1, <3>2, ConnectEffect
    <3>4. MadeAt(b.id, b.at)'
      <4>1. PICK f : f = [id |-> b.id, list |-> b.list, at |-> b.at]
        OBVIOUS
      <4>2. f.id = b.id /\ f.at = b.at
        BY <4>1
      <4>3. f \in asked'
        BY <3>3, <4>1
      <4>. QED
        BY <4>2, <4>3 DEF MadeAt
    <3>5. b.id \notin cut'
      BY <3>3 DEF ConnectorsInv, IsAsked
    <3>6. Looked(b) = {}
      BY <3>2, NoFrames DEF Looked
    <3>. QED
      BY <3>2, <3>4, <3>5, <3>6 DEF AnswerInv, Looked
  <2>. QED
    BY <2>2, <2>3, <2>4, <2>5, <2>6, StepKinds
<1>2. ASSUME NEW d \in Clients, Maker(d).pc' \in Connecting
      PROVE  AnswerInv(Maker(d))'
  <2>1. PICK b : b = Maker(d)'
    OBVIOUS
  <2>2. AnswerInv(b)'
    BY <1>1, <1>2, <2>1
  <2>. QED
    BY <2>1, <2>2 DEF AnswerInv, MadeAt, Looked, AtLimit, HasProfile
<1>. QED
  BY <1>2 DEF AnswersInv

(***************************************************************************)
(* The connectors of a port.                                               *)
(***************************************************************************)
LEMMA ConnectorRemoved ==
  ASSUME NEW s \in Seq(Conns), Distinct(s), NEW j \in 1 .. Len(s),
         NEW t, t = RemoveAt(s, j)
  PROVE  Distinct(t) /\ ToSet(t) = ToSet(s) \ {s[j]}
<1>0. Len(s) \in Nat
  BY LenProperties
<1>1. /\ t \in Seq(Conns) /\ Len(t) = Len(s) - 1
      /\ \A i \in 1 .. Len(s) - 1 : t[i] = IF i < j THEN s[i] ELSE s[i + 1]
  BY Removed
<1>2. ToSet(t) = {t[i] : i \in 1 .. Len(t)} /\ ToSet(s) = {s[i] : i \in 1 .. Len(s)}
  BY DEF ToSet
<1>3. ASSUME NEW i \in 1 .. Len(t)
      PROVE  \E k \in 1 .. Len(s) :
               k # j /\ t[i] = s[k] /\ ((i < j /\ k = i) \/ (~(i < j) /\ k = i + 1))
  <2>1. CASE i < j
    BY <1>0, <1>1, <2>1
  <2>2. CASE ~(i < j)
    <3>1. i + 1 \in 1 .. Len(s) /\ i + 1 # j /\ t[i] = s[i + 1]
      BY <1>0, <1>1, <2>2
    <3>. QED
      BY <2>2, <3>1
  <2>. QED
    BY <2>1, <2>2
<1>4. ASSUME NEW k \in 1 .. Len(s), k # j
      PROVE  \E i \in 1 .. Len(t) : t[i] = s[k]
  <2>1. CASE k < j
    <3>1. k \in 1 .. Len(t) /\ t[k] = s[k]
      BY <1>0, <1>1, <2>1
    <3>. QED
      BY <3>1
  <2>2. CASE ~(k < j)
    <3>1. k - 1 \in 1 .. Len(t) /\ ~(k - 1 < j) /\ (k - 1) + 1 = k
      BY <1>0, <1>1, <1>4, <2>2
    <3>2. t[k - 1] = s[k]
      BY <1>1, <3>1
    <3>. QED
      BY <3>1, <3>2
  <2>. QED
    BY <2>1, <2>2
<1>5. Distinct(t)
  <2>. SUFFICES ASSUME NEW i \in 1 .. Len(t), NEW h \in 1 .. Len(t), t[i] = t[h]
                PROVE  i = h
    BY DEF Distinct
  <2>1. PICK k \in 1 .. Len(s) :
          t[i] = s[k] /\ ((i < j /\ k = i) \/ (~(i < j) /\ k = i + 1))
    BY <1>3
  <2>2. PICK m \in 1 .. Len(s) :
          t[h] = s[m] /\ ((h < j /\ m = h) \/ (~(h < j) /\ m = h + 1))
    BY <1>3
  <2>3. k = m
    BY <2>1, <2>2 DEF Distinct
  <2>. QED
    BY <1>0, <1>1, <2>1, <2>2, <2>3
<1>6. \A x \in ToSet(t) : x \in ToSet(s) /\ x # s[j]
  BY <1>2, <1>3 DEF Distinct
<1>7. \A x \in ToSet(s) : x # s[j] => x \in ToSet(t)
  BY <1>2, <1>4
<1>. QED
  BY <1>5, <1>6, <1>7

LEMMA NoConnectorYet ==
  ASSUME ConnInv, MakersInv, AnswersInv, ConnectorsInv, NEW c \in Clients,
         NEW p, p = Last(act[c].frames),
         Publish(c) \/ (Subscribe(c) /\ p \notin Providers)
  PROVE  /\ p \in Ports /\ act[c].id \in Conns
         /\ connectors[p] \in Seq(Conns) /\ Distinct(connectors[p])
         /\ ~HasConnector(p, act[c].id)
<1>. DEFINE a == act[c]
<1>1. /\ Goes(c) /\ Maker(c) = a /\ a.pc \in Connecting /\ Makes(c, a.id)
      /\ AnswerInv(a) /\ MakeInv(a) /\ a.id \in Conns
  BY GoesMaker, MakerFacts DEF Goes, Makes, AnswersInv, MakersInv
<1>2. p \in Ports
  BY PublishEffect, SubscribeEffect
<1>3. ~HasProfile(p, a.id)
  BY <1>1, <1>2, PublishEffect, SubscribesNew DEF MakeInv
<1>4. Publish(c) => p \notin Looked(a)
  BY PublishEffect DEF Looked
<1>5. ~HasConnector(p, a.id)
  <2>. SUFFICES ASSUME HasConnector(p, a.id)
                PROVE  FALSE
    OBVIOUS
  <2>1. PICK d \in Clients : Makes(d, a.id) /\ p \in Looked(Maker(d)) \cap Providers
    BY <1>1, <1>2, <1>3 DEF ConnectorsInv, AnswerInv
  <2>2. d = c
    BY <1>1, <2>1 DEF MakersInv
  <2>. QED
    BY <1>1, <1>4, <2>1, <2>2
<1>. QED
  BY <1>1, <1>2, <1>5 DEF ConnectorsInv, ConnInv, TypeOK

LEMMA ConnectorsChange ==
  ASSUME ConnInv, MakersInv, AnswersInv, ConnectorsInv, NEW c \in Clients,
         ClientStep(c), NEW q \in Ports, NEW p, p = Last(act[c].frames)
  PROVE  /\ Distinct(connectors'[q])
         /\ \A id : HasConnector(q, id)' /\ ~HasConnector(q, id) =>
              /\ id = act[c].id /\ q = p
              /\ (Publish(c) /\ q \in Providers) \/ (Subscribe(c) /\ q \notin Providers)
         /\ \A id : HasConnector(q, id) /\ ~HasConnector(q, id)' =>
              Unsubscribe(c) /\ id = act[c].id /\ q = p
         /\ Unsubscribe(c) /\ q = p => act[c].id \notin ToSet(connectors'[q])
<1>1. connectors[q] \in Seq(Conns) /\ Distinct(connectors[q])
  BY DEF ConnInv, TypeOK, ConnectorsInv
<1>2. \A id : /\ HasConnector(q, id)' <=> id \in ToSet(connectors'[q])
              /\ HasConnector(q, id) <=> id \in ToSet(connectors[q])
  BY DEF HasConnector
<1>3. CASE connectors'[q] = connectors[q] /\ ~(Unsubscribe(c) /\ q = p)
  BY <1>1, <1>2, <1>3
<1>4. CASE /\ q = p /\ connectors'[q] = Append(connectors[q], act[c].id)
           /\ (Publish(c) /\ q \in Providers) \/ (Subscribe(c) /\ q \notin Providers)
  <2>1. act[c].id \notin ToSet(connectors[q]) /\ act[c].id \in Conns
    BY <1>2, <1>4, NoConnectorYet
  <2>2. /\ Distinct(connectors'[q])
        /\ ToSet(connectors'[q]) = ToSet(connectors[q]) \cup {act[c].id}
    BY <1>1, <1>4, <2>1, Appended
  <2>3. ~Unsubscribe(c)
    BY <1>4, PublishEffect, SubscribeEffect, UnsubscribeEffect
  <2>. QED
    BY <1>2, <1>4, <2>2, <2>3
<1>5. CASE Unsubscribe(c) /\ q = p
  <2>1. \/ /\ \A j \in 1 .. Len(connectors[q]) : connectors[q][j] # act[c].id
           /\ connectors'[q] = connectors[q]
        \/ \E j \in 1 .. Len(connectors[q]) :
             /\ connectors[q][j] = act[c].id
             /\ connectors'[q] = RemoveAt(connectors[q], j)
    BY <1>5, UnsubscribeEffect
  <2>2. /\ Distinct(connectors'[q])
        /\ ToSet(connectors'[q]) = ToSet(connectors[q]) \ {act[c].id}
    <3>1. CASE /\ \A j \in 1 .. Len(connectors[q]) : connectors[q][j] # act[c].id
               /\ connectors'[q] = connectors[q]
      <4>1. ToSet(connectors[q]) = {connectors[q][j] : j \in 1 .. Len(connectors[q])}
        BY <1>1, Elements
      <4>. QED
        BY <1>1, <3>1, <4>1
    <3>2. ASSUME NEW j \in 1 .. Len(connectors[q]), connectors[q][j] = act[c].id,
                 connectors'[q] = RemoveAt(connectors[q], j)
          PROVE  /\ Distinct(connectors'[q])
                 /\ ToSet(connectors'[q]) = ToSet(connectors[q]) \ {act[c].id}
      BY <1>1, <3>2, ConnectorRemoved
    <3>. QED
      BY <2>1, <3>1, <3>2
  <2>. QED
    BY <1>2, <1>5, <2>2
<1>6. CASE Publish(c) \/ Subscribe(c)
  BY <1>3, <1>4, <1>6, PublishEffect, SubscribeEffect, UnsubscribeEffect
<1>7. CASE Unsubscribe(c) /\ q # p
  BY <1>3, <1>7, UnsubscribeEffect
<1>8. CASE ~Publish(c) /\ ~Subscribe(c) /\ ~Unsubscribe(c)
  <2>1. connectors' = connectors
    BY <1>8, StepKinds, ConnectEffect, QuietPorts, CallRaisesEffect,
       CheckFanEffect,
       LockPortEffect, RefuseDuplicateEffect DEF Goes
  <2>. QED
    BY <1>3, <1>8, <2>1
<1>. QED
  BY <1>5, <1>6, <1>7, <1>8

LEMMA LookedGoes ==
  ASSUME ConnInv, MakersInv, NEW c \in Clients, Goes(c), NEW q \in Looked(act[c]),
         ~(Subscribe(c) /\ q = Last(act[c].frames)), NEW b, b = Maker(c)'
  PROVE  b.pc \in Connecting /\ q \in Looked(b)
<1>. DEFINE a == act[c]
<1>1. /\ a.frames \in Seq(Ports) /\ Distinct(a.frames) /\ a.pc \in Connecting
  BY CallFacts, GoesMaker
<1>2. SameMaking(c) => b = act'[c]
  BY DEF SameMaking, Maker
<1>3. a.frames # <<>> => ToSet(Front(a.frames)) = ToSet(a.frames) \ {Last(a.frames)}
  BY <1>1, FrontAt
<1>4. CASE CheckFan(c)
  <2>1. /\ a.pc = "enter" /\ b = act'[c] /\ b.frames = a.frames
        /\ b.pc = "lock" \/ b.pc = Unwound(a.frames)
    BY <1>2, <1>4, CheckFanEffect
  <2>2. q \in ToSet(a.frames) /\ a.frames # <<>>
    BY <2>1, NoFrames DEF Looked
  <2>. QED
    BY <2>1, <2>2 DEF Unwound, Looked, Connecting
<1>5. CASE LockPort(c)
  <2>. DEFINE p == a.list[a.k]
  <2>1. /\ a.pc = "lock" /\ p \in Ports /\ p \notin ToSet(a.frames)
        /\ b.pc = "dup" /\ b.frames = Append(a.frames, p)
    BY <1>5, LockPortEffect
  <2>2. Looked(b) = ToSet(a.frames) /\ Looked(a) = ToSet(a.frames)
    BY <1>1, <2>1, Appended DEF Looked
  <2>. QED
    BY <2>1, <2>2 DEF Connecting
<1>6. CASE RefuseDuplicate(c)
  <2>1. /\ a.pc = "dup" /\ a.frames # <<>> /\ b = act'[c]
        /\ b.frames = Front(a.frames) /\ b.pc = Unwound(Front(a.frames))
    BY <1>2, <1>6, RefuseDuplicateEffect
  <2>2. q \in ToSet(Front(a.frames))
    BY <1>3, <2>1 DEF Looked
  <2>. QED
    BY <2>1, <2>2, NoFrames DEF Unwound, Looked, Connecting
<1>7. CASE Publish(c)
  <2>1. /\ a.pc = "dup" /\ b = act'[c] /\ b.frames = a.frames
        /\ b.pc \in {"enter", "subscribe"}
    BY <1>2, <1>7, PublishEffect
  <2>. QED
    BY <2>1 DEF Looked, Connecting
<1>8. CASE Subscribe(c)
  <2>1. /\ a.pc = "subscribe" /\ a.frames # <<>> /\ b = act'[c]
        /\ b.frames = Front(a.frames) /\ b.pc = Unwound(Front(a.frames))
    BY <1>2, <1>8, SubscribeEffect
  <2>2. q \in ToSet(Front(a.frames))
    BY <1>3, <1>8, <2>1 DEF Looked
  <2>. QED
    BY <2>1, <2>2, NoFrames DEF Unwound, Looked, Connecting
<1>. QED
  BY <1>4, <1>5, <1>6, <1>7, <1>8 DEF Goes

LEMMA ConnectorsInvStep ==
  ASSUME ConnInv, MakersInv, AnswersInv, ConnectorsInv,
         NEW c \in Clients, ClientStep(c)
  PROVE  ConnectorsInv'
<1>1. ASSUME NEW id \in cut'
      PROVE  IsAsked(id)'
  <2>1. CASE CallRaises(c)
    <3>1. IsAsked(act[c].id)
      BY <2>1, CallRaisesEffect, CallFacts
         DEF Shape, Asked, IsAsked, Connecting
    <3>2. id \in cut \/ id = act[c].id
      BY <1>1, <2>1, CallRaisesEffect
    <3>. QED
      BY <3>1, <3>2, AskedGrows DEF ConnectorsInv
  <2>2. CASE ~CallRaises(c)
    BY <1>1, <2>2, AskedGrows DEF ConnectorsInv
  <2>. QED
    BY <2>1, <2>2
<1>2. \A p \in Ports : Distinct(connectors'[p])
  BY ConnectorsChange
<1>3. ASSUME NEW q \in Ports, NEW id \in Conns, HasConnector(q, id)',
             ~HasProfile(q, id)', id \notin cut'
      PROVE  \E d \in Clients : \E b : /\ b = Maker(d)' /\ b.pc \in Connecting
                                       /\ b.id = id /\ q \in Looked(b) \cap Providers
  <2>1. PICK p : p = Last(act[c].frames)
    OBVIOUS
  <2>2. id \notin cut
    BY <1>3, StepFacts DEF ConnInv
  <2>3. CASE ~HasConnector(q, id)
    <3>1. /\ id = act[c].id /\ q = p
          /\ (Publish(c) /\ q \in Providers) \/ (Subscribe(c) /\ q \notin Providers)
      BY <1>3, <2>1, <2>3, ConnectorsChange
    <3>2. Publish(c)
      BY <1>3, <2>1, <3>1, SubscribesNew
    <3>3. PICK b : b = act'[c]
      OBVIOUS
    <3>4. /\ b = Maker(c)' /\ b.id = id
      BY <2>1, <3>1, <3>2, <3>3, PublishEffect DEF SameMaking, Maker
    <3>5. /\ b.pc \in {"enter", "subscribe"} /\ q \in ToSet(b.frames)
      BY <2>1, <3>1, <3>2, <3>3, PublishEffect
    <3>. QED
      BY <3>1, <3>2, <3>4, <3>5, SubscribeEffect, PublishEffect
         DEF Looked, Connecting
  <2>4. CASE HasConnector(q, id) /\ HasProfile(q, id)
    <3>1. Unsubscribe(c) /\ id = act[c].id /\ q = p
      BY <1>3, <2>1, <2>4, ProfileLost
    <3>2. id \notin ToSet(connectors'[q])
      BY <2>1, <3>1, ConnectorsChange
    <3>. QED
      BY <1>3, <3>2 DEF HasConnector
  <2>5. CASE HasConnector(q, id) /\ ~HasProfile(q, id)
    <3>1. PICK d \in Clients : Makes(d, id) /\ q \in Looked(Maker(d)) \cap Providers
      BY <2>2, <2>5 DEF ConnectorsInv
    <3>2. PICK b : b = Maker(d)'
      OBVIOUS
    <3>3. CASE Maker(d)' = Maker(d)
      BY <3>1, <3>2, <3>3 DEF Makes
    <3>4. CASE d # c
      BY <3>3, <3>4, StepFacts DEF ConnInv
    <3>5. CASE d = c /\ (Quiet(c) \/ Unsubscribe(c))
      BY <3>1, <3>3, <3>5, QuietMaker DEF MakerKept, Makes
    <3>6. CASE d = c /\ Connect(c)
      BY <3>1, <3>6, ConnectEffect, MakerFacts
         DEF Makes, Disconnecting, Connecting
    <3>7. CASE d = c /\ CallRaises(c)
      BY <1>3, <3>1, <3>7, CallRaisesEffect DEF Makes, Maker
    <3>8. CASE d = c /\ Goes(c)
      <4>1. Maker(c) = act[c] /\ b.id = act[c].id
        BY <3>2, <3>8, GoesMaker
      <4>2. act[c].id = id /\ q \in Looked(act[c])
        BY <3>1, <3>8, <4>1 DEF Makes
      <4>3. ~(Subscribe(c) /\ q = Last(act[c].frames))
        BY <1>3, <2>1, <4>2, SubscribesNew
      <4>4. b.pc \in Connecting /\ q \in Looked(b)
        BY <3>2, <3>8, <4>2, <4>3, LookedGoes
      <4>. QED
        BY <3>1, <3>2, <4>1, <4>2, <4>4
    <3>. QED
      BY <3>4, <3>5, <3>6, <3>7, <3>8, StepKinds
  <2>. QED
    BY <2>3, <2>4, <2>5
<1>4. (\A p \in Ports, id \in Conns :
         HasConnector(p, id) /\ ~HasProfile(p, id) =>
           \/ id \in cut
           \/ \E d \in Clients : Makes(d, id) /\ p \in Looked(Maker(d)) \cap Providers)'
  <2>. SUFFICES ASSUME NEW q \in Ports, NEW id \in Conns, HasConnector(q, id)',
                       ~HasProfile(q, id)', id \notin cut'
                PROVE  (\E d \in Clients : Makes(d, id)
                                           /\ q \in Looked(Maker(d)) \cap Providers)'
    OBVIOUS
  <2>1. PICK d \in Clients : \E b : /\ b = Maker(d)' /\ b.pc \in Connecting
                                    /\ b.id = id /\ q \in Looked(b) \cap Providers
    BY <1>3
  <2>. QED
    BY <2>1 DEF Makes, Looked
<1>. QED
  BY <1>1, <1>2, <1>4 DEF ConnectorsInv

(***************************************************************************)
(* What a call does next.                                                  *)
(***************************************************************************)
LEMMA StepsAt ==
  ASSUME ConnInv, NEW c \in Clients, ClientStep(c)
  PROVE  /\ act[c].pc = "idle" => Connect(c) \/ Disconnects(c)
         /\ act[c].pc \in Connecting => CallRaises(c) \/ Goes(c)
         /\ act[c].pc = "connected" => CleanUp(c)
         /\ act[c].pc = "next" => Find(c) \/ AllDisconnected(c)
         /\ act[c].pc = "copy" => Copy(c)
         /\ act[c].pc = "call" => SkipDead(c) \/ NotifyDisconnect(c) \/ NotifyUnknown(c)
         /\ act[c].pc = "unsubscribe" => Unsubscribe(c)
<1>1. /\ Connect(c) \/ Disconnects(c) => act[c].pc = "idle"
      /\ CleanUp(c) => act[c].pc = "connected"
      /\ CallRaises(c) \/ Goes(c) => act[c].pc \in Connecting
  BY ConnectEffect, DisconnectsEffect, CleanUpEffect, CallRaisesEffect,
     GoesMaker
     DEF Connecting
<1>2. /\ Find(c) \/ AllDisconnected(c) => act[c].pc = "next"
      /\ Copy(c) => act[c].pc = "copy"
      /\ SkipDead(c) \/ NotifyDisconnect(c) \/ NotifyUnknown(c) => act[c].pc = "call"
      /\ Unsubscribe(c) => act[c].pc = "unsubscribe"
  BY FindEffect, AllDisconnectedEffect, CopyEffect, SkipDeadEffect,
     NotifyDisconnectEffect, NotifyUnknownEffect, UnsubscribeEffect
<1>. QED
  BY <1>1, <1>2, StepKinds DEF Quiet, Connecting

(***************************************************************************)
(* A connection made at the first port of its list.                        *)
(***************************************************************************)
MadeFirst(id, l) == Asked(id, l) /\ MadeAt(id, l[1])

NoneHas(id) == \A q \in Ports : alive[q] => ~HasProfile(q, id)

LEMMA MadeFirstFacts ==
  ASSUME ConnInv, NEW id, NEW l, MadeFirst(id, l)
  PROVE  /\ id \in Conns /\ l \in PortLists /\ l \in Seq(Ports) /\ Distinct(l)
         /\ Len(l) \in Nat \ {0} /\ l[1] \in Ports /\ 1 \in 1 .. Len(l)
         /\ \A n \in 1 .. Len(l) : l[n] \in Ports
         /\ \A p : MadeAt(id, p) => p = l[1]
         /\ \A p : AtFirst(id, p) <=> p = l[1]
         /\ \A q \in Ports : HasProfile(q, id) => \E j \in 1 .. Len(l) : l[j] = q
<1>1. id \in Conns /\ l \in PortLists
  BY AskedIds DEF MadeFirst, ConnInv
<1>2. /\ l \in Seq(Ports) /\ Len(l) \in Nat \ {0} /\ Distinct(l)
      /\ \A n \in 1 .. Len(l) : l[n] \in Ports
      /\ \A p : p \in ToSet(l) <=> \E i \in 1 .. Len(l) : l[i] = p
  BY <1>1, ListFacts
<1>3. 1 \in 1 .. Len(l)
  BY <1>2
<1>4. \A f, g \in asked : f.id = g.id => f = g
  BY DEF ConnInv, ProfilesInv
<1>5. \A p : MadeAt(id, p) => p = l[1]
  BY <1>4 DEF MadeFirst, MadeAt
<1>6. \A p : AtFirst(id, p) <=> p = l[1]
  BY <1>4 DEF MadeFirst, AtFirst, Asked
<1>7. \A q \in Ports : HasProfile(q, id) => q \in ToSet(l)
  BY KeptFacts DEF MadeFirst
<1>. QED
  BY <1>1, <1>2, <1>3, <1>5, <1>6, <1>7

LEMMA FirstLast ==
  ASSUME ConnInv, MakersInv, NEW d \in Clients, NEW id, NEW l, Asked(id, l),
         Makes(d, id)
  PROVE  ~HasProfile(l[1], id)
<1>. DEFINE a == Maker(d)
<1>1. /\ a.frames \in Seq(Ports) /\ l \in PortLists /\ Shape(a) /\ MakeInv(a)
      /\ a.id = id /\ a.pc \in Connecting
      /\ \A n \in 1 .. Len(a.frames) : a.frames[n] = l[n]
  BY MakerAt, MakerFacts DEF Makes, MakersInv
<1>2. l[1] \in Ports
  <2>1. 1 \in 1 .. Len(l)
    BY <1>1, ListFacts
  <2>. QED
    BY <1>1, <2>1, ListFacts
<1>3. CASE a.pc = "subscribe"
  <2>1. 1 \in 1 .. Len(a.frames)
    BY <1>1, <1>3, EmptySeq, LenProperties DEF Shape
  <2>2. l[1] \in ToSet(a.frames)
    BY <1>1, <2>1, Elements
  <2>. QED
    BY <1>1, <1>3, <2>2 DEF MakeInv
<1>. QED
  BY <1>1, <1>2, <1>3 DEF MakeInv

\* A first port that does not have the connection is the last one to lose it.
LEMMA FirstGone ==
  ASSUME ConnInv, DownInv, NEW id, NEW l, MadeFirst(id, l), id \notin missed,
         ~Making(id), alive[l[1]], ~HasProfile(l[1], id)
  PROVE  NoneHas(id)
<1>. SUFFICES ASSUME NEW q \in Ports, alive[q], HasProfile(q, id)
              PROVE  FALSE
  BY DEF NoneHas
<1>1. PICK j \in 1 .. Len(l) : l[j] = q
  BY MadeFirstFacts
<1>2. 1 \in 1 .. Len(l) /\ Len(l) \in Nat /\ j # 1
  BY <1>1, MadeFirstFacts
<1>3. 1 < j
  BY <1>2
<1>4. Down(id, l)
  BY DEF DownInv, MadeFirst, Asked
<1>. QED
  BY <1>1, <1>2, <1>3, <1>4 DEF Down, Making

LEMMA NoneStays ==
  ASSUME ConnInv, NEW c \in Clients, ClientStep(c), ~Subscribe(c), ~Unsubscribe(c),
         NEW id, NoneHas(id)
  PROVE  NoneHas(id)'
BY ProfilesSame, StepFacts DEF NoneHas, ConnInv

LEMMA ClearsStep ==
  ASSUME ConnInv, MakersInv, AliveInv, DownInv, ChainsInv, CallsInv,
         NEW c \in Clients, ClientStep(c), NEW id, NEW l, MadeFirst(id, l),
         id \notin missed', ~Making(id),
         NEW a, a = act[c], NEW b, b = act'[c], Clears(a, id)
  PROVE  Clears(b, id) \/ NoneHas(id)'
<1>0. id \notin missed
  BY StepFacts DEF ConnInv
<1>1. /\ \A p : MadeAt(id, p) => p = l[1]
      /\ \A p : AtFirst(id, p) <=> p = l[1]
      /\ Len(l) \in Nat \ {0}
  BY MadeFirstFacts
<1>2. a.pc # "idle" => alive[a.at]
  BY DEF AliveInv, Lives
<1>3. ASSUME a.pc \in {"call", "unsubscribe"}, a.id = id
      PROVE  ChainInv(a) /\ a.list = l
  <2>1. ChainInv(a)
    BY <1>0, <1>3 DEF ChainsInv, InChain
  <2>. QED
    BY <2>1, <1>3, OneAsked DEF ChainInv, ConnInv, MadeFirst
<1>4. CASE a.pc = "connected" /\ a.id = id /\ a.bad
  <2>1. CleanUp(c)
    BY <1>4, StepsAt
  <2>2. b.pc = "next" /\ b.at = a.at /\ b.todo = {id}
    BY <1>4, <2>1, CleanUpEffect
  <2>3. a.at = l[1]
    BY <1>1, <1>4 DEF CallsInv
  <2>. QED
    BY <1>1, <2>2, <2>3 DEF Clears, Disconnecting
<1>5. CASE a.pc \in Disconnecting /\ a.at = l[1] /\ id \in a.todo
  <2>1. ASSUME b.pc \in Disconnecting, b.at = a.at, id \in b.todo
        PROVE  Clears(b, id)
    BY <1>1, <1>5, <2>1 DEF Clears
  <2>2. CASE a.pc = "next"
    <3>1. Find(c)
      BY <1>5, <2>2, StepsAt, AllDisconnectedEffect
    <3>2. PICK x \in a.todo :
            /\ b.todo = a.todo \ {x} /\ b.at = a.at
            /\ \/ ~HasProfile(a.at, x) /\ b.pc = "next"
               \/ b.pc = "copy" /\ b.id = x
      BY <3>1, FindEffect DEF Keeps
    <3>3. CASE x = id /\ b.pc = "next" /\ ~HasProfile(a.at, x)
      <4>1. NoneHas(id)
        BY <1>0, <1>2, <1>5, <2>2, <3>3, FirstGone
      <4>2. ~Subscribe(c) /\ ~Unsubscribe(c)
        BY <2>2, SubscribeEffect, UnsubscribeEffect
      <4>. QED
        BY <4>1, <4>2, NoneStays
    <3>4. CASE x = id /\ b.pc = "copy"
      BY <1>1, <1>5, <3>2, <3>4 DEF Clears, Disconnecting
    <3>5. CASE x # id
      BY <1>5, <2>1, <3>2, <3>5 DEF Disconnecting
    <3>. QED
      BY <3>2, <3>3, <3>4, <3>5
  <2>3. CASE a.pc = "copy"
    BY <1>5, <2>1, <2>3, StepsAt, CopyEffect DEF Keeps, Disconnecting
  <2>4. CASE a.pc = "call"
    BY <1>5, <2>1, <2>4, StepsAt, SkipDeadEffect, NotifyDisconnectEffect,
       NotifyUnknownEffect DEF SameChain, Keeps, Disconnecting, Returned
  <2>5. CASE a.pc = "unsubscribe"
    BY <1>5, <2>1, <2>5, StepsAt, UnsubscribeEffect DEF Disconnecting, Returned
  <2>. QED
    BY <1>5, <2>2, <2>3, <2>4, <2>5 DEF Disconnecting
<1>6. CASE a.pc = "copy" /\ a.id = id /\ a.at = l[1]
  <2>1. Copy(c)
    BY <1>6, StepsAt
  <2>2. b.pc = "call" /\ b.id = id /\ b.at = l[1]
    BY <1>6, <2>1, CopyEffect DEF Keeps
  <2>. QED
    BY <1>1, <2>2 DEF Clears, Disconnecting
<1>7. CASE a.pc = "call" /\ a.id = id /\ (a.at = l[1] \/ a.frames # <<>>)
  <2>1. b.id = id /\ b.at = a.at /\ ~Subscribe(c) /\ ~Unsubscribe(c)
    BY <1>7, StepsAt, SkipDeadEffect, NotifyDisconnectEffect,
       NotifyUnknownEffect,
       SubscribeEffect, UnsubscribeEffect DEF SameChain, Keeps
  <2>2. CASE NotifyDisconnect(c)
    <3>1. PICK p \in Ports : b.frames = Append(a.frames, p)
      BY <2>2, NotifyDisconnectEffect
    <3>2. b.frames # <<>>
      BY <3>1, CallFacts, AppendProperties
    <3>3. b.pc \in {"call", "unsubscribe"}
      BY <2>2, NotifyDisconnectEffect
    <3>. QED
      BY <2>1, <3>2, <3>3 DEF Clears
  <2>3. CASE ~NotifyDisconnect(c) /\ (b.pc = "call" \/ a.frames # <<>>)
    <3>1. b.frames = a.frames /\ (b.pc = "call" \/ b.pc = Returned(a.frames))
      BY <1>7, <2>3, StepsAt, SkipDeadEffect, NotifyUnknownEffect
    <3>2. CASE a.frames # <<>>
      BY <2>1, <3>1, <3>2 DEF Clears, Returned
    <3>3. CASE a.frames = <<>>
      BY <1>1, <1>7, <2>1, <2>3, <3>3 DEF Clears, Disconnecting
    <3>. QED
      BY <3>2, <3>3
  <2>4. CASE ~NotifyDisconnect(c) /\ b.pc # "call" /\ a.frames = <<>>
    <3>1. ChainInv(a) /\ a.list = l /\ a.at = l[1] /\ alive[l[1]]
      BY <1>2, <1>3, <1>7, <2>4
    <3>2. a.k \in 1 .. Len(l)
      BY <1>7, <2>4, <3>1, StepsAt, SkipDeadEffect, NotifyUnknownEffect
    <3>3. a.k = 1
      <4>1. 1 \in 1 .. Len(l) /\ l[1] \notin ToSet(a.frames)
        BY <1>1, <2>4, NoFrames
      <4>2. ~(1 < a.k)
        BY <1>7, <3>1, <4>1 DEF ChainInv
      <4>. QED
        BY <1>1, <3>2, <4>2
    <3>4. ~SkipDead(c)
      BY <3>1, <3>3, SkipDeadEffect
    <3>5. ~HasProfile(l[1], id)
      BY <1>7, <2>4, <3>1, <3>3, <3>4, StepsAt, NotifyUnknownEffect
    <3>6. NoneHas(id)
      BY <1>0, <3>1, <3>5, FirstGone
    <3>. QED
      BY <2>1, <3>6, NoneStays
  <2>. QED
    BY <2>2, <2>3, <2>4
<1>8. CASE a.pc = "unsubscribe" /\ a.id = id /\ a.frames # <<>>
  <2>1. Unsubscribe(c)
    BY <1>8, StepsAt
  <2>2. /\ b.id = id /\ b.frames = Front(a.frames) /\ b.pc = Returned(Front(a.frames))
        /\ alive' = alive
    BY <1>8, <2>1, UnsubscribeEffect
  <2>3. CASE Front(a.frames) # <<>>
    BY <2>2, <2>3 DEF Clears, Returned
  <2>4. CASE Front(a.frames) = <<>>
    <3>1. PICK p : p = Last(a.frames)
      OBVIOUS
    <3>2. \A q \in Ports : alive[q] /\ HasProfile(q, id)' => q \in ToSet(a.frames) \ {p}
      BY <1>3, <1>8, <2>1, <3>1, UnsubscribeChain
    <3>3. ToSet(a.frames) \ {p} = {}
      <4>1. ToSet(Front(a.frames)) = ToSet(a.frames) \ {p}
        BY <1>8, <3>1, CallFacts, FrontAt
      <4>. QED
        BY <2>4, <4>1, NoFrames
    <3>. QED
      BY <2>2, <3>2, <3>3 DEF NoneHas
  <2>. QED
    BY <2>3, <2>4
<1>. QED
  BY <1>1, <1>4, <1>5, <1>6, <1>7, <1>8 DEF Clears

LEMMA ClearedStep ==
  ASSUME ConnInv, MakersInv, AliveInv, DownInv, ChainsInv, CallsInv,
         NEW c \in Clients, ClientStep(c), NEW id, NEW l, MadeFirst(id, l),
         id \notin missed', ~Making(id), Cleared(id)
  PROVE  Cleared(id)' \/ NoneHas(id)'
<1>1. PICK d \in Clients : Clears(act[d], id)
  BY DEF Cleared
<1>2. PICK b : b = act'[d]
  OBVIOUS
<1>3. Clears(b, id) \/ NoneHas(id)'
  <2>1. CASE d = c
    BY <1>1, <1>2, <2>1, ClearsStep
  <2>2. CASE d # c
    BY <1>1, <1>2, <2>2, StepFacts DEF ConnInv
  <2>. QED
    BY <2>1, <2>2
<1>4. Clears(b, id) => Clears(b, id)'
  BY AskedGrows DEF Clears
<1>. QED
  BY <1>2, <1>3, <1>4 DEF Cleared, Clears, AtFirst

LEMMA ClearsNow ==
  ASSUME NEW d \in Clients, NEW b, b = act'[d], NEW id, Clears(b, id),
         \A p : AtFirst(id, p) => AtFirst(id, p)'
  PROVE  Cleared(id)'
<1>1. Clears(b, id)'
  BY DEF Clears
<1>. QED
  BY <1>1 DEF Cleared, Clears, AtFirst

(***************************************************************************)
(* A notify_connect() ends with all ports connected, or none, or is        *)
(* cleaned up.                                                             *)
(***************************************************************************)
LEMMA MakerGoes ==
  ASSUME ConnInv, NEW c \in Clients, Goes(c), NEW b, b = Maker(c)'
  PROVE  /\ b.id = act[c].id
         /\ \/ b.pc \in Connecting
            \/ /\ b.pc = "connected" /\ b = act'[c]
               /\ CheckFan(c) \/ RefuseDuplicate(c) \/ Subscribe(c)
         /\ act[c].bad => b.bad
<1>1. SameMaking(c) => b = act'[c]
  BY DEF SameMaking, Maker
<1>2. b.id = act[c].id
  BY GoesMaker
<1>3. CASE CheckFan(c)
  BY <1>1, <1>2, <1>3, CheckFanEffect DEF Unwound, Connecting
<1>4. CASE LockPort(c)
  BY <1>2, <1>4, LockPortEffect DEF Connecting
<1>5. CASE RefuseDuplicate(c)
  BY <1>1, <1>2, <1>5, RefuseDuplicateEffect DEF Unwound, Connecting
<1>6. CASE Publish(c)
  BY <1>1, <1>2, <1>6, PublishEffect DEF Connecting
<1>7. CASE Subscribe(c)
  BY <1>1, <1>2, <1>7, SubscribeEffect, CallFacts DEF Unwound, Connecting, Call
<1>. QED
  BY <1>3, <1>4, <1>5, <1>6, <1>7 DEF Goes

LEMMA MakesStep ==
  ASSUME ConnInv, MakersInv, AnswersInv, NEW c \in Clients, ClientStep(c),
         NEW id, NEW l, MadeFirst(id, l), id \notin missed', Making(id)
  PROVE  \/ Making(id)' \/ Cleared(id)' \/ NoneHas(id)'
         \/ \A n \in 1 .. Len(l) : HasProfile(l[n], id)'
<1>0. id \notin missed /\ id \in Conns /\ l \in PortLists
  BY StepFacts, MadeFirstFacts DEF ConnInv
<1>1. PICK d \in Clients : Makes(d, id)
  BY DEF Making
<1>2. CASE Maker(d)' = Maker(d)
  BY <1>1, <1>2 DEF Making, Makes
<1>3. CASE d # c
  BY <1>2, <1>3, StepFacts DEF ConnInv
<1>4. CASE d = c /\ (Quiet(c) \/ Unsubscribe(c))
  BY <1>1, <1>2, <1>4, QuietMaker DEF MakerKept, Makes
<1>5. ~(d = c /\ Connect(c))
  BY <1>1, ConnectEffect, MakerFacts DEF Makes, Disconnecting, Connecting
<1>6. ASSUME d = c, CallRaises(c) \/ CheckFan(c) \/ RefuseDuplicate(c)
      PROVE  NoneHas(id)'
  <2>1. Maker(c) = act[c] /\ act[c].pc \in Connecting /\ act[c].pc # "subscribe"
    BY <1>6, CallRaisesEffect, GoesMaker, CheckFanEffect, RefuseDuplicateEffect
       DEF Goes, Maker, Connecting
  <2>2. NoneHas(id)
    BY <1>1, <1>6, <2>1 DEF MakersInv, MakeInv, Makes, NoneHas
  <2>3. ~Subscribe(c) /\ ~Unsubscribe(c)
    BY <2>1, SubscribeEffect, UnsubscribeEffect DEF Connecting
  <2>. QED
    BY <2>2, <2>3, NoneStays
<1>7. CASE d = c /\ Goes(c)
  <2>1. PICK b : b = Maker(c)'
    OBVIOUS
  <2>2. act[c].id = id /\ Maker(c) = act[c]
    BY <1>1, <1>7, GoesMaker DEF Makes
  <2>3. CASE b.pc \in Connecting
    <3>1. b.id = id
      BY <1>7, <2>1, <2>2, MakerGoes
    <3>. QED
      BY <2>1, <2>3, <3>1 DEF Making, Makes
  <2>4. CASE b.pc \notin Connecting /\ Subscribe(c)
    <3>1. b.pc = "connected" /\ b = act'[c] /\ b.id = id
      BY <1>7, <2>1, <2>2, <2>4, MakerGoes
    <3>2. CASE b.bad
      <4>1. Clears(b, id)
        BY <3>1, <3>2 DEF Clears
      <4>. QED
        BY <3>1, <4>1, ClearsNow, AskedGrows
    <3>3. CASE ~b.bad
      <4>1. ~act[c].bad /\ act[c].pc = "subscribe"
        BY <2>4, <3>1, <3>3, SubscribeEffect
      <4>2. AnswerInv(act[c])
        BY <1>7, <2>2, GoesMaker DEF AnswersInv
      <4>3. \A n \in 1 .. Len(l) : n > Len(act[c].frames) => HasProfile(l[n], id)
        <5>1. act[c].list = l
          BY <1>1, <1>7, <2>2, MakerAt DEF MadeFirst
        <5>. QED
          BY <1>0, <2>2, <4>1, <4>2, <5>1 DEF AnswerInv
      <4>4. PICK p : p = Last(act[c].frames)
        OBVIOUS
      <4>5. \A q \in Ports : \A x :
              HasProfile(q, x)' <=> HasProfile(q, x) \/ (q = p /\ x = id)
        BY <2>2, <2>4, <4>4, SubscribesNew
      <4>6. /\ Len(act[c].frames) \in 1 .. Len(l) /\ p = l[Len(act[c].frames)]
            /\ Len(act[c].frames) # 1 => Makes(c, id)'
        BY <2>2, <2>4, <4>4, SubscribeAt DEF MadeFirst
      <4>7. Len(act[c].frames) = 1
        BY <2>1, <2>4, <4>6 DEF Makes
      <4>8. ASSUME NEW n \in 1 .. Len(l)
            PROVE  HasProfile(l[n], id)'
        <5>1. l[n] \in Ports
          BY <1>0, ListFacts
        <5>2. n = 1 \/ n > 1
          OBVIOUS
        <5>. QED
          BY <4>3, <4>5, <4>6, <4>7, <5>1, <5>2
      <4>. QED
        BY <4>8
    <3>. QED
      BY <3>2, <3>3
  <2>. QED
    BY <1>6, <1>7, <2>1, <2>3, <2>4, MakerGoes
<1>. QED
  BY <1>3, <1>4, <1>5, <1>6, <1>7, StepKinds

(***************************************************************************)
(* A connection that is made is not cleared away at the same time.         *)
(***************************************************************************)
LEMMA NewClears ==
  ASSUME ConnInv, MakersInv, AliveInv, ChainsInv, NEW c \in Clients, ClientStep(c),
         NEW id, NEW l, MadeFirst(id, l), id \notin missed,
         NEW a, a = act[c], NEW b, b = act'[c], Clears(b, id), ~Clears(a, id),
         NEW d \in Clients, Makes(d, id), Makes(d, id)'
  PROVE  FALSE
<1>1. /\ \A p : AtFirst(id, p) <=> p = l[1]
      /\ ~HasProfile(l[1], id) /\ id \in Conns
  BY MadeFirstFacts, FirstLast DEF MadeFirst
<1>2. b.pc \in Disconnecting \cup {"connected"}
  BY DEF Clears, Disconnecting
<1>3. b.pc # "connected"
  <2>. SUFFICES ASSUME b.pc = "connected"
                PROVE  FALSE
    OBVIOUS
  <2>1. a.pc \in Connecting /\ Maker(c) = a /\ Maker(c)' = b /\ b.id = a.id
    BY Answers
  <2>2. b.id = id
    BY DEF Clears, Disconnecting
  <2>3. d = c
    BY <1>1, <2>1, <2>2 DEF MakersInv, Makes
  <2>. QED
    BY <2>1, <2>3 DEF Makes, Connecting
<1>4. \/ b.at = l[1] /\ id \in b.todo
      \/ b.pc \in {"copy", "call"} /\ b.at = l[1] /\ b.id = id
      \/ b.pc \in {"call", "unsubscribe"} /\ b.id = id /\ b.frames # <<>>
  BY <1>1, <1>3 DEF Clears
<1>5. /\ ~(a.pc = "connected" /\ a.id = id /\ a.bad)
      /\ a.pc \in Disconnecting /\ a.at = l[1] =>
           id \notin a.todo /\ ~(a.pc \in {"copy", "call"} /\ a.id = id)
      /\ a.pc \in {"call", "unsubscribe"} /\ a.id = id => a.frames = <<>>
  BY <1>1 DEF Clears
<1>6. ~Connect(c) /\ ~CallRaises(c)
  BY <1>2, <1>3, ConnectEffect, CallRaisesEffect, NoFrames DEF Disconnecting
<1>7. CASE Disconnects(c)
  BY <1>1, <1>4, <1>7, DisconnectsEffect
<1>8. CASE CleanUp(c)
  <2>1. /\ a.pc = "connected" /\ a.bad /\ b.pc = "next" /\ b.todo = {a.id}
    BY <1>2, <1>3, <1>8, CleanUpEffect, NoFrames DEF Disconnecting
  <2>. QED
    BY <1>4, <1>5, <2>1
<1>9. CASE Find(c)
  <2>1. PICK x \in a.todo :
          /\ a.pc = "next" /\ b.at = a.at /\ b.todo = a.todo \ {x}
          /\ b.pc = "next" \/ (b.pc = "copy" /\ b.id = x)
    BY <1>9, FindEffect DEF Keeps
  <2>. QED
    BY <1>4, <1>5, <2>1 DEF Disconnecting
<1>10. CASE AllDisconnected(c)
  BY <1>2, <1>3, <1>10, AllDisconnectedEffect, MakerFacts, NoFrames
     DEF Disconnecting
<1>11. CASE Copy(c)
  <2>1. /\ a.pc = "copy" /\ b.at = a.at /\ b.frames = <<>>
        /\ \/ b.pc = "next" /\ b.todo = {}
           \/ b.pc = "call" /\ b.id = a.id /\ b.todo = a.todo
    BY <1>11, CopyEffect DEF Keeps
  <2>. QED
    BY <1>4, <1>5, <2>1 DEF Disconnecting
<1>12. CASE SkipDead(c) \/ NotifyUnknown(c)
  <2>1. /\ a.pc = "call" /\ b.at = a.at /\ b.id = a.id /\ b.todo = a.todo
        /\ b.frames = a.frames
        /\ b.pc = "call" \/ b.pc = Returned(a.frames)
    BY <1>12, SkipDeadEffect, NotifyUnknownEffect DEF SameChain, Keeps
  <2>. QED
    BY <1>4, <1>5, <2>1 DEF Disconnecting
<1>13. CASE NotifyDisconnect(c)
  <2>1. /\ a.pc = "call" /\ b.at = a.at /\ b.id = a.id /\ b.todo = a.todo
    BY <1>13, NotifyDisconnectEffect DEF SameChain, Keeps
  <2>2. a.id = id
    BY <1>4, <1>5, <2>1 DEF Disconnecting
  <2>3. ChainInv(a)
    BY <2>1, <2>2 DEF ChainsInv, InChain
  <2>4. /\ a.k \in 1 .. Len(a.list) /\ HasProfile(a.list[a.k], a.id)
        /\ holder[a.list[a.k]] = None
    BY <1>13, NotifyDisconnectEffect
  <2>5. ~Makes(d, a.id)
    BY <2>1, <2>3, <2>4, NoMakerAhead
  <2>. QED
    BY <2>2, <2>5
<1>14. CASE Unsubscribe(c)
  <2>1. /\ a.pc = "unsubscribe" /\ b.at = a.at /\ b.id = a.id /\ b.todo = a.todo
        /\ a.frames # <<>> /\ b.pc \in {"unsubscribe", "next"}
    BY <1>14, UnsubscribeEffect DEF Returned
  <2>. QED
    BY <1>4, <1>5, <2>1 DEF Disconnecting
<1>15. CASE CheckFan(c) \/ RefuseDuplicate(c) \/ Publish(c) \/ Subscribe(c)
  BY <1>2, <1>3, <1>15, CheckFanEffect, RefuseDuplicateEffect, PublishEffect,
     SubscribeEffect DEF Disconnecting, Unwound
<1>16. CASE LockPort(c)
  <2>1. PICK p : p = a.list[a.k]
    OBVIOUS
  <2>2. b.pc = "next" /\ b.at = p /\ \A x \in b.todo : HasProfile(p, x)
    BY <1>2, <1>16, <2>1, LockPortEffect DEF Disconnecting
  <2>. QED
    BY <1>1, <1>4, <2>2
<1>. QED
  BY <1>6, <1>7, <1>8, <1>9, <1>10, <1>11, <1>12, <1>13, <1>14, <1>15, <1>16,
     StepKinds DEF Quiet, Goes

LEMMA ApartStep ==
  ASSUME ConnInv, MakersInv, AliveInv, ChainsInv, NEW c \in Clients, ClientStep(c),
         NEW id, NEW l, MadeFirst(id, l), id \notin missed,
         Cleared(id) => ~Making(id)
  PROVE  Cleared(id)' => ~Making(id)'
<1>. SUFFICES ASSUME Cleared(id)', NEW d \in Clients, Makes(d, id)'
              PROVE  FALSE
  BY DEF Making
<1>1. Makes(d, id)
  <2>1. CASE Connect(c)
    <3>1. PICK b : b = act'[c]
      OBVIOUS
    <3>2. Maker(c)' = b /\ ~Asked(b.id, l)
      BY <2>1, <3>1, ConnectsNew
    <3>3. d # c
      BY <3>2 DEF Makes, MadeFirst
    <3>. QED
      BY <3>3, StepFacts DEF Makes, ConnInv
  <2>. QED
    BY <2>1, MakesOnly
<1>2. ~Cleared(id)
  BY <1>1 DEF Making
<1>3. \A p : AtFirst(id, p)' <=> AtFirst(id, p)
  <2>1. \A p : AtFirst(id, p) => AtFirst(id, p)'
    BY AskedGrows
  <2>2. \A p : AtFirst(id, p) <=> p = l[1]
    BY MadeFirstFacts
  <2>3. CASE Connect(c)
    <3>1. PICK b : b = act'[c]
      OBVIOUS
    <3>2. /\ asked' = asked \cup {[id |-> b.id, list |-> b.list, at |-> b.at]}
          /\ ~Asked(b.id, l)
      BY <2>3, <3>1, ConnectEffect, ConnectsNew
    <3>3. b.id # id
      BY <3>2 DEF MadeFirst
    <3>4. \A f \in asked' : f.id = id => f \in asked
      BY <3>2, <3>3
    <3>. QED
      BY <2>1, <3>4 DEF AtFirst
  <2>4. CASE ~Connect(c)
    BY <2>4, AskedGrows DEF AtFirst
  <2>. QED
    BY <2>3, <2>4
<1>4. PICK e \in Clients : Clears(act[e], id)'
  BY DEF Cleared
<1>5. PICK b : b = act'[e]
  OBVIOUS
<1>6. Clears(b, id)
  <2>1. Clears(b, id)'
    BY <1>4, <1>5 DEF Clears, AtFirst
  <2>. QED
    BY <1>3, <2>1 DEF Clears
<1>7. CASE e # c
  BY <1>2, <1>5, <1>6, <1>7, StepFacts DEF Cleared, ConnInv
<1>8. CASE e = c
  <2>1. ~Clears(act[c], id)
    BY <1>2 DEF Cleared
  <2>. QED
    BY <1>1, <1>5, <1>6, <1>8, <2>1, NewClears
<1>. QED
  BY <1>7, <1>8

(***************************************************************************)
(* Only some of the ports have the connection, or one is without its       *)
(* connector.                                                              *)
(***************************************************************************)
LEMMA PartialStep ==
  ASSUME ConnInv, MakersInv, AliveInv, DownInv, ChainsInv, CallsInv, AnswersInv,
         NEW c \in Clients, ClientStep(c), NEW id, NEW l, MadeFirst(id, l),
         id \notin missed', Cleared(id) => ~Making(id),
         NEW p \in Ports, NEW q \in Ports, alive[p],
         HasProfile(p, id)', ~HasProfile(q, id)', \E n \in 1 .. Len(l) : l[n] = q,
         HasProfile(p, id) /\ ~HasProfile(q, id) => Making(id) \/ Cleared(id)
  PROVE  Making(id)' \/ Cleared(id)'
<1>1. Making(id) \/ Cleared(id)
  <2>1. CASE ~HasProfile(p, id)
    <3>1. Subscribe(c) /\ id = act[c].id
      BY <2>1, ProfileGained
    <3>2. Makes(c, id)
      BY <3>1, SubscribeAt DEF MadeFirst
    <3>. QED
      BY <3>2 DEF Making
  <2>2. CASE HasProfile(q, id)
    <3>1. Unsubscribe(c) /\ id = act[c].id
      BY <2>2, ProfileLost
    <3>2. Clears(act[c], id)
      BY <3>1, UnsubscribeEffect DEF Clears
    <3>. QED
      BY <3>2 DEF Cleared
  <2>. QED
    BY <2>1, <2>2
<1>2. ~NoneHas(id)'
  BY StepFacts DEF NoneHas, ConnInv
<1>3. ~\A n \in 1 .. Len(l) : HasProfile(l[n], id)'
  <2>1. PICK n \in 1 .. Len(l) : l[n] = q
    OBVIOUS
  <2>. SUFFICES ASSUME HasProfile(l[n], id)'
                PROVE  FALSE
    OBVIOUS
  <2>. QED
    BY <2>1 DEF HasProfile
<1>4. CASE Making(id)
  BY <1>2, <1>3, <1>4, MakesStep
<1>5. CASE Cleared(id)
  BY <1>2, <1>5, ClearedStep
<1>. QED
  BY <1>1, <1>4, <1>5

LEMMA FailingStep ==
  ASSUME ConnInv, MakersInv, AliveInv, DownInv, ChainsInv, CallsInv,
         NEW c \in Clients, ClientStep(c), NEW id, NEW l, MadeFirst(id, l),
         id \notin missed', Cleared(id) => ~Making(id), Failing(id)
  PROVE  Failing(id)' \/ NoneHas(id)'
<1>1. ASSUME NEW d \in Clients, NEW b, b = Maker(d)', b.pc \in Connecting,
             b.id = id, b.bad
      PROVE  Failing(id)'
  BY <1>1 DEF Failing, Makes
<1>2. CASE Cleared(id)
  BY <1>2, ClearedStep DEF Failing
<1>3. ASSUME NEW d \in Clients, Makes(d, id), Maker(d).bad
      PROVE  Failing(id)' \/ NoneHas(id)'
  <2>1. CASE Maker(d)' = Maker(d)
    BY <1>1, <1>3, <2>1 DEF Makes
  <2>2. CASE d # c
    BY <2>1, <2>2, StepFacts DEF ConnInv
  <2>3. CASE d = c /\ (Quiet(c) \/ Unsubscribe(c))
    BY <1>3, <2>1, <2>3, QuietMaker DEF MakerKept, Makes
  <2>4. ~(d = c /\ Connect(c))
    BY <1>3, ConnectEffect, MakerFacts DEF Makes, Disconnecting, Connecting
  <2>5. CASE d = c /\ CallRaises(c)
    <3>1. Maker(c) = act[c] /\ act[c].pc = "enter"
      BY <2>5, CallRaisesEffect DEF Maker
    <3>2. NoneHas(id)
      BY <1>3, <2>5, <3>1 DEF MakersInv, MakeInv, Makes, NoneHas
    <3>. QED
      BY <3>1, <3>2, NoneStays, SubscribeEffect, UnsubscribeEffect
  <2>6. CASE d = c /\ Goes(c)
    <3>1. PICK b : b = Maker(c)'
      OBVIOUS
    <3>2. /\ b.id = id /\ b.bad
          /\ b.pc \in Connecting \/ (b.pc = "connected" /\ b = act'[c])
      BY <1>3, <2>6, <3>1, MakerGoes, GoesMaker DEF Makes
    <3>3. CASE b.pc \in Connecting
      BY <1>1, <3>1, <3>2, <3>3
    <3>4. CASE b.pc = "connected" /\ b = act'[c]
      <4>1. Clears(b, id)
        BY <3>2, <3>4 DEF Clears
      <4>. QED
        BY <3>4, <4>1, ClearsNow, AskedGrows DEF Failing
    <3>. QED
      BY <3>2, <3>3, <3>4
  <2>. QED
    BY <2>2, <2>3, <2>4, <2>5, <2>6, StepKinds
<1>. QED
  BY <1>2, <1>3 DEF Failing

LEMMA BareStep ==
  ASSUME ConnInv, MakersInv, AliveInv, DownInv, ChainsInv, CallsInv, AnswersInv,
         ConnectorsInv, NEW c \in Clients, ClientStep(c), NEW id, NEW l,
         MadeFirst(id, l), id \notin missed', Cleared(id) => ~Making(id),
         NEW q \in Ports, alive[q], HasProfile(q, id)', ~HasConnector(q, id)',
         HasProfile(q, id) /\ ~HasConnector(q, id) => Failing(id)
  PROVE  Failing(id)'
<1>0. PICK p : p = Last(act[c].frames)
  OBVIOUS
<1>1. CASE ~HasProfile(q, id)
  <2>1. Subscribe(c) /\ id = act[c].id /\ q = p
    BY <1>0, <1>1, ProfileGained
  <2>2. PICK b : b = act'[c]
    OBVIOUS
  <2>3. /\ b.id = id /\ Maker(c)' = b
        /\ b.pc \in Connecting \/ b.pc = "connected"
    BY <2>1, <2>2, SubscribeEffect DEF SameMaking, Maker, Unwound, Connecting
  <2>4. b.bad
    <3>. SUFFICES ASSUME ~b.bad
                  PROVE  FALSE
      OBVIOUS
    <3>1. \/ HasConnector(q, id) /\ connectors'[q] = connectors[q]
          \/ connectors'[q] = Append(connectors[q], id)
      BY <1>0, <2>1, <2>2, SubscribeEffect
    <3>2. connectors[q] \in Seq(Conns) /\ id \in Conns
      BY MadeFirstFacts DEF ConnInv, TypeOK
    <3>3. id \in ToSet(connectors'[q])
      <4>1. CASE connectors'[q] = Append(connectors[q], id)
        <5>1. PICK s : s = connectors'[q]
          OBVIOUS
        <5>2. s \in Seq(Conns) /\ s[Len(connectors[q]) + 1] = id
              /\ Len(s) = Len(connectors[q]) + 1 /\ Len(connectors[q]) \in Nat
          BY <3>2, <4>1, <5>1, AppendProperties, LenProperties
        <5>3. Len(connectors[q]) + 1 \in 1 .. Len(s)
          BY <5>2
        <5>. QED
          BY <5>1, <5>2, <5>3, Elements
      <4>. QED
        BY <3>1, <4>1 DEF HasConnector
    <3>. QED
      BY <3>3 DEF HasConnector
  <2>5. CASE b.pc \in Connecting
    BY <2>2, <2>3, <2>4, <2>5 DEF Failing, Makes
  <2>6. CASE b.pc = "connected"
    <3>1. Clears(b, id)
      BY <2>3, <2>4, <2>6 DEF Clears
    <3>. QED
      BY <2>2, <3>1, ClearsNow, AskedGrows DEF Failing
  <2>. QED
    BY <2>3, <2>5, <2>6
<1>2. CASE HasProfile(q, id) /\ HasConnector(q, id)
  <2>1. Unsubscribe(c) /\ id = act[c].id /\ q = p
    BY <1>0, <1>2, ConnectorsChange
  <2>2. ~HasProfile(q, id)'
    BY <1>0, <2>1, UnsubscribeProfiles DEF MakersInv
  <2>. QED
    BY <2>2
<1>3. CASE HasProfile(q, id) /\ ~HasConnector(q, id)
  <2>1. ~NoneHas(id)'
    BY StepFacts DEF NoneHas, ConnInv
  <2>. QED
    BY <1>3, <2>1, FailingStep
<1>. QED
  BY <1>1, <1>2, <1>3

LEMMA FirstsInvStep ==
  ASSUME ConnInv, MakersInv, AliveInv, DownInv, ChainsInv, CallsInv, AnswersInv,
         ConnectorsInv, FirstsInv, ConnInv', NEW c \in Clients, ClientStep(c)
  PROVE  FirstsInv'
<1>0. alive' = alive /\ missed \subseteq missed'
  BY StepFacts DEF ConnInv
<1>1. ASSUME NEW f \in asked', f.at = f.list[1], f.id \notin missed',
             NEW id, id = f.id, NEW l, l = f.list
      PROVE  /\ Cleared(id)' => ~Making(id)'
             /\ \A p, q \in Ports :
                  (alive[p] /\ alive[q] /\ p \in ToSet(l) /\ q \in ToSet(l)
                   /\ HasProfile(p, id)' /\ ~HasProfile(q, id)') =>
                    Making(id)' \/ Cleared(id)'
             /\ \A p \in Ports :
                  (alive[p] /\ p \in ToSet(l)
                   /\ HasProfile(p, id)' /\ ~HasConnector(p, id)') => Failing(id)'
  <2>1. CASE f \in asked
    <3>1. MadeFirst(id, l)
      BY <1>1, <2>1 DEF MadeFirst, Asked, MadeAt
    <3>2. /\ FirstInv(f) /\ id \notin missed' /\ id \notin missed
          /\ \A p : p \in ToSet(l) <=> \E n \in 1 .. Len(l) : l[n] = p
      BY <1>0, <1>1, <2>1, <3>1, MadeFirstFacts, ListFacts DEF FirstsInv
    <3>3. Cleared(id) => ~Making(id)
      BY <1>1, <3>2 DEF FirstInv
    <3>4. Cleared(id)' => ~Making(id)'
      BY <3>1, <3>2, <3>3, ApartStep
    <3>5. ASSUME NEW p \in Ports, NEW q \in Ports, alive[p], alive[q],
                 p \in ToSet(l), q \in ToSet(l), HasProfile(p, id)',
                 ~HasProfile(q, id)'
          PROVE  Making(id)' \/ Cleared(id)'
      <4>1. HasProfile(p, id) /\ ~HasProfile(q, id) => Making(id) \/ Cleared(id)
        BY <1>1, <3>2, <3>5 DEF FirstInv, LivePorts
      <4>2. \E n \in 1 .. Len(l) : l[n] = q
        BY <3>2, <3>5
      <4>. QED
        BY <3>1, <3>2, <3>3, <3>5, <4>1, <4>2, PartialStep
    <3>6. ASSUME NEW p \in Ports, alive[p], p \in ToSet(l), HasProfile(p, id)',
                 ~HasConnector(p, id)'
          PROVE  Failing(id)'
      <4>1. HasProfile(p, id) /\ ~HasConnector(p, id) => Failing(id)
        BY <1>1, <3>2, <3>6 DEF FirstInv, LivePorts
      <4>. QED
        BY <3>1, <3>2, <3>3, <3>6, <4>1, BareStep
    <3>. QED
      BY <3>4, <3>5, <3>6
  <2>2. CASE f \notin asked
    <3>1. Connect(c)
      BY <1>1, <2>2, AskedGrows
    <3>2. PICK b : b = act'[c]
      OBVIOUS
    <3>3. /\ asked' = asked \cup {[id |-> b.id, list |-> b.list, at |-> b.at]}
          /\ \A g \in asked : g.id # b.id /\ b.pc = "enter"
          /\ \A q \in Ports : ~HasProfile(q, b.id)'
      BY <3>1, <3>2, ConnectEffect, ConnectsNew
    <3>4. id = b.id /\ b.pc = "enter"
      BY <1>1, <2>2, <3>1, <3>2, <3>3, ConnectEffect
    <3>5. ~IsAsked(id)
      BY <3>3, <3>4 DEF IsAsked
    <3>6. ~Cleared(id)'
      <4>. SUFFICES ASSUME NEW e \in Clients, Clears(act[e], id)'
                    PROVE  FALSE
        BY DEF Cleared
      <4>1. PICK g : g = act'[e]
        OBVIOUS
      <4>2. \/ g.pc = "connected" /\ g.id = id
            \/ g.pc \in Disconnecting /\ id \in g.todo
            \/ g.pc \in {"copy", "call", "unsubscribe"} /\ g.id = id
        BY <4>1 DEF Clears
      <4>3. g = act[e]
        BY <3>2, <3>4, <4>1, <4>2, StepFacts DEF Disconnecting, ConnInv
      <4>. QED
        BY <3>5, <4>2, <4>3 DEF CallsInv, MadeAt, IsAsked
    <3>. QED
      BY <3>3, <3>4, <3>6
  <2>. QED
    BY <2>1, <2>2
<1>2. ASSUME NEW f \in asked', f.at = f.list[1], f.id \notin missed'
      PROVE  FirstInv(f)'
  <2>1. PICK id, l : id = f.id /\ l = f.list
    OBVIOUS
  <2>2. f \in [id : Conns, list : PortLists, at : Ports] /\ l \in Seq(Ports)
    BY <1>2, <2>1, ConnectionAssumption DEF ConnInv, TypeOK
  <2>3. \A p \in ToSet(l) : p \in Ports
    BY <2>2, Elements
  <2>4. /\ Cleared(id)' => ~Making(id)'
        /\ \A p, q \in Ports :
             (alive[p] /\ alive[q] /\ p \in ToSet(l) /\ q \in ToSet(l)
              /\ HasProfile(p, id)' /\ ~HasProfile(q, id)') =>
               Making(id)' \/ Cleared(id)'
        /\ \A p \in Ports :
             (alive[p] /\ p \in ToSet(l)
              /\ HasProfile(p, id)' /\ ~HasConnector(p, id)') => Failing(id)'
    BY <1>1, <1>2, <2>1
  <2>. QED
    BY <1>0, <2>1, <2>3, <2>4 DEF FirstInv, LivePorts
<1>. QED
  BY <1>2 DEF FirstsInv

LEMMA RestInvNext ==
  ASSUME RestInv, [Next]_vars
  PROVE  RestInv'
<1>0. GoneInv'
  BY GoneInvNext DEF RestInv
<1>1. ASSUME NEW c \in Clients, ClientStep(c)
      PROVE  RestInv'
  BY <1>0, <1>1, CallsInvStep, AnswersInvStep, ConnectorsInvStep, FirstsInvStep
     DEF RestInv, GoneInv
<1>2. ASSUME NEW p \in Ports, Die(p)
      PROVE  RestInv'
  <2>1. \A q : alive'[q] => alive[q]
    BY <1>2 DEF Die, RestInv, GoneInv, ConnInv, TypeOK
  <2>2. UNCHANGED <<profiles, connectors, act, outer, asked, cut, missed>>
    BY <1>2 DEF Die, ports, history
  <2>. QED
    BY <1>0, <2>1, <2>2, RestInvDie
<1>3. CASE UNCHANGED vars
  <2>1. UNCHANGED <<alive, profiles, connectors, act, outer, asked, cut, missed>>
    BY <1>3 DEF vars, ports, history
  <2>. QED
    BY <1>0, <2>1, RestInvDie
<1>. QED
  BY <1>1, <1>2, <1>3 DEF Next, ClientStep

LEMMA NobodyAtRest ==
  ASSUME ConnInv, AtRest, NEW id
  PROVE  ~Making(id) /\ ~Cleared(id) /\ ~Failing(id)
<1>1. \A c \in Clients : act[c].pc = "idle" /\ Maker(c) = act[c]
  BY MakerFacts DEF AtRest, Disconnecting
<1>. QED
  BY <1>1
     DEF Making, Cleared, Failing, Clears, Makes, Connecting, Disconnecting

\* When no call is under way, the live ports of a connection made at its first
\* port all have it, each with its connector, or none has: whatever was refused on
\* the way is taken back from the first port on, and of the ports that have it the
\* first one is the last to lose it (PortBase.cpp:209, 317, 460).
THEOREM AgreementAtRest == Spec => []AgreeAtRest
<1>1. RestInv => AgreeAtRest
  <2>. SUFFICES ASSUME RestInv, AtRest, NEW f \in asked,
                       f.at = f.list[1], f.id \notin missed
                PROVE  /\ \A p, q \in LivePorts(f) :
                            HasProfile(p, f.id) => HasProfile(q, f.id)
                       /\ f.id \notin cut =>
                            \A p \in LivePorts(f) :
                              HasProfile(p, f.id) <=> HasConnector(p, f.id)
    BY DEF AgreeAtRest
  <2>1. ConnInv /\ FirstInv(f) /\ ConnectorsInv
    BY DEF RestInv, GoneInv, FirstsInv
  <2>2. ~Making(f.id) /\ ~Cleared(f.id) /\ ~Failing(f.id)
    BY <2>1, NobodyAtRest
  <2>3. f.id \in Conns /\ f.list \in Seq(Ports)
    BY <2>1, ConnectionAssumption DEF ConnInv, TypeOK
  <2>4. \A p \in LivePorts(f) : p \in Ports
    BY <2>3, Elements DEF LivePorts
  <2>5. \A p, q \in LivePorts(f) : HasProfile(p, f.id) => HasProfile(q, f.id)
    BY <2>1, <2>2 DEF FirstInv
  <2>6. ASSUME f.id \notin cut, NEW p \in LivePorts(f)
        PROVE  HasProfile(p, f.id) <=> HasConnector(p, f.id)
    <3>1. HasProfile(p, f.id) => HasConnector(p, f.id)
      BY <2>1, <2>2, <2>6 DEF FirstInv
    <3>2. HasConnector(p, f.id) => HasProfile(p, f.id)
      BY <2>1, <2>2, <2>3, <2>4, <2>6 DEF ConnectorsInv, Making
    <3>. QED
      BY <3>1, <3>2
  <2>. QED
    BY <2>5, <2>6
<1>2. Spec => []RestInv
  BY RestInvInit, RestInvNext, PTL DEF Spec
<1>. QED
  BY <1>1, <1>2, PTL

-----------------------------------------------------------------------------
(***************************************************************************)
(* The limit.  Connections that are about to be taken back apart, a port   *)
(* never has more than its limit.                                          *)
(***************************************************************************)
LastingIds(p) == {id \in Ids(profiles[p]) : ~Failing(id)}

AllFirst == missed = {} /\ \A f \in asked : f.at = f.list[1]

LimitInv ==
  AllFirst =>
    \A p \in Ports :
      alive[p] /\ Limit[p] # NoLimit => Cardinality(LastingIds(p)) <= Limit[p]

LEMMA IdsCount ==
  ASSUME NEW s \in Seq(Profile)
  PROVE  /\ IsFiniteSet(Ids(s)) /\ Cardinality(Ids(s)) <= Len(s)
         /\ OneOfEach(s) => Cardinality(Ids(s)) = Len(s)
<1>. DEFINE S == 1 .. Len(s)
            g == [i \in S |-> s[i].id]
<1>1. Len(s) \in Nat
  BY LenProperties
<1>2. IsFiniteSet(S) /\ Cardinality(S) = Len(s)
  <2>1. 1 \in Int /\ Len(s) \in Int
    BY <1>1
  <2>2. /\ IsFiniteSet(1 .. Len(s))
        /\ Cardinality(1 .. Len(s)) = IF 1 > Len(s) THEN 0 ELSE Len(s) - 1 + 1
    BY <2>1, FS_Interval
  <2>. QED
    BY <1>1, <2>2
<1>3. \A n : n \in Ids(s) <=> \E i \in S : s[i].id = n
  BY Elements DEF Ids
<1>4. g \in Surjection(S, Ids(s))
  <2>1. g \in [S -> Ids(s)]
    BY <1>3
  <2>2. \A t \in Ids(s) : \E i \in S : g[i] = t
    BY <1>3
  <2>. QED
    BY <2>1, <2>2 DEF Surjection
<1>5. OneOfEach(s) => g \in Injection(S, Ids(s))
  BY <1>3, <1>4 DEF OneOfEach, Injection, IsInjective, Surjection
<1>. HIDE DEF S, g
<1>6. /\ IsFiniteSet(Ids(s))
      /\ Cardinality(Ids(s)) <= Cardinality(S)
      /\ Cardinality(Ids(s)) = Cardinality(S) <=> g \in Injection(S, Ids(s))
  BY <1>2, <1>4, FS_Surjection
<1>. QED
  BY <1>2, <1>5, <1>6

LEMMA LastingCount ==
  ASSUME ConnInv, NEW p \in Ports
  PROVE  /\ IsFiniteSet(LastingIds(p)) /\ Cardinality(LastingIds(p)) \in Nat
         /\ Cardinality(LastingIds(p)) <= Len(profiles[p])
<1>1. profiles[p] \in Seq(Profile) /\ Len(profiles[p]) \in Nat
  BY ProfileOfPort DEF ConnInv
<1>2. /\ IsFiniteSet(Ids(profiles[p])) /\ Cardinality(Ids(profiles[p])) \in Nat
      /\ Cardinality(Ids(profiles[p])) <= Len(profiles[p])
  BY <1>1, IdsCount, FS_CardinalityType
<1>3. LastingIds(p) \in SUBSET Ids(profiles[p])
  BY DEF LastingIds
<1>4. /\ IsFiniteSet(LastingIds(p))
      /\ Cardinality(LastingIds(p)) <= Cardinality(Ids(profiles[p]))
  BY <1>2, <1>3, FS_Subset
<1>5. Cardinality(LastingIds(p)) \in Nat
  BY <1>4, FS_CardinalityType
<1>. QED
  BY <1>1, <1>2, <1>4, <1>5

LEMMA LimitInvInit == Init => LimitInv
<1>. SUFFICES ASSUME Init, NEW p \in Ports, Limit[p] # NoLimit
              PROVE  Cardinality(LastingIds(p)) <= Limit[p]
  BY DEF LimitInv
<1>1. LastingIds(p) = {}
  BY DEF Init, LastingIds, Ids, ToSet
<1>2. Limit[p] \in Nat
  BY ConnectionAssumption
<1>. QED
  BY <1>1, <1>2, FS_EmptySet

LEMMA LimitInvStep ==
  ASSUME RestInv, RestInv', LimitInv, NEW c \in Clients, ClientStep(c)
  PROVE  LimitInv'
<1>0. /\ ConnInv /\ ConnInv' /\ MakersInv /\ AliveInv /\ DownInv /\ ChainsInv
      /\ CallsInv /\ AnswersInv /\ ConnectorsInv /\ FirstsInv
  BY DEF RestInv, GoneInv
<1>1. /\ alive' = alive /\ missed \subseteq missed' /\ asked \subseteq asked'
  BY <1>0, StepFacts, AskedGrows DEF ConnInv
<1>. SUFFICES ASSUME AllFirst', NEW p \in Ports, alive[p], Limit[p] # NoLimit
              PROVE  Cardinality(LastingIds(p)') <= Limit[p]
  BY <1>1 DEF LimitInv
<1>2. AllFirst /\ missed' = {} /\ Limit[p] \in Nat
  BY <1>1, ConnectionAssumption DEF AllFirst
<1>3. PICK q : q = Last(act[c].frames)
  OBVIOUS
<1>4. \A id : /\ id \in LastingIds(p) <=> HasProfile(p, id) /\ ~Failing(id)
              /\ id \in LastingIds(p)' <=> HasProfile(p, id)' /\ ~Failing(id)'
  BY HasId DEF LastingIds, HasProfile, Ids
<1>5. ASSUME NEW id, HasProfile(p, id), HasProfile(p, id)', Failing(id)
      PROVE  Failing(id)'
  <2>1. PICK f \in asked : f.id = id
    BY <1>0, <1>5, KeptIsAsked DEF IsAsked
  <2>2. PICK l : l = f.list
    OBVIOUS
  <2>3. MadeFirst(id, l)
    BY <1>2, <2>1, <2>2 DEF AllFirst, MadeFirst, Asked, MadeAt
  <2>4. Cleared(id) => ~Making(id)
    BY <1>0, <1>2, <2>1 DEF FirstsInv, FirstInv, AllFirst
  <2>5. ~NoneHas(id)'
    BY <1>1, <1>5 DEF NoneHas
  <2>. QED
    BY <1>0, <1>2, <1>5, <2>3, <2>4, <2>5, FailingStep
<1>6. CASE Subscribe(c) /\ q = p /\ ~act'[c].bad
  <2>1. /\ act[c].pc = "subscribe" /\ ~act[c].bad /\ p \in ToSet(act[c].frames)
        /\ ~HasProfile(p, act[c].id)
        /\ profiles'[p] = Append(profiles[p], ProfileOf(act[c]))
        /\ ProfileOf(act[c]) \in Profile
    BY <1>0, <1>3, <1>6, SubscribeEffect, SubscribesNew
  <2>2. AnswerInv(act[c])
    BY <1>0, <1>6, GoesMaker DEF Goes, AnswersInv
  <2>3. ~AtLimit(p)
    BY <2>1, <2>2 DEF AnswerInv, Looked
  <2>4. /\ Len(profiles[p]) \in Nat /\ Len(profiles'[p]) = Len(profiles[p]) + 1
    BY <1>0, <2>1, ProfileOfPort, AppendProperties DEF ConnInv
  <2>5. ~(Limit[p] <= Len(profiles[p]))
    BY <2>3 DEF AtLimit
  <2>6. Len(profiles'[p]) <= Limit[p]
    BY <1>2, <2>4, <2>5
  <2>7. (/\ IsFiniteSet(LastingIds(p)) /\ Cardinality(LastingIds(p)) \in Nat
         /\ Cardinality(LastingIds(p)) <= Len(profiles[p]))'
    BY <1>0, LastingCount, PTL
  <2>8. PICK n : n = Cardinality(LastingIds(p)')
    OBVIOUS
  <2>9. n \in Nat /\ n <= Len(profiles'[p])
    BY <2>7, <2>8
  <2>10. Len(profiles'[p]) \in Nat
    BY <2>4
  <2>11. n <= Limit[p]
    BY <1>2, <2>6, <2>9, <2>10
  <2>. QED
    BY <2>8, <2>11
<1>7. CASE ~(Subscribe(c) /\ q = p /\ ~act'[c].bad)
  <2>1. ASSUME NEW id, HasProfile(p, id)', ~HasProfile(p, id)
        PROVE  Failing(id)'
    <3>1. Subscribe(c) /\ id = act[c].id /\ q = p
      BY <1>0, <1>3, <2>1, ProfileGained
    <3>2. PICK b : b = act'[c]
      OBVIOUS
    <3>3. /\ b.id = id /\ Maker(c)' = b /\ b.bad
          /\ b.pc \in Connecting \/ b.pc = "connected"
      BY <1>0, <1>7, <3>1, <3>2, SubscribeEffect
         DEF SameMaking, Maker, Unwound, Connecting
    <3>4. CASE b.pc \in Connecting
      BY <3>2, <3>3, <3>4 DEF Failing, Makes
    <3>5. CASE b.pc = "connected"
      <4>1. Clears(b, id)
        BY <3>3, <3>5 DEF Clears
      <4>. QED
        BY <1>0, <3>2, <4>1, ClearsNow, AskedGrows DEF Failing
    <3>. QED
      BY <3>3, <3>4, <3>5
  <2>2. LastingIds(p)' \in SUBSET LastingIds(p)
    BY <1>4, <1>5, <2>1
  <2>3. IsFiniteSet(LastingIds(p)) /\ Cardinality(LastingIds(p)) \in Nat
    BY <1>0, LastingCount
  <2>4. PICK S : S = LastingIds(p)'
    OBVIOUS
  <2>5. S \in SUBSET LastingIds(p)
    BY <2>2, <2>4
  <2>6. IsFiniteSet(S) /\ Cardinality(S) <= Cardinality(LastingIds(p))
    BY <2>3, <2>5, FS_Subset
  <2>7. Cardinality(S) \in Nat
    BY <2>6, FS_CardinalityType
  <2>8. Cardinality(LastingIds(p)) <= Limit[p]
    BY <1>2 DEF LimitInv
  <2>9. Cardinality(S) <= Limit[p]
    BY <1>2, <2>3, <2>6, <2>7, <2>8
  <2>. QED
    BY <2>4, <2>9
<1>. QED
  BY <1>6, <1>7

LEMMA LimitInvNext ==
  ASSUME RestInv, LimitInv, [Next]_vars
  PROVE  LimitInv'
<1>0. RestInv'
  BY RestInvNext
<1>1. ASSUME UNCHANGED <<profiles, act, outer, asked, missed>>,
             \A q : alive'[q] => alive[q]
      PROVE  LimitInv'
  <2>1. ASSUME NEW id
        PROVE  Failing(id)' <=> Failing(id)
    <3>1. \A c \in Clients : Maker(c)' = Maker(c)
      BY <1>1 DEF Maker
    <3>2. Cleared(id)' <=> Cleared(id)
      BY <1>1 DEF Cleared, Clears, AtFirst
    <3>. QED
      BY <3>1, <3>2 DEF Failing, Makes
  <2>2. \A p : LastingIds(p)' = LastingIds(p)
    BY <1>1, <2>1 DEF LastingIds, Ids
  <2>3. AllFirst' <=> AllFirst
    BY <1>1 DEF AllFirst
  <2>. QED
    BY <1>1, <2>2, <2>3 DEF LimitInv
<1>2. ASSUME NEW p \in Ports, Die(p)
      PROVE  LimitInv'
  <2>1. \A q : alive'[q] => alive[q]
    BY <1>2 DEF Die, RestInv, GoneInv, ConnInv, TypeOK
  <2>. QED
    BY <1>1, <1>2, <2>1 DEF Die, ports, history
<1>3. CASE UNCHANGED vars
  BY <1>1, <1>3 DEF vars, ports, history
<1>. QED
  BY <1>0, <1>2, <1>3, LimitInvStep DEF Next, ClientStep

\* When no call is under way no live port has more connections than its limit, if
\* all were made at their first ports and none was looked up in vain: a port at its
\* limit stores one more connection, but the answer is then an error and connect()
\* takes it back (PortBase.cpp:209, 365).
THEOREM LimitsKept == Spec => []LimitKept
<1>1. RestInv /\ LimitInv => LimitKept
  <2>. SUFFICES ASSUME RestInv, LimitInv, AtRest, missed = {},
                       \A f \in asked : f.at = f.list[1],
                       NEW p \in Ports, alive[p], Limit[p] # NoLimit
                PROVE  Len(profiles[p]) <= Limit[p]
    BY DEF LimitKept
  <2>1. ConnInv /\ profiles[p] \in Seq(Profile) /\ OneOfEach(profiles[p])
    BY DEF RestInv, GoneInv, ConnInv, TypeOK, MakersInv
  <2>2. LastingIds(p) = Ids(profiles[p])
    BY <2>1, NobodyAtRest DEF LastingIds
  <2>3. Cardinality(Ids(profiles[p])) = Len(profiles[p])
    BY <2>1, IdsCount
  <2>. QED
    BY <2>2, <2>3 DEF LimitInv, AllFirst
<1>2. Spec => [](RestInv /\ LimitInv)
  BY RestInvInit, RestInvNext, LimitInvInit, LimitInvNext, PTL DEF Spec
<1>. QED
  BY <1>1, <1>2, PTL

=============================================================================
