------------------------ MODULE PortConnectionProofs ------------------------
(***************************************************************************)
(* Theorems about PortConnection, for any ports, lists of ports, clients   *)
(* and connections.                                                        *)
(***************************************************************************)
EXTENDS PortConnection, SequenceTheorems, FiniteSetTheorems,
        WellFoundedInduction, TLAPS

(***************************************************************************)
(* Sequences, as the calls use them.                                       *)
(***************************************************************************)
Distinct(s) == \A i, j \in 1 .. Len(s) : s[i] = s[j] => i = j

LEMMA Elements ==
  ASSUME NEW S, NEW s \in Seq(S)
  PROVE  /\ ToSet(s) = {s[i] : i \in 1 .. Len(s)}
         /\ ToSet(s) \subseteq S
         /\ s = <<>> <=> ToSet(s) = {}
BY DEF ToSet

LEMMA Prefix ==
  ASSUME NEW S, NEW s \in Seq(S), NEW n \in 0 .. Len(s)
  PROVE  /\ SubSeq(s, 1, n) \in Seq(S)
         /\ Len(SubSeq(s, 1, n)) = n
         /\ \A i \in 1 .. n : SubSeq(s, 1, n)[i] = s[i]
<1>1. Len(s) \in Nat /\ n \in Int /\ \A i \in 1 .. n : s[i] \in S
  BY LenProperties, ElementOfSeq
<1>. QED
  BY <1>1, SubSeqProperties

LEMMA FrontLast ==
  ASSUME NEW S, NEW s \in Seq(S), s # <<>>, Distinct(s)
  PROVE  /\ Last(s) \in S /\ Last(s) \in ToSet(s)
         /\ Front(s) \in Seq(S)
         /\ Distinct(Front(s))
         /\ ToSet(Front(s)) = ToSet(s) \ {Last(s)}
         /\ Len(Front(s)) = Len(s) - 1
<1>1. Len(s) \in Nat \ {0} /\ \A i \in 1 .. Len(s) : s[i] \in S
  BY EmptySeq, ElementOfSeq
<1>2. /\ Front(s) \in Seq(S)
      /\ Len(Front(s)) = Len(s) - 1
      /\ \A i \in 1 .. Len(s) - 1 : Front(s)[i] = s[i]
  <2>1. Len(s) - 1 \in 0 .. Len(s)
    BY <1>1
  <2>. QED
    BY <2>1, Prefix DEF Front
<1>3. s[Len(s)] \in S /\ Last(s) = s[Len(s)] /\ Last(s) \in ToSet(s)
  BY <1>1, Elements, ElementOfSeq DEF Last
<1>4. Distinct(Front(s))
  BY <1>1, <1>2 DEF Distinct
<1>5. ToSet(Front(s)) = {s[i] : i \in 1 .. Len(s) - 1}
  BY <1>1, <1>2, Elements, SMTT(40)
<1>6. \A i \in 1 .. Len(s) - 1 : s[i] # Last(s)
  BY <1>1, <1>3 DEF Distinct
<1>7. ToSet(Front(s)) = ToSet(s) \ {Last(s)}
  BY <1>1, <1>3, <1>5, <1>6, Elements
<1>. QED
  BY <1>2, <1>3, <1>4, <1>7

LEMMA Appended ==
  ASSUME NEW S, NEW s \in Seq(S), NEW e \in S, e \notin ToSet(s), Distinct(s)
  PROVE  /\ Append(s, e) \in Seq(S)
         /\ Append(s, e) # <<>>
         /\ Distinct(Append(s, e))
         /\ ToSet(Append(s, e)) = ToSet(s) \cup {e}
         /\ Last(Append(s, e)) = e
<1>1. /\ Append(s, e) \in Seq(S)
      /\ Append(s, e) # <<>>
      /\ Len(Append(s, e)) = Len(s) + 1
      /\ \A i \in 1 .. Len(s) : Append(s, e)[i] = s[i]
      /\ Append(s, e)[Len(s) + 1] = e
  BY AppendProperties
<1>2. Len(s) \in Nat
  BY LenProperties
<1>3. Last(Append(s, e)) = e
  BY <1>1 DEF Last
<1>4. Distinct(Append(s, e))
  BY <1>1, <1>2, Elements DEF Distinct
<1>5. ToSet(Append(s, e)) = ToSet(s) \cup {e}
  <2>1. ToSet(Append(s, e)) = {Append(s, e)[i] : i \in 1 .. Len(s) + 1}
    BY <1>1, Elements
  <2>2. ToSet(s) = {s[i] : i \in 1 .. Len(s)}
    BY Elements
  <2>3. \A i \in 1 .. Len(s) + 1 : i \in 1 .. Len(s) \/ i = Len(s) + 1
    BY <1>2
  <2>4. Len(s) + 1 \in 1 .. Len(s) + 1
        /\ \A i \in 1 .. Len(s) : i \in 1 .. Len(s) + 1
    BY <1>2
  <2>. HIDE <1>2
  <2>. QED
    BY <1>1, <2>1, <2>2, <2>3, <2>4
<1>. QED
  BY <1>1, <1>3, <1>4, <1>5

(***************************************************************************)
(* Removing an element keeps the others, each at a place of its own.       *)
(***************************************************************************)
LEMMA Removed ==
  ASSUME NEW S, NEW s \in Seq(S), NEW i \in 1 .. Len(s)
  PROVE  /\ RemoveAt(s, i) \in Seq(S)
         /\ Len(RemoveAt(s, i)) = Len(s) - 1
         /\ \A j \in 1 .. Len(s) - 1 :
              RemoveAt(s, i)[j] = IF j < i THEN s[j] ELSE s[j + 1]
<1>0. Len(s) \in Nat /\ \A j \in 1 .. Len(s) : s[j] \in S
  BY LenProperties, ElementOfSeq
<1>. DEFINE l == SubSeq(s, 1, i - 1)
            r == SubSeq(s, i + 1, Len(s))
<1>1. /\ l \in Seq(S) /\ Len(l) = i - 1
      /\ \A j \in 1 .. i - 1 : l[j] = s[j]
  BY <1>0, SubSeqProperties
<1>2. /\ r \in Seq(S) /\ Len(r) = Len(s) - i
      /\ \A j \in 1 .. Len(s) - i : r[j] = s[i + j]
  BY <1>0, SubSeqProperties
<1>3. /\ l \o r \in Seq(S)
      /\ Len(l \o r) = Len(l) + Len(r)
      /\ \A j \in 1 .. Len(l) + Len(r) :
           (l \o r)[j] = IF j <= Len(l) THEN l[j] ELSE r[j - Len(l)]
  BY <1>1, <1>2, ConcatProperties
<1>. HIDE DEF l, r
<1>4. \A j \in 1 .. Len(s) - 1 :
        (l \o r)[j] = IF j < i THEN s[j] ELSE s[j + 1]
  <2>. TAKE j \in 1 .. Len(s) - 1
  <2>1. CASE j < i
    BY <2>1, <1>0, <1>1, <1>2, <1>3
  <2>2. CASE j >= i
    <3>1. (l \o r)[j] = r[j - (i - 1)]
      BY <2>2, <1>0, <1>1, <1>2, <1>3, SMTT(40)
    <3>2. j - (i - 1) \in 1 .. Len(s) - i /\ i + (j - (i - 1)) = j + 1
      BY <2>2, <1>0
    <3>3. r[j - (i - 1)] = s[i + (j - (i - 1))]
      BY <3>2, <1>2
    <3>. QED
      BY <2>2, <3>1, <3>2, <3>3, <1>0
  <2>3. j < i \/ j >= i
    BY <1>0
  <2>. QED
    BY <2>1, <2>2, <2>3
<1>5. RemoveAt(s, i) = l \o r
  BY DEF RemoveAt, l, r
<1>. QED
  BY <1>0, <1>1, <1>2, <1>3, <1>4, <1>5

(***************************************************************************)
(* A set of positions that is not empty has a least one.                   *)
(***************************************************************************)
LEMMA LeastPosition ==
  ASSUME NEW I \in SUBSET Nat, I # {}
  PROVE  Min(I) \in I /\ \A i \in I : Min(I) <= i
<1>. DEFINE T == {1 .. m : m \in I}
<1>1. T \subseteq FiniteSubsetsOf(Nat) /\ T # {}
  <2>1. \A m \in Nat : IsFiniteSet(1 .. m) /\ 1 .. m \subseteq Nat
    BY FS_Interval
  <2>. QED
    BY <2>1 DEF FiniteSubsetsOf
<1>. HIDE DEF T
<1>2. PICK x \in T : \A y \in T : ~(<<y, x>> \in StrictSubsetOrdering(Nat))
  <2>1. IsWellFoundedOn(StrictSubsetOrdering(Nat), FiniteSubsetsOf(Nat))
    BY FS_StrictSubsetOrderingWellFounded
  <2>. QED
    BY <1>1, <2>1, WFMin
<1>3. PICK m \in I : x = 1 .. m
  BY DEF T
<1>4. \A i \in I : m <= i
  <2>. SUFFICES ASSUME NEW i \in I, i < m
                PROVE  FALSE
    OBVIOUS
  <2>1. 1 .. i \subseteq 1 .. m /\ m \in 1 .. m /\ m \notin 1 .. i
    OBVIOUS
  <2>2. <<1 .. i, x>> \in StrictSubsetOrdering(Nat)
    BY <1>3, <2>1 DEF StrictSubsetOrdering
  <2>. QED
    BY <1>2, <2>2 DEF T
<1>. QED
  BY <1>4 DEF Min

-----------------------------------------------------------------------------
(***************************************************************************)
(* The inductive invariant.                                                *)
(***************************************************************************)
Asked(id, list) == \E g \in asked : g.id = id /\ g.list = list

HasDead(list) == \E q \in ToSet(list) : ~alive[q]

DeadConnection(id) == \E g \in asked : g.id = id /\ HasDead(g.list)

(***************************************************************************)
(* The profiles that the ports keep are those of the connections asked     *)
(* for, each with its ports, and of these the port is one.                 *)
(***************************************************************************)
ProfilesInv ==
  /\ \A f, g \in asked : f.id = g.id => f = g
  /\ \A p \in Ports : \A f \in ToSet(profiles[p]) :
       Asked(f.id, f.list) /\ p \in ToSet(f.list)
  /\ NoDoubleConnection

(***************************************************************************)
(* What a call has at each place, and that the ports it is in come before  *)
(* the one it goes to.                                                     *)
(***************************************************************************)
Connecting == {"enter", "lock", "dup", "subscribe"}

Shape(a) ==
  /\ a.pc \in Connecting => a.list \in PortLists /\ Asked(a.id, a.list)
  /\ a.pc \in {"enter", "lock", "dup"} => a.k \in 1 .. Len(a.list)
  /\ a.pc \in {"dup", "subscribe", "unsubscribe"} => a.frames # <<>>
  /\ a.pc \in {"idle", "connected", "next", "copy"} => a.frames = <<>>
  /\ a.pc # "idle" => a.at \in Ports
  /\ a.pc \in {"connected", "copy", "call", "unsubscribe"} => a.id \in Conns
  /\ a.pc = "copy" => a.index > 0
  /\ a.pc \in {"copy", "call"} => a.k > 0
  /\ a.pc = "call" /\ a.frames # <<>> => Asked(a.id, a.list)
  /\ Distinct(a.frames)

ListedBefore(list, n) == {list[i] : i \in {j \in 1 .. Len(list) : j < n}}

InOrder(a) ==
  /\ a.pc \in {"enter", "lock", "call"} =>
       ToSet(a.frames) \subseteq ListedBefore(a.list, a.k)
  /\ a.pc = "dup" => ToSet(a.frames) \subseteq ListedBefore(a.list, a.k + 1)
  /\ a.pc = "subscribe" => ToSet(a.frames) \subseteq ToSet(a.list)

(***************************************************************************)
(* Ports that have looked for double connections have none as long as they *)
(* hold their mutexes.                                                     *)
(***************************************************************************)
Looked(a) ==
  IF a.pc = "dup" THEN ToSet(a.frames) \ {Last(a.frames)}
  ELSE IF a.pc \in {"enter", "lock", "subscribe"} THEN ToSet(a.frames)
  ELSE {}

Checked(a) ==
  ~allowDup => \A p \in Looked(a) : ~AlreadyConnected(p, a.list)

(***************************************************************************)
(* A call nested in notify_connect() disconnects dead connections at the   *)
(* port whose mutex was taken last, which keeps the index of the profile.  *)
(***************************************************************************)
Nested(a, o) ==
  /\ o.pc = "dup"
  /\ Shape(o) /\ InOrder(o) /\ Checked(o)
  /\ ToSet(a.frames) \cap ToSet(o.frames) = {}
  /\ ~allowDup
  /\ a.pc \in {"next", "copy", "call", "unsubscribe"}
  /\ a.at = Last(o.frames)
  /\ \A id \in a.todo : DeadConnection(id)
  /\ a.pc \in {"copy", "call"} => DeadConnection(a.id)
  /\ a.pc = "copy" => /\ a.index \in 1 .. Len(profiles[a.at])
                      /\ profiles[a.at][a.index].id = a.id
  /\ a.pc = "call" => HasDead(a.list)

Holds(c, p) == p \in ToSet(act[c].frames) \/ p \in ToSet(outer[c].frames)

ClientInv(c) ==
  /\ Shape(act[c]) /\ InOrder(act[c]) /\ Checked(act[c])
  /\ outer[c] = Idle \/ Nested(act[c], outer[c])
  /\ \A p \in Ports : holder[p] = c <=> Holds(c, p)

ConnInv == TypeOK /\ ProfilesInv /\ \A c \in Clients : ClientInv(c)

-----------------------------------------------------------------------------
(***************************************************************************)
(* Positions in the lists.                                                 *)
(***************************************************************************)
LEMMA ProfileAt ==
  ASSUME TypeOK, NEW p \in Ports, NEW id
  PROVE  /\ ProfileIndex(p, id) \in 0 .. Len(profiles[p])
         /\ ProfileIndex(p, id) = 0 <=> ~HasProfile(p, id)
         /\ ProfileIndex(p, id) # 0 => profiles[p][ProfileIndex(p, id)].id = id
<1>1. profiles[p] \in Seq(Profile)
  BY DEF TypeOK
<1>. DEFINE I == {i \in 1 .. Len(profiles[p]) : profiles[p][i].id = id}
<1>2. ProfileIndex(p, id) = IF I # {} THEN Min(I) ELSE 0
  BY DEF ProfileIndex, SelectInSeq
<1>3. HasProfile(p, id) <=> I # {}
  BY <1>1, Elements DEF HasProfile
<1>4. I \in SUBSET Nat /\ I \subseteq 1 .. Len(profiles[p])
  BY <1>1, LenProperties
<1>5. I # {} => Min(I) \in I
  BY <1>4, LeastPosition
<1>6. Len(profiles[p]) \in Nat
  BY <1>1, LenProperties
<1>7. CASE I # {}
  <2>1. ProfileIndex(p, id) \in I
    BY <1>2, <1>5, <1>7
  <2>. QED
    BY <2>1, <1>3, <1>6, <1>7
<1>8. CASE I = {}
  <2>1. ProfileIndex(p, id) = 0
    BY <1>2, <1>8
  <2>. QED
    BY <2>1, <1>3, <1>6, <1>8
<1>. QED
  BY <1>7, <1>8

LEMMA NextPosition ==
  ASSUME NEW list \in Seq(Ports), NEW p \in Ports
  PROVE  /\ PositionAfter(p, list) \in 1 .. Len(list) + 1
         /\ p \in ToSet(list) => /\ PositionAfter(p, list) - 1 \in 1 .. Len(list)
                                 /\ list[PositionAfter(p, list) - 1] = p
<1>. DEFINE I == {i \in 1 .. Len(list) : list[i] = p}
<1>1. PositionAfter(p, list) = (IF I # {} THEN Min(I) ELSE 0) + 1
  BY DEF PositionAfter, SelectInSeq
<1>2. p \in ToSet(list) <=> I # {}
  BY Elements
<1>3. Len(list) \in Nat /\ I \in SUBSET Nat
  BY LenProperties
<1>4. I # {} => Min(I) \in I
  BY <1>3, LeastPosition
<1>5. CASE I # {}
  <2>. DEFINE m == Min(I)
  <2>1. m \in 1 .. Len(list) /\ list[m] = p
    BY <1>4, <1>5
  <2>2. PositionAfter(p, list) = m + 1
    BY <1>1, <1>5
  <2>. HIDE DEF m
  <2>3. PositionAfter(p, list) - 1 = m
    BY <2>1, <2>2
  <2>. QED
    BY <2>1, <2>2, <2>3, <1>3
<1>6. CASE I = {}
  BY <1>1, <1>2, <1>3, <1>6
<1>. QED
  BY <1>5, <1>6

LEMMA Listed ==
  ASSUME NEW list \in Seq(Ports), NEW k \in Nat
  PROVE  /\ ListedBefore(list, k) \subseteq ToSet(list)
         /\ ListedBefore(list, k) \subseteq ListedBefore(list, k + 1)
         /\ k \in 1 .. Len(list) => list[k] \in ListedBefore(list, k + 1)
         /\ k \in 1 .. Len(list) /\ Distinct(list) =>
              list[k] \notin ListedBefore(list, k)
<1>1. ToSet(list) = {list[i] : i \in 1 .. Len(list)} /\ Len(list) \in Nat
  BY Elements, LenProperties
<1>2. ListedBefore(list, k) \subseteq ToSet(list)
  BY <1>1 DEF ListedBefore
<1>3. ListedBefore(list, k) \subseteq ListedBefore(list, k + 1)
  BY <1>1 DEF ListedBefore
<1>4. k \in 1 .. Len(list) => list[k] \in ListedBefore(list, k + 1)
  BY <1>1 DEF ListedBefore
<1>5. k \in 1 .. Len(list) /\ Distinct(list) => list[k] \notin ListedBefore(list, k)
  BY <1>1 DEF ListedBefore, Distinct
<1>. QED
  BY <1>2, <1>3, <1>4, <1>5

-----------------------------------------------------------------------------
(***************************************************************************)
(* A step of one client leaves what is said of the others alone.           *)
(***************************************************************************)
LEMMA OthersKeep ==
  ASSUME TypeOK, NEW d \in Clients, ClientInv(d),
         act'[d] = act[d], outer'[d] = outer[d],
         \A p \in Ports : holder'[p] = d <=> holder[p] = d,
         \A p \in Ports : holder[p] = d => profiles'[p] = profiles[p],
         asked \subseteq asked', allowDup' = allowDup, alive' = alive
  PROVE  ClientInv(d)'
<1>. DEFINE a == act[d]
            o == outer[d]
<1>0. a \in Call /\ o \in Call
  BY DEF TypeOK
<1>1. Shape(a)' /\ InOrder(a)'
  BY DEF ClientInv, Shape, InOrder, Asked
<1>2. \A p \in Ports : Holds(d, p)' <=> Holds(d, p)
  BY DEF Holds
<1>3. ToSet(a.frames) \subseteq Ports /\ ToSet(o.frames) \subseteq Ports
  BY <1>0, Elements DEF Call
<1>4. \A p \in ToSet(a.frames) \cup ToSet(o.frames) :
        profiles'[p] = profiles[p]
  BY <1>3 DEF ClientInv, Holds
<1>5. Checked(a)'
  BY <1>4 DEF ClientInv, Checked, Looked, AlreadyConnected
<1>6. CASE o = Idle
  BY <1>1, <1>2, <1>5, <1>6 DEF ClientInv
<1>7. CASE Nested(a, o)
  <2>1. Shape(o)' /\ InOrder(o)'
    BY <1>7 DEF Nested, Shape, InOrder, Asked
  <2>2. Checked(o)'
    BY <1>4, <1>7 DEF Nested, Checked, Looked, AlreadyConnected
  <2>3. o.frames # <<>> /\ Distinct(o.frames) /\ o.frames \in Seq(Ports)
    BY <1>0, <1>7 DEF Nested, Shape, Call
  <2>4. profiles'[a.at] = profiles[a.at]
    BY <2>3, <1>4, <1>7, FrontLast DEF Nested
  <2>5. \A id : DeadConnection(id) => DeadConnection(id)'
    BY DEF DeadConnection, HasDead
  <2>6. Nested(a, o)'
    BY <1>7, <2>1, <2>2, <2>4, <2>5 DEF Nested, HasDead
  <2>. QED
    BY <1>1, <1>2, <1>5, <2>6 DEF ClientInv
<1>. QED
  BY <1>6, <1>7 DEF ClientInv

LEMMA StepKeeps ==
  ASSUME ConnInv, NEW c \in Clients, TypeOK', ProfilesInv', ClientInv(c)',
         \A d \in Clients \ {c} : act'[d] = act[d] /\ outer'[d] = outer[d],
         \A p \in Ports : \/ holder'[p] = holder[p]
                          \/ {holder[p], holder'[p]} \subseteq {c, None},
         \A p \in Ports : profiles'[p] = profiles[p] \/ holder[p] = c,
         asked \subseteq asked', allowDup' = allowDup, alive' = alive
  PROVE  ConnInv'
<1>1. ASSUME NEW d \in Clients \ {c}
      PROVE  ClientInv(d)'
  <2>1. \A p \in Ports : holder'[p] = d <=> holder[p] = d
    BY <1>1, ConnectionAssumption
  <2>2. \A p \in Ports : holder[p] = d => profiles'[p] = profiles[p]
    BY <1>1
  <2>3. TypeOK /\ ClientInv(d)
    BY <1>1 DEF ConnInv
  <2>. QED
    BY <1>1, <2>1, <2>2, <2>3, OthersKeep
<1>. QED
  BY <1>1 DEF ConnInv

LEMMA ConnInvInit == Init => ConnInv
<1>. SUFFICES ASSUME Init
              PROVE  ConnInv
  OBVIOUS
<1>0. Idle \in Call
  BY DEF Idle, Call
<1>1. TypeOK
  BY <1>0, ConnectionAssumption DEF Init, TypeOK
<1>2. ProfilesInv
  BY DEF Init, ProfilesInv, NoDoubleConnection, ToSet
<1>3. ASSUME NEW c \in Clients
      PROVE  ClientInv(c)
  <2>1. act[c] = Idle /\ outer[c] = Idle /\ Idle.pc = "idle" /\ Idle.frames = <<>>
    BY DEF Init, Idle
  <2>2. Shape(Idle) /\ InOrder(Idle) /\ Checked(Idle)
    BY <2>1 DEF Shape, InOrder, Checked, Looked, Distinct, Connecting
  <2>3. \A p \in Ports : ~Holds(c, p) /\ holder[p] # c
    BY <2>1, ConnectionAssumption DEF Init, Holds, ToSet
  <2>. QED
    BY <2>1, <2>2, <2>3 DEF ClientInv
<1>. QED
  BY <1>1, <1>2, <1>3 DEF ConnInv

-----------------------------------------------------------------------------
(***************************************************************************)
(* The clients call.                                                       *)
(***************************************************************************)
LEMMA Unnested ==
  ASSUME ConnInv, NEW c \in Clients,
         act[c].pc \notin {"next", "copy", "call", "unsubscribe"}
  PROVE  outer[c] = Idle
BY DEF ConnInv, ClientInv, Nested

LEMMA NoFrames ==
  /\ Idle \in Call /\ Idle.pc = "idle" /\ Idle.frames = <<>> /\ Idle.k = 1
  /\ ToSet(Idle.frames) = {} /\ ToSet(<<>>) = {}
  /\ Distinct(<<>>)
BY DEF Idle, Call, ToSet, Distinct

LEMMA BeginsKeeps ==
  ASSUME ConnInv, NEW c \in Clients, NEW call \in Call, Begins(c, call),
         call.frames = <<>>, call.pc \in {"enter", "next"}, Shape(call)',
         asked \subseteq asked',
         asked' \subseteq [id : Conns, list : PortLists, at : Ports],
         \A f, g \in asked' : f.id = g.id => f = g
  PROVE  ConnInv'
<1>1. TypeOK'
  <2>1. act' \in [Clients -> Call] /\ calls' \in 0 .. MaxCalls
    BY ConnectionAssumption DEF ConnInv, TypeOK, Begins
  <2>. QED
    BY <2>1 DEF ConnInv, TypeOK, Begins, ports
<1>2. ProfilesInv'
  BY DEF ConnInv, ProfilesInv, NoDoubleConnection, Asked, Begins, ports
<1>3. ClientInv(c)'
  <2>1. act'[c] = call /\ outer'[c] = Idle /\ outer[c] = Idle
    BY Unnested DEF ConnInv, TypeOK, Begins
  <2>2. act[c].frames = <<>> /\ holder' = holder
    BY DEF ConnInv, ClientInv, Shape, Begins, ports
  <2>3. InOrder(call)' /\ Checked(call)'
    BY NoFrames DEF InOrder, Checked, Looked
  <2>4. \A p \in Ports : holder'[p] = c <=> Holds(c, p)'
    BY <2>1, <2>2, NoFrames DEF ConnInv, ClientInv, Holds
  <2>. QED
    BY <2>1, <2>3, <2>4 DEF ClientInv
<1>4. \A d \in Clients \ {c} : act'[d] = act[d] /\ outer'[d] = outer[d]
  BY DEF ConnInv, TypeOK, Begins
<1>5. UNCHANGED <<holder, profiles, allowDup, alive>>
  BY DEF Begins, ports
<1>. QED
  BY <1>1, <1>2, <1>3, <1>4, <1>5, StepKeeps

LEMMA ConnectKeeps ==
  ASSUME ConnInv, NEW c \in Clients, Connect(c)
  PROVE  ConnInv'
<1>1. PICK id \in Conns, l \in PortLists : \E at \in ToSet(l) :
        /\ \A f \in asked : f.id # id
        /\ Begins(c, [Idle EXCEPT !.pc = "enter", !.id = id, !.at = at, !.list = l])
        /\ asked' = asked \cup {[id |-> id, list |-> l, at |-> at]}
  BY DEF Connect
<1>2. PICK at \in ToSet(l) :
        /\ \A f \in asked : f.id # id
        /\ Begins(c, [Idle EXCEPT !.pc = "enter", !.id = id, !.at = at, !.list = l])
        /\ asked' = asked \cup {[id |-> id, list |-> l, at |-> at]}
  BY <1>1
<1>3. l \in Seq(Ports) /\ at \in Ports /\ Len(l) \in Nat \ {0}
  BY <1>2, ConnectionAssumption, Elements, LenProperties
<1>. DEFINE call == [Idle EXCEPT !.pc = "enter", !.id = id, !.at = at, !.list = l]
<1>4. /\ call \in Call
      /\ call.pc = "enter" /\ call.id = id /\ call.list = l /\ call.k = 1
      /\ call.at = at /\ call.frames = <<>>
  BY <1>3, NoFrames DEF Call
<1>5. Begins(c, call)
  BY <1>2
<1>. HIDE DEF call
<1>6. Shape(call)'
  <2>1. \E g \in asked' : g.id = id /\ g.list = l
    <3>. DEFINE g == [id |-> id, list |-> l, at |-> at]
    <3>1. g \in asked' /\ g.id = id /\ g.list = l
      BY <1>2
    <3>. QED
      BY <3>1
  <2>2. 1 \in 1 .. Len(l)
    BY <1>3
  <2>. QED
    BY <1>3, <1>4, <2>1, <2>2, NoFrames DEF Shape, Connecting, Asked
<1>7. /\ asked \subseteq asked'
      /\ asked' \subseteq [id : Conns, list : PortLists, at : Ports]
      /\ \A f, g \in asked' : f.id = g.id => f = g
  BY <1>2, <1>3 DEF ConnInv, TypeOK, ProfilesInv
<1>. QED
  BY <1>4, <1>5, <1>6, <1>7, BeginsKeeps

LEMMA DisconnectsKeep ==
  ASSUME ConnInv, NEW c \in Clients, NEW at \in Ports, NEW ids \in SUBSET Conns,
         Begins(c, [Idle EXCEPT !.pc = "next", !.at = at, !.todo = ids]),
         asked' = asked
  PROVE  ConnInv'
<1>. DEFINE call == [Idle EXCEPT !.pc = "next", !.at = at, !.todo = ids]
<1>1. /\ call \in Call
      /\ call.pc = "next" /\ call.at = at /\ call.frames = <<>>
  BY NoFrames DEF Call
<1>2. Begins(c, call)
  OBVIOUS
<1>. HIDE DEF call
<1>3. Shape(call)'
  BY <1>1, NoFrames DEF Shape, Connecting
<1>4. /\ asked' \subseteq [id : Conns, list : PortLists, at : Ports]
      /\ \A f, g \in asked' : f.id = g.id => f = g
  BY DEF ConnInv, TypeOK, ProfilesInv
<1>. QED
  BY <1>1, <1>2, <1>3, <1>4, BeginsKeeps

LEMMA ProfileIds ==
  ASSUME TypeOK, NEW p \in Ports
  PROVE  /\ {f.id : f \in ToSet(profiles[p])} \subseteq Conns
         /\ DeadConnections(p) \subseteq Conns
<1>1. ToSet(profiles[p]) \subseteq Profile
  BY Elements DEF TypeOK
<1>. QED
  BY <1>1 DEF DeadConnections, Profile

LEMMA DisconnectKeeps ==
  ASSUME ConnInv, NEW c \in Clients,
         Disconnect(c) \/ DisconnectAll(c) \/ GetProfiles(c)
  PROVE  ConnInv'
<1>0. TypeOK
  BY DEF ConnInv
<1>1. CASE Disconnect(c)
  <2>1. PICK at \in Ports, id \in Conns :
          Begins(c, [Idle EXCEPT !.pc = "next", !.at = at, !.todo = {id}])
    BY <1>1 DEF Disconnect
  <2>2. asked' = asked /\ {id} \in SUBSET Conns
    BY <1>1 DEF Disconnect
  <2>. QED
    BY <2>1, <2>2, DisconnectsKeep
<1>2. CASE DisconnectAll(c)
  BY <1>0, <1>2, ProfileIds, DisconnectsKeep DEF DisconnectAll
<1>3. CASE GetProfiles(c)
  BY <1>0, <1>3, ProfileIds, DisconnectsKeep DEF GetProfiles
<1>. QED
  BY <1>1, <1>2, <1>3

(***************************************************************************)
(* A port dies.                                                            *)
(***************************************************************************)
LEMMA DieKeeps ==
  ASSUME ConnInv, NEW p \in Ports, Die(p)
  PROVE  ConnInv'
<1>1. /\ UNCHANGED <<allowDup, profiles, connectors, holder, act, outer, calls,
                     asked, cut, missed>>
      /\ alive' \in [Ports -> BOOLEAN]
      /\ \A q : ~alive[q] => ~alive'[q]
  BY DEF ConnInv, TypeOK, Die, ports, history
<1>2. TypeOK' /\ ProfilesInv'
  BY <1>1 DEF ConnInv, TypeOK, ProfilesInv, NoDoubleConnection, Asked
<1>3. ASSUME NEW c \in Clients
      PROVE  ClientInv(c)'
  <2>1. \A id : DeadConnection(id) => DeadConnection(id)'
    BY <1>1 DEF DeadConnection, HasDead
  <2>2. \A l : HasDead(l) => HasDead(l)'
    BY <1>1 DEF HasDead
  <2>3. ClientInv(c)
    BY DEF ConnInv
  <2>4. \A b : Shape(b) => Shape(b)'
    BY <1>1 DEF Shape, Asked
  <2>5. \A b : InOrder(b) => InOrder(b)'
    BY DEF InOrder
  <2>6. \A b : Checked(b) => Checked(b)'
    BY <1>1 DEF Checked, Looked, AlreadyConnected
  <2>7. \A a, o : Nested(a, o) => Nested(a, o)'
    BY <1>1, <2>1, <2>2, <2>4, <2>5, <2>6 DEF Nested
  <2>. QED
    BY <1>1, <2>3, <2>4, <2>5, <2>6, <2>7 DEF ClientInv, Holds
<1>. QED
  BY <1>2, <1>3 DEF ConnInv

-----------------------------------------------------------------------------
(***************************************************************************)
(* A call goes on, and the profiles stay.                                  *)
(***************************************************************************)
LEMMA CallFacts ==
  ASSUME ConnInv, NEW c \in Clients
  PROVE  /\ TypeOK
         /\ act[c] \in Call /\ outer[c] \in Call
         /\ act[c].list \in Seq(Ports) /\ Len(act[c].list) \in Nat
         /\ act[c].frames \in Seq(Ports) /\ Distinct(act[c].frames)
         /\ ToSet(act[c].frames) \subseteq Ports
         /\ \A p \in Ports : holder[p] = c <=> Holds(c, p)
         /\ Shape(act[c]) /\ InOrder(act[c]) /\ Checked(act[c])
         /\ outer[c] = Idle \/ Nested(act[c], outer[c])
<1>1. TypeOK /\ ClientInv(c)
  BY DEF ConnInv
<1>2. act[c] \in Call /\ outer[c] \in Call
  BY <1>1 DEF TypeOK
<1>3. /\ act[c].list \in Seq(Ports) /\ Len(act[c].list) \in Nat
      /\ act[c].frames \in Seq(Ports) /\ ToSet(act[c].frames) \subseteq Ports
  BY <1>2, Elements, LenProperties DEF Call
<1>. QED
  BY <1>1, <1>2, <1>3 DEF ClientInv, Shape

LEMMA GoesOn ==
  ASSUME ConnInv, NEW c \in Clients, NEW b \in Call, NEW o \in Call,
         act' \in [Clients -> Call], outer' \in [Clients -> Call],
         act'[c] = b, outer'[c] = o,
         \A d \in Clients \ {c} : act'[d] = act[d] /\ outer'[d] = outer[d],
         UNCHANGED <<alive, allowDup, profiles, calls, asked>>,
         connectors' \in [Ports -> Seq(Conns)],
         holder' \in [Ports -> Clients \cup {None}],
         cut' \subseteq Conns, missed' \subseteq Conns,
         \A p \in Ports : \/ holder'[p] = holder[p]
                          \/ {holder[p], holder'[p]} \subseteq {c, None},
         \A p \in Ports :
           holder'[p] = c <=> p \in ToSet(b.frames) \/ p \in ToSet(o.frames),
         Shape(b), InOrder(b), Checked(b),
         o = Idle \/ Nested(b, o)
  PROVE  ConnInv'
<1>1. TypeOK' /\ ProfilesInv'
  BY DEF ConnInv, TypeOK, ProfilesInv, NoDoubleConnection, Asked
<1>2. Shape(b)' /\ InOrder(b)' /\ Checked(b)'
  <2>1. Shape(b)'
    BY DEF Shape, Asked
  <2>2. InOrder(b)'
    BY DEF InOrder
  <2>3. Checked(b)'
    BY DEF Checked, Looked, AlreadyConnected
  <2>. QED
    BY <2>1, <2>2, <2>3
<1>3. Nested(b, o) => Nested(b, o)'
  BY DEF Nested, Shape, InOrder, Checked, Looked, AlreadyConnected, Asked,
         DeadConnection, HasDead
<1>4. ClientInv(c)'
  BY <1>2, <1>3 DEF ClientInv, Holds
<1>. QED
  BY <1>1, <1>4, StepKeeps

(***************************************************************************)
(* ... within the same ports.                                              *)
(***************************************************************************)
LEMMA Moves ==
  ASSUME ConnInv, NEW c \in Clients, NEW b \in Call,
         act' = [act EXCEPT ![c] = b],
         UNCHANGED <<alive, allowDup, profiles, holder, outer, calls, asked, cut>>,
         connectors' \in [Ports -> Seq(Conns)], missed' \subseteq Conns,
         ToSet(b.frames) = ToSet(act[c].frames),
         Shape(b), InOrder(b), Checked(b),
         outer[c] = Idle \/ Nested(b, outer[c])
  PROVE  ConnInv'
<1>1. TypeOK /\ outer[c] \in Call
  BY CallFacts
<1>2. \A p \in Ports :
        holder'[p] = c <=> p \in ToSet(b.frames) \/ p \in ToSet(outer[c].frames)
  BY CallFacts DEF Holds
<1>3. /\ act' \in [Clients -> Call] /\ act'[c] = b
      /\ \A d \in Clients \ {c} : act'[d] = act[d]
  BY <1>1 DEF TypeOK
<1>4. /\ outer' \in [Clients -> Call]
      /\ holder' \in [Ports -> Clients \cup {None}]
      /\ cut' \subseteq Conns
  BY <1>1 DEF TypeOK
<1>. QED
  BY <1>1, <1>2, <1>3, <1>4, GoesOn

-----------------------------------------------------------------------------
(***************************************************************************)
(* The steps of notify_connect().                                          *)
(***************************************************************************)
LEMMA AskedIds ==
  ASSUME TypeOK, NEW id, NEW l, Asked(id, l)
  PROVE  id \in Conns /\ l \in PortLists
BY DEF TypeOK, Asked

LEMMA IdleInv == Shape(Idle) /\ InOrder(Idle) /\ Checked(Idle)
BY NoFrames DEF Shape, InOrder, Checked, Looked, Connecting

LEMMA CallRaisesKeeps ==
  ASSUME ConnInv, NEW c \in Clients, CallRaises(c)
  PROVE  ConnInv'
<1>. DEFINE a == act[c]
<1>1. a.pc = "enter" /\ outer[c] = Idle /\ a \in Call
  BY Unnested, CallFacts DEF CallRaises
<1>2. a.id \in Conns
  BY <1>1, CallFacts, AskedIds DEF Shape, Connecting
<1>3. /\ act' = [act EXCEPT ![c] = Idle]
      /\ outer' = outer /\ cut' = cut \cup {a.id}
      /\ UNCHANGED <<alive, allowDup, profiles, connectors, calls, asked, missed>>
      /\ holder' = [p \in Ports |-> IF p \in ToSet(a.frames) THEN None
                                                             ELSE holder[p]]
  BY DEF CallRaises
<1>4. \A p \in Ports : holder[p] = c <=> p \in ToSet(a.frames)
  BY <1>1, CallFacts, NoFrames DEF Holds
<1>5. \A p \in Ports : \/ holder'[p] = holder[p]
                       \/ {holder[p], holder'[p]} \subseteq {c, None}
  BY <1>3, <1>4
<1>6. \A p \in Ports : holder'[p] # c
  BY <1>3, <1>4, ConnectionAssumption
<1>7. TypeOK
  BY CallFacts
<1>8. /\ act' \in [Clients -> Call] /\ act'[c] = Idle
      /\ outer' \in [Clients -> Call] /\ outer'[c] = Idle
      /\ \A d \in Clients \ {c} : act'[d] = act[d] /\ outer'[d] = outer[d]
      /\ holder' \in [Ports -> Clients \cup {None}]
      /\ connectors' \in [Ports -> Seq(Conns)]
      /\ cut' \subseteq Conns /\ missed' \subseteq Conns
  BY <1>1, <1>2, <1>3, <1>7, NoFrames DEF TypeOK
<1>. QED
  BY <1>3, <1>5, <1>6, <1>8, NoFrames, IdleInv, GoesOn

LEMMA CheckFanKeeps ==
  ASSUME ConnInv, NEW c \in Clients, CheckFan(c)
  PROVE  ConnInv'
<1>. DEFINE a == act[c]
<1>1. a.pc = "enter" /\ outer[c] = Idle /\ a \in Call
  BY Unnested, CallFacts DEF CheckFan
<1>2. PICK b \in {[a EXCEPT !.pc = Unwound(a.frames), !.bad = TRUE],
                  [a EXCEPT !.pc = "lock"]} : act' = [act EXCEPT ![c] = b]
  BY DEF CheckFan
<1>3. /\ b \in Call /\ b.pc \in {Unwound(a.frames), "lock"}
      /\ b.list = a.list /\ b.k = a.k /\ b.id = a.id /\ b.frames = a.frames
      /\ b.at = a.at
  BY <1>1, <1>2, ZenonT(40) DEF Call, Unwound
<1>4. Asked(a.id, a.list) /\ a.list \in PortLists /\ a.id \in Conns
  BY <1>1, CallFacts, AskedIds DEF Shape, Connecting
<1>5. Shape(b)
  BY <1>1, <1>3, <1>4, CallFacts DEF Shape, Connecting, Unwound
<1>6. InOrder(b)
  <2>1. a.k \in Nat /\ InOrder(a) /\ a.list \in Seq(Ports)
    BY <1>1, CallFacts DEF Call
  <2>2. ToSet(a.frames) \subseteq ToSet(a.list)
    BY <1>1, <2>1, Listed DEF InOrder
  <2>. QED
    BY <1>1, <1>3, <2>1, <2>2 DEF InOrder, Unwound
<1>7. Checked(b)
  BY <1>1, <1>3, CallFacts DEF Checked, Looked, Unwound
<1>8. /\ UNCHANGED <<alive, allowDup, profiles, connectors, holder, outer,
                     calls, asked, cut, missed>>
      /\ TypeOK
  BY CallFacts DEF CheckFan, ports, history
<1>. QED
  BY <1>1, <1>2, <1>3, <1>5, <1>6, <1>7, <1>8, Moves DEF TypeOK

LEMMA LockPortKeeps ==
  ASSUME ConnInv, NEW c \in Clients, LockPort(c)
  PROVE  ConnInv'
<1>. DEFINE a == act[c]
            p == a.list[a.k]
            inside == [a EXCEPT !.pc = "dup", !.frames = Append(a.frames, p)]
            dead == IF allowDup THEN {} ELSE DeadConnections(p)
            asking == [Idle EXCEPT !.pc = "next", !.at = p, !.todo = dead]
<1>1. a.pc = "lock" /\ outer[c] = Idle /\ a \in Call
  BY Unnested, CallFacts DEF LockPort
<1>2. /\ holder[p] = None
      /\ holder' = [holder EXCEPT ![p] = c]
      /\ UNCHANGED <<alive, allowDup, profiles, connectors, calls, asked, cut,
                     missed>>
  BY DEF LockPort, history
<1>3. \/ dead = {} /\ act' = [act EXCEPT ![c] = inside] /\ outer' = outer
      \/ /\ dead # {}
         /\ act' = [act EXCEPT ![c] = asking]
         /\ outer' = [outer EXCEPT ![c] = inside]
  BY DEF LockPort
<1>4. a.k \in 1 .. Len(a.list) /\ p \in Ports
  BY <1>1, CallFacts, ElementOfSeq DEF Shape
<1>5. p \notin ToSet(a.frames)
  BY <1>2, <1>4, CallFacts, ConnectionAssumption DEF Holds
<1>6. /\ Append(a.frames, p) \in Seq(Ports)
      /\ Append(a.frames, p) # <<>>
      /\ Distinct(Append(a.frames, p))
      /\ ToSet(Append(a.frames, p)) = ToSet(a.frames) \cup {p}
      /\ Last(Append(a.frames, p)) = p
  <2>1. a.frames \in Seq(Ports) /\ Distinct(a.frames) /\ p \in Ports
    BY <1>4, CallFacts
  <2>. HIDE DEF a, p
  <2>. QED
    BY <1>5, <2>1, Appended
<1>7. /\ inside \in Call /\ inside.pc = "dup"
      /\ inside.frames = Append(a.frames, p)
      /\ inside.list = a.list /\ inside.k = a.k /\ inside.id = a.id
      /\ inside.at = a.at
  BY <1>1, <1>6 DEF Call
<1>8. dead \subseteq Conns /\ \A id \in dead : ~allowDup /\ DeadConnection(id)
  <2>1. dead \subseteq Conns
    BY <1>4, CallFacts, ProfileIds
  <2>2. ASSUME NEW f \in ToSet(profiles[p]), \E q \in ToSet(f.list) : ~alive[q]
        PROVE  DeadConnection(f.id)
    BY <1>4, <2>2 DEF ConnInv, ProfilesInv, Asked, DeadConnection, HasDead
  <2>. QED
    BY <2>1, <2>2 DEF DeadConnections
<1>9. /\ asking \in Call /\ asking.pc = "next" /\ asking.at = p
      /\ asking.todo = dead /\ asking.frames = <<>>
  BY <1>4, <1>8, NoFrames DEF Call
<1>. HIDE DEF inside, asking, dead
<1>10. Shape(inside)
  BY <1>1, <1>4, <1>6, <1>7, CallFacts DEF Shape, Connecting
<1>11. InOrder(inside)
  <2>1. a.k \in Nat /\ InOrder(a) /\ a.list \in Seq(Ports)
    BY <1>1, CallFacts DEF Call
  <2>2. /\ ToSet(a.frames) \subseteq ListedBefore(a.list, a.k + 1)
        /\ p \in ListedBefore(a.list, a.k + 1)
    BY <1>1, <1>4, <2>1, Listed DEF InOrder
  <2>. QED
    BY <1>6, <1>7, <2>2 DEF InOrder
<1>12. Checked(inside)
  BY <1>1, <1>5, <1>6, <1>7, CallFacts DEF Checked, Looked
<1>13. \A q \in Ports : \/ holder'[q] = holder[q]
                        \/ {holder[q], holder'[q]} \subseteq {c, None}
  BY <1>2, CallFacts DEF TypeOK
<1>14. \A q \in Ports : holder'[q] = c <=> q \in ToSet(inside.frames)
  <2>1. outer[c].frames = <<>> /\ ToSet(<<>>) = {}
    BY <1>1, NoFrames
  <2>2. ToSet(inside.frames) = ToSet(a.frames) \cup {p}
    BY <1>6, <1>7
  <2>3. \A q \in Ports : holder[q] = c <=> q \in ToSet(a.frames)
    BY <2>1, CallFacts DEF Holds
  <2>4. \A q \in Ports : holder'[q] = IF q = p THEN c ELSE holder[q]
    BY <1>2, CallFacts DEF TypeOK
  <2>. QED
    BY <2>2, <2>3, <2>4
<1>15. /\ holder' \in [Ports -> Clients \cup {None}]
       /\ connectors' \in [Ports -> Seq(Conns)]
       /\ cut' \subseteq Conns /\ missed' \subseteq Conns
  BY <1>2, CallFacts DEF TypeOK
<1>16. CASE act' = [act EXCEPT ![c] = inside] /\ outer' = outer
  <2>1. /\ act' \in [Clients -> Call] /\ act'[c] = inside
        /\ outer' \in [Clients -> Call] /\ outer'[c] = Idle
        /\ \A d \in Clients \ {c} : act'[d] = act[d] /\ outer'[d] = outer[d]
    BY <1>1, <1>7, <1>16, CallFacts DEF TypeOK
  <2>. QED
    BY <1>2, <1>7, <1>10, <1>11, <1>12, <1>13, <1>14, <1>15, <2>1, NoFrames,
       GoesOn
<1>17. CASE dead # {} /\ act' = [act EXCEPT ![c] = asking]
                      /\ outer' = [outer EXCEPT ![c] = inside]
  <2>1. /\ act' \in [Clients -> Call] /\ act'[c] = asking
        /\ outer' \in [Clients -> Call] /\ outer'[c] = inside
        /\ \A d \in Clients \ {c} : act'[d] = act[d] /\ outer'[d] = outer[d]
    BY <1>7, <1>9, <1>17, CallFacts DEF TypeOK
  <2>2. Shape(asking) /\ InOrder(asking) /\ Checked(asking)
    BY <1>4, <1>9, NoFrames DEF Shape, InOrder, Checked, Looked, Connecting
  <2>3. Nested(asking, inside)
    BY <1>6, <1>7, <1>8, <1>9, <1>10, <1>11, <1>12, <1>17, NoFrames DEF Nested
  <2>4. \A q \in Ports : holder'[q] = c <=>
          q \in ToSet(asking.frames) \/ q \in ToSet(inside.frames)
    BY <1>9, <1>14, NoFrames
  <2>. QED
    BY <1>2, <1>7, <1>9, <1>13, <1>15, <2>1, <2>2, <2>3, <2>4, GoesOn
<1>. QED
  BY <1>3, <1>16, <1>17

LEMMA RefuseDuplicateKeeps ==
  ASSUME ConnInv, NEW c \in Clients, RefuseDuplicate(c)
  PROVE  ConnInv'
<1>. DEFINE a == act[c]
            p == Last(a.frames)
            b == [a EXCEPT !.pc = Unwound(Front(a.frames)), !.bad = TRUE,
                           !.frames = Front(a.frames)]
<1>1. a.pc = "dup" /\ outer[c] = Idle /\ a \in Call
  BY Unnested, CallFacts DEF RefuseDuplicate
<1>2. /\ holder' = [holder EXCEPT ![p] = None]
      /\ act' = [act EXCEPT ![c] = b]
      /\ UNCHANGED <<alive, allowDup, profiles, connectors, outer, calls, asked,
                     cut, missed>>
  BY DEF RefuseDuplicate, history
<1>3. a.frames # <<>> /\ Distinct(a.frames) /\ a.frames \in Seq(Ports)
  BY <1>1, CallFacts DEF Shape
<1>4. /\ p \in Ports /\ p \in ToSet(a.frames)
      /\ Front(a.frames) \in Seq(Ports) /\ Distinct(Front(a.frames))
      /\ ToSet(Front(a.frames)) = ToSet(a.frames) \ {p}
  BY <1>3, FrontLast
<1>5. /\ b \in Call /\ b.pc = Unwound(Front(a.frames))
      /\ b.frames = Front(a.frames)
      /\ b.list = a.list /\ b.k = a.k /\ b.id = a.id /\ b.at = a.at
  BY <1>1, <1>4 DEF Call, Unwound
<1>. HIDE DEF b, p
<1>6. Asked(a.id, a.list) /\ a.list \in PortLists /\ a.id \in Conns
  BY <1>1, CallFacts, AskedIds DEF Shape, Connecting
<1>7. Shape(b)
  BY <1>1, <1>4, <1>5, <1>6, CallFacts DEF Shape, Connecting, Unwound
<1>8. InOrder(b)
  <2>1. a.k \in Nat /\ a.k + 1 \in Nat /\ InOrder(a) /\ a.list \in Seq(Ports)
    BY <1>1, CallFacts DEF Call
  <2>2. ToSet(a.frames) \subseteq ToSet(a.list)
    BY <1>1, <2>1, Listed DEF InOrder
  <2>. QED
    BY <1>4, <1>5, <2>2 DEF InOrder, Unwound
<1>9. Checked(b)
  BY <1>1, <1>4, <1>5, CallFacts DEF Checked, Looked, Unwound, p
<1>10. \A q \in Ports : holder[q] = c <=> q \in ToSet(a.frames)
  BY <1>1, CallFacts, NoFrames DEF Holds
<1>11. \A q \in Ports : holder'[q] = IF q = p THEN None ELSE holder[q]
  BY <1>2, CallFacts DEF TypeOK
<1>12. /\ \A q \in Ports : \/ holder'[q] = holder[q]
                           \/ {holder[q], holder'[q]} \subseteq {c, None}
       /\ \A q \in Ports : holder'[q] = c <=> q \in ToSet(b.frames)
  BY <1>4, <1>5, <1>10, <1>11, ConnectionAssumption
<1>13. /\ act' \in [Clients -> Call] /\ act'[c] = b
       /\ outer' \in [Clients -> Call] /\ outer'[c] = Idle
       /\ \A d \in Clients \ {c} : act'[d] = act[d] /\ outer'[d] = outer[d]
       /\ holder' \in [Ports -> Clients \cup {None}]
       /\ connectors' \in [Ports -> Seq(Conns)]
       /\ cut' \subseteq Conns /\ missed' \subseteq Conns
  BY <1>1, <1>2, <1>5, CallFacts DEF TypeOK
<1>. QED
  BY <1>2, <1>5, <1>7, <1>8, <1>9, <1>12, <1>13, NoFrames, GoesOn

LEMMA PublishKeeps ==
  ASSUME ConnInv, NEW c \in Clients, Publish(c)
  PROVE  ConnInv'
<1>. DEFINE a == act[c]
            p == Last(a.frames)
<1>1. /\ a.pc = "dup" /\ outer[c] = Idle /\ a \in Call
      /\ ~allowDup => ~AlreadyConnected(p, a.list)
  BY Unnested, CallFacts DEF Publish
<1>. DEFINE last == a.k = Len(a.list)
            pub == a.pub \/ (p \in Providers /\ ~AtLimit(p))
            bad == a.bad \/ AtLimit(p)
            pc == IF last THEN "subscribe" ELSE "enter"
            k == IF last THEN a.k ELSE a.k + 1
            b == [a EXCEPT !.pc = pc, !.k = k, !.pub = pub, !.bad = bad]
<1>2. /\ act' = [act EXCEPT ![c] = b]
      /\ UNCHANGED <<alive, allowDup, profiles, holder, outer, calls, asked, cut,
                     missed>>
  BY DEF Publish, history
<1>3. pub \in BOOLEAN /\ bad \in BOOLEAN
  BY <1>1 DEF Call
<1>4. Asked(a.id, a.list) /\ a.list \in PortLists /\ a.id \in Conns
  BY <1>1, CallFacts, AskedIds DEF Shape, Connecting
<1>5. a.k \in 1 .. Len(a.list) /\ Len(a.list) \in Nat
  BY <1>1, CallFacts DEF Shape
<1>6. /\ b \in Call /\ b.pc = pc /\ b.k = k
      /\ b.frames = a.frames
      /\ b.list = a.list /\ b.id = a.id /\ b.at = a.at
  <2>1. pc \in {"subscribe", "enter"} /\ k \in Nat
    BY <1>5
  <2>. HIDE DEF pc, k, pub, bad
  <2>. QED
    BY <1>1, <1>3, <2>1 DEF Call
<1>. HIDE DEF pub, bad
<1>7. connectors' \in [Ports -> Seq(Conns)]
  <2>1. p \in Ports
    BY <1>1, CallFacts, FrontLast DEF Shape
  <2>2. Append(connectors[p], a.id) \in Seq(Conns)
    BY <1>4, <2>1, CallFacts, AppendProperties DEF TypeOK
  <2>3. \/ connectors' = connectors
        \/ connectors' = [connectors EXCEPT ![p] = Append(connectors[p], a.id)]
    BY DEF Publish
  <2>. QED
    BY <2>1, <2>2, <2>3, CallFacts, ZenonT(40) DEF TypeOK
<1>. HIDE DEF b
<1>8. Shape(b)
  BY <1>1, <1>4, <1>5, <1>6, CallFacts DEF Shape, Connecting
<1>9. InOrder(b)
  <2>1. a.k \in Nat /\ a.k + 1 \in Nat /\ InOrder(a) /\ a.list \in Seq(Ports)
    BY <1>1, CallFacts DEF Call
  <2>2. /\ ToSet(a.frames) \subseteq ListedBefore(a.list, a.k + 1)
        /\ ToSet(a.frames) \subseteq ToSet(a.list)
    BY <1>1, <2>1, Listed DEF InOrder
  <2>. QED
    BY <1>6, <2>2 DEF InOrder
<1>10. Checked(b)
  BY <1>1, <1>6, CallFacts DEF Checked, Looked
<1>11. TypeOK
  BY CallFacts
<1>. QED
  BY <1>1, <1>2, <1>6, <1>7, <1>8, <1>9, <1>10, <1>11, Moves DEF TypeOK

LEMMA CleanUpKeeps ==
  ASSUME ConnInv, NEW c \in Clients, CleanUp(c)
  PROVE  ConnInv'
<1>. DEFINE a == act[c]
            cleaning == [Idle EXCEPT !.pc = "next", !.at = a.at, !.todo = {a.id}]
<1>1. /\ a.pc = "connected" /\ outer[c] = Idle /\ a \in Call
      /\ a.at \in Ports /\ a.id \in Conns /\ a.frames = <<>>
  BY Unnested, CallFacts DEF CleanUp, Shape
<1>2. /\ act' = [act EXCEPT ![c] = cleaning] \/ act' = [act EXCEPT ![c] = Idle]
      /\ UNCHANGED <<alive, allowDup, profiles, connectors, holder, outer, calls,
                     asked, cut, missed>>
  BY DEF CleanUp, ports, history
<1>3. /\ cleaning \in Call /\ cleaning.pc = "next" /\ cleaning.at = a.at
      /\ cleaning.frames = <<>>
  BY <1>1, NoFrames DEF Call
<1>. HIDE DEF cleaning
<1>4. Shape(cleaning) /\ InOrder(cleaning) /\ Checked(cleaning)
  BY <1>1, <1>3, NoFrames DEF Shape, InOrder, Checked, Looked, Connecting
<1>5. TypeOK
  BY CallFacts
<1>. QED
  BY <1>1, <1>2, <1>3, <1>4, <1>5, NoFrames, IdleInv, Moves DEF TypeOK

(***************************************************************************)
(* A profile is stored: in place of one with its identifier, or at the end.*)
(***************************************************************************)
LEMMA Stored ==
  ASSUME NEW s \in Seq(Profile), NEW f \in Profile, NEW i \in 0 .. Len(s), NEW t,
         \/ i = 0 /\ t = Append(s, f)
         \/ i # 0 /\ t = [s EXCEPT ![i] = f]
  PROVE  /\ t \in Seq(Profile)
         /\ ToSet(t) \subseteq ToSet(s) \cup {f}
         /\ \E n \in 1 .. Len(t) :
              /\ t[n] = f
              /\ \A j \in 1 .. Len(t) : j # n => j \in 1 .. Len(s) /\ t[j] = s[j]
<1>1. t \in Seq(Profile) /\ Len(s) \in Nat
      /\ \E n \in 1 .. Len(t) :
           /\ t[n] = f
           /\ \A j \in 1 .. Len(t) : j # n => j \in 1 .. Len(s) /\ t[j] = s[j]
  <2>0. Len(s) \in Nat
    BY LenProperties
  <2>1. CASE i = 0
    <3>1. t = Append(s, f)
      BY <2>1
    <3>2. /\ t \in Seq(Profile) /\ Len(t) = Len(s) + 1
          /\ \A j \in 1 .. Len(s) : t[j] = s[j]
          /\ t[Len(s) + 1] = f
      BY <3>1, AppendProperties
    <3>3. \A j \in 1 .. Len(t) : j # Len(s) + 1 => j \in 1 .. Len(s) /\ t[j] = s[j]
      BY <2>0, <3>2
    <3>4. Len(s) + 1 \in 1 .. Len(t)
      BY <2>0, <3>2
    <3>. QED
      BY <2>0, <3>2, <3>3, <3>4
  <2>2. CASE i # 0
    <3>1. i \in 1 .. Len(s) /\ t = [s EXCEPT ![i] = f]
      BY <2>0, <2>2
    <3>2. /\ t \in Seq(Profile) /\ Len(t) = Len(s)
          /\ \A j \in 1 .. Len(s) : t[j] = IF j = i THEN f ELSE s[j]
      BY <3>1, ExceptSeq
    <3>. QED
      BY <2>0, <3>1, <3>2, ZenonT(40)
  <2>. QED
    BY <2>1, <2>2
<1>2. ToSet(t) = {t[j] : j \in 1 .. Len(t)}
  BY DEF ToSet
<1>5. ToSet(s) = {s[j] : j \in 1 .. Len(s)}
  BY DEF ToSet
<1>3. \A j \in 1 .. Len(t) : t[j] = f \/ (j \in 1 .. Len(s) /\ t[j] = s[j])
  BY <1>1
<1>4. ASSUME NEW j \in 1 .. Len(t)
      PROVE  t[j] \in ToSet(s) \cup {f}
  BY <1>5, <1>3
<1>. QED
  BY <1>1, <1>2, <1>4

LEMMA SubscribeKeeps ==
  ASSUME ConnInv, NEW c \in Clients, Subscribe(c)
  PROVE  ConnInv'
<1>. DEFINE a == act[c]
            p == Last(a.frames)
            i == ProfileIndex(p, a.id)
            new == ProfileOf(a)
            fails == IF p \in Providers THEN ~HasConnector(p, a.id) ELSE ~a.pub
            bad == a.bad \/ fails
            after == [a EXCEPT !.pc = Unwound(Front(a.frames)),
                               !.frames = Front(a.frames), !.bad = bad]
<1>1. a.pc = "subscribe" /\ outer[c] = Idle /\ a \in Call
  BY Unnested, CallFacts DEF Subscribe
<1>2. /\ holder' = [holder EXCEPT ![p] = None]
      /\ act' = [act EXCEPT ![c] = after]
      /\ profiles' = [profiles EXCEPT ![p] = IF i = 0 THEN Append(@, new)
                                                      ELSE [@ EXCEPT ![i] = new]]
      /\ connectors' = connectors
           \/ connectors' = [connectors EXCEPT ![p] = Append(connectors[p], a.id)]
      /\ UNCHANGED <<alive, allowDup, outer, calls, asked, cut, missed>>
  BY DEF Subscribe, history
<1>3. a.frames # <<>> /\ Distinct(a.frames) /\ a.frames \in Seq(Ports)
  BY <1>1, CallFacts DEF Shape
<1>4. /\ p \in Ports /\ p \in ToSet(a.frames)
      /\ Front(a.frames) \in Seq(Ports) /\ Distinct(Front(a.frames))
      /\ ToSet(Front(a.frames)) = ToSet(a.frames) \ {p}
  BY <1>3, FrontLast
<1>5. bad \in BOOLEAN
  BY <1>1 DEF Call
<1>. HIDE DEF bad
<1>6. PICK b \in Call :
        /\ b.pc = Unwound(Front(a.frames)) /\ b.frames = Front(a.frames)
        /\ b.list = a.list /\ b.id = a.id /\ b.at = a.at
        /\ act' = [act EXCEPT ![c] = b]
  <2>1. /\ after \in Call
        /\ after.pc = Unwound(Front(a.frames)) /\ after.frames = Front(a.frames)
        /\ after.list = a.list /\ after.id = a.id /\ after.at = a.at
    BY <1>1, <1>4, <1>5 DEF Call, Unwound
  <2>. QED
    BY <1>2, <2>1
<1>7. Asked(a.id, a.list) /\ a.list \in PortLists /\ a.id \in Conns
  BY <1>1, CallFacts, AskedIds DEF Shape, Connecting
<1>8. p \in ToSet(a.list) /\ ToSet(a.frames) \subseteq ToSet(a.list)
  BY <1>1, <1>4, CallFacts, ZenonT(40) DEF InOrder
<1>9. /\ ~allowDup => \A q \in ToSet(a.frames) : ~AlreadyConnected(q, a.list)
      /\ \A q \in Ports : holder[q] = c <=> q \in ToSet(a.frames)
  BY <1>1, CallFacts, NoFrames DEF Checked, Looked, Holds
<1>10. /\ new \in Profile /\ new.id = a.id /\ new.list = a.list
       /\ profiles[p] \in Seq(Profile) /\ i \in 0 .. Len(profiles[p])
  <2>1. new \in Profile /\ new.id = a.id /\ new.list = a.list
    BY <1>7 DEF ProfileOf, Profile
  <2>2. TypeOK
    BY CallFacts
  <2>. QED
    BY <1>4, <2>1, <2>2, ProfileAt DEF TypeOK
<1>. HIDE DEF after, p, i, new
<1>11. /\ profiles'[p] = IF i = 0 THEN Append(profiles[p], new)
                                  ELSE [profiles[p] EXCEPT ![i] = new]
       /\ \A q \in Ports \ {p} : profiles'[q] = profiles[q]
  BY <1>2, <1>4, CallFacts DEF TypeOK
<1>12. /\ profiles'[p] \in Seq(Profile)
       /\ ToSet(profiles'[p]) \subseteq ToSet(profiles[p]) \cup {new}
       /\ \E n \in 1 .. Len(profiles'[p]) :
            /\ profiles'[p][n] = new
            /\ \A j \in 1 .. Len(profiles'[p]) : j # n =>
                 /\ j \in 1 .. Len(profiles[p])
                 /\ profiles'[p][j] = profiles[p][j]
  <2>. DEFINE s == profiles[p]
              t == profiles'[p]
  <2>1. s \in Seq(Profile) /\ i \in 0 .. Len(s) /\ new \in Profile
        /\ \/ i = 0 /\ t = Append(s, new)
           \/ i # 0 /\ t = [s EXCEPT ![i] = new]
    BY <1>10, <1>11
  <2>. HIDE DEF s, t
  <2>2. /\ t \in Seq(Profile)
        /\ ToSet(t) \subseteq ToSet(s) \cup {new}
        /\ \E n \in 1 .. Len(t) :
             /\ t[n] = new
             /\ \A j \in 1 .. Len(t) : j # n => j \in 1 .. Len(s) /\ t[j] = s[j]
    BY <2>1, Stored
  <2>. QED
    BY <2>2 DEF s, t
<1>13. NoDoubleConnection'
  <2>. SUFFICES ASSUME ~allowDup
                PROVE  NoDoubleConnection'
    BY <1>2 DEF NoDoubleConnection
  <2>1. PICK n \in 1 .. Len(profiles'[p]) :
            /\ profiles'[p][n] = new
            /\ \A j \in 1 .. Len(profiles'[p]) : j # n =>
                 /\ j \in 1 .. Len(profiles[p])
                 /\ profiles'[p][j] = profiles[p][j]
    BY <1>12
  <2>2. \A j \in 1 .. Len(profiles[p]) :
          \A q \in ToSet(a.list) \ {p} : q \notin ToSet(profiles[p][j].list)
    <3>1. ToSet(profiles[p]) = {profiles[p][j] : j \in 1 .. Len(profiles[p])}
      BY <1>10, Elements
    <3>2. ~AlreadyConnected(p, a.list)
      BY <1>4, <1>9
    <3>. QED
      BY <3>1, <3>2 DEF AlreadyConnected
  <2>3. NoDoubleConnection
    BY DEF ConnInv, ProfilesInv
  <2>4. ASSUME NEW j \in 1 .. Len(profiles'[p]), NEW k \in 1 .. Len(profiles'[p]),
               NEW q \in Ports \ {p},
               q \in ToSet(profiles'[p][j].list), q \in ToSet(profiles'[p][k].list)
        PROVE  j = k
    <3>1. CASE j = n /\ k # n
      BY <1>10, <2>1, <2>2, <2>4, <3>1
    <3>2. CASE j # n /\ k = n
      BY <1>10, <2>1, <2>2, <2>4, <3>2
    <3>3. CASE j # n /\ k # n
      BY <1>4, <2>1, <2>3, <2>4, <3>3 DEF NoDoubleConnection
    <3>. QED
      BY <3>1, <3>2, <3>3
  <2>. QED
    <3>. SUFFICES ASSUME NEW r \in Ports,
                         NEW j \in 1 .. Len(profiles'[r]),
                         NEW k \in 1 .. Len(profiles'[r]), NEW q \in Ports \ {r},
                         q \in ToSet(profiles'[r][j].list),
                         q \in ToSet(profiles'[r][k].list)
                  PROVE  j = k
      BY DEF NoDoubleConnection
    <3>1. CASE r = p
      BY <2>4, <3>1
    <3>2. CASE r # p
      <4>1. profiles'[r] = profiles[r]
        BY <1>11, <3>2
      <4>. QED
        BY <2>3, <4>1 DEF NoDoubleConnection
    <3>. QED
      BY <3>1, <3>2
<1>14. ProfilesInv'
  <2>1. ASSUME NEW q \in Ports, NEW f \in ToSet(profiles'[q])
        PROVE  Asked(f.id, f.list) /\ q \in ToSet(f.list)
    BY <1>7, <1>8, <1>10, <1>11, <1>12, <2>1 DEF ConnInv, ProfilesInv
  <2>. QED
    BY <1>2, <1>13, <2>1 DEF ConnInv, ProfilesInv, Asked
<1>15. TypeOK'
  <2>1. profiles' \in [Ports -> Seq(Profile)]
    BY <1>2, <1>4, <1>11, <1>12, CallFacts DEF TypeOK
  <2>2. Append(connectors[p], a.id) \in Seq(Conns)
    BY <1>4, <1>7, CallFacts, AppendProperties DEF TypeOK
  <2>3. connectors' \in [Ports -> Seq(Conns)]
    BY <1>2, <1>4, <2>2, CallFacts, ZenonT(40) DEF TypeOK
  <2>4. holder' \in [Ports -> Clients \cup {None}]
    BY <1>2, CallFacts DEF TypeOK
  <2>5. act' \in [Clients -> Call]
    BY <1>6, CallFacts DEF TypeOK
  <2>. QED
    BY <1>2, <2>1, <2>3, <2>4, <2>5, CallFacts DEF TypeOK
<1>16. Shape(b)'
  <2>1. Shape(b)
    BY <1>1, <1>4, <1>6, <1>7, CallFacts DEF Shape, Connecting, Unwound
  <2>. QED
    BY <1>2, <2>1 DEF Shape, Asked
<1>17. ToSet(b.frames) = ToSet(a.frames) \ {p}
  BY <1>4, <1>6
<1>18. InOrder(b)' /\ Checked(b)'
  <2>1. InOrder(b)'
    BY <1>4, <1>6, <1>8, NoFrames DEF InOrder, Unwound
  <2>2. \A q \in ToSet(b.frames) : profiles'[q] = profiles[q]
    BY <1>11, <1>17, CallFacts
  <2>3. Looked(b) \subseteq ToSet(b.frames)
    BY DEF Looked
  <2>4. ~allowDup => \A q \in ToSet(b.frames) : ~AlreadyConnected(q, b.list)
    BY <1>6, <1>9, <1>17
  <2>. QED
    BY <1>2, <2>1, <2>2, <2>3, <2>4 DEF Checked, Looked, AlreadyConnected
<1>19. \A q \in Ports : holder'[q] = IF q = p THEN None ELSE holder[q]
  BY <1>2, CallFacts DEF TypeOK
<1>20. /\ act'[c] = b /\ outer'[c] = Idle
       /\ \A d \in Clients \ {c} : act'[d] = act[d] /\ outer'[d] = outer[d]
  BY <1>1, <1>2, <1>6, CallFacts DEF TypeOK
<1>21. \A q \in Ports : holder'[q] = c <=> q \in ToSet(b.frames)
  BY <1>9, <1>17, <1>19, ConnectionAssumption
<1>22. ClientInv(c)'
  BY <1>16, <1>18, <1>20, <1>21, NoFrames DEF ClientInv, Holds
<1>23. /\ \A q \in Ports : \/ holder'[q] = holder[q]
                           \/ {holder[q], holder'[q]} \subseteq {c, None}
       /\ \A q \in Ports : profiles'[q] = profiles[q] \/ holder[q] = c
  BY <1>4, <1>9, <1>11, <1>19
<1>. QED
  BY <1>2, <1>14, <1>15, <1>20, <1>22, <1>23, StepKeeps

-----------------------------------------------------------------------------
(***************************************************************************)
(* The steps of disconnect() and notify_disconnect().                      *)
(***************************************************************************)
LEMMA OneAsked ==
  ASSUME ProfilesInv, NEW id, NEW l, NEW m, Asked(id, l)
  PROVE  /\ Asked(id, m) => l = m
         /\ DeadConnection(id) => HasDead(l)
BY DEF ProfilesInv, Asked, DeadConnection

LEMMA FindKeeps ==
  ASSUME ConnInv, NEW c \in Clients, Find(c)
  PROVE  ConnInv'
<1>. DEFINE a == act[c]
<1>1. PICK id \in a.todo :
        act' = [act EXCEPT ![c] =
                  IF ProfileIndex(a.at, id) = 0
                    THEN [a EXCEPT !.todo = @ \ {id}]
                    ELSE [Idle EXCEPT !.pc = "copy", !.at = a.at, !.id = id,
                                      !.todo = a.todo \ {id},
                                      !.index = ProfileIndex(a.at, id)]]
  BY DEF Find
<1>2. /\ a.pc = "next" /\ a \in Call /\ TypeOK
      /\ UNCHANGED <<alive, allowDup, profiles, connectors, holder, outer, calls,
                     asked, cut, missed>>
  BY CallFacts DEF Find, ports, history
<1>3. a.frames = <<>> /\ a.at \in Ports /\ a.todo \subseteq Conns
  BY <1>2, CallFacts DEF Shape, Call
<1>. DEFINE i == ProfileIndex(a.at, id)
<1>4. /\ i \in 0 .. Len(profiles[a.at]) /\ Len(profiles[a.at]) \in Nat
      /\ i # 0 => profiles[a.at][i].id = id
  BY <1>2, <1>3, ProfileAt, LenProperties DEF TypeOK
<1>. HIDE DEF i
<1>5. CASE i = 0
  <2>1. PICK b \in Call : /\ act' = [act EXCEPT ![c] = b]
                          /\ b.pc = "next" /\ b.frames = <<>> /\ b.at = a.at
                          /\ b.todo = a.todo \ {id}
    <3>. DEFINE after == [a EXCEPT !.todo = @ \ {id}]
    <3>1. after \in Call /\ after.pc = "next" /\ after.frames = <<>>
          /\ after.at = a.at /\ after.todo = a.todo \ {id}
      BY <1>2, <1>3 DEF Call
    <3>2. act' = [act EXCEPT ![c] = after]
      BY <1>1, <1>5 DEF i
    <3>. QED
      BY <3>1, <3>2
  <2>2. Shape(b) /\ InOrder(b) /\ Checked(b)
    BY <1>3, <2>1, NoFrames DEF Shape, InOrder, Checked, Looked, Connecting
  <2>3. Nested(a, outer[c]) => Nested(b, outer[c])
    BY <1>3, <2>1 DEF Nested
  <2>. QED
    BY <1>2, <1>3, <2>1, <2>2, <2>3, CallFacts, Moves DEF TypeOK
<1>6. CASE i # 0
  <2>1. PICK b \in Call : /\ act' = [act EXCEPT ![c] = b]
                          /\ b.pc = "copy" /\ b.frames = <<>> /\ b.at = a.at
                          /\ b.todo = a.todo \ {id} /\ b.id = id
                          /\ b.index = i /\ b.k = 1
    <3>. DEFINE after == [Idle EXCEPT !.pc = "copy", !.at = a.at, !.id = id,
                                      !.todo = a.todo \ {id}, !.index = i]
    <3>0. id \in Conns /\ i \in Nat
      BY <1>3, <1>4
    <3>1. after \in Call /\ after.pc = "copy" /\ after.frames = <<>>
          /\ after.at = a.at /\ after.todo = a.todo \ {id} /\ after.id = id
          /\ after.index = i /\ after.k = 1
      BY <1>3, <3>0, NoFrames DEF Call
    <3>2. act' = [act EXCEPT ![c] = after]
      BY <1>1, <1>6 DEF i
    <3>. QED
      BY <3>1, <3>2
  <2>2. Shape(b) /\ InOrder(b) /\ Checked(b)
    BY <1>3, <1>4, <1>6, <2>1, NoFrames
       DEF Shape, InOrder, Checked, Looked, Connecting
  <2>3. ASSUME Nested(a, outer[c])
        PROVE  Nested(b, outer[c])
    <3>1. b.index \in 1 .. Len(profiles[b.at]) /\ profiles[b.at][b.index].id = b.id
      BY <1>4, <1>6, <2>1
    <3>2. DeadConnection(b.id) /\ \A n \in b.todo : DeadConnection(n)
      BY <2>1, <2>3 DEF Nested
    <3>. QED
      BY <1>3, <2>1, <2>3, <3>1, <3>2 DEF Nested
  <2>. QED
    BY <1>2, <1>3, <2>1, <2>2, <2>3, CallFacts, Moves DEF TypeOK
<1>. QED
  BY <1>5, <1>6

LEMMA AllDisconnectedKeeps ==
  ASSUME ConnInv, NEW c \in Clients, AllDisconnected(c)
  PROVE  ConnInv'
<1>1. /\ act' = [act EXCEPT ![c] = outer[c]]
      /\ outer' = [outer EXCEPT ![c] = Idle]
      /\ UNCHANGED <<alive, allowDup, profiles, connectors, holder, calls, asked,
                     cut, missed>>
      /\ act[c].pc = "next"
  BY DEF AllDisconnected, ports, history
<1>2. /\ act' \in [Clients -> Call] /\ act'[c] = outer[c]
      /\ outer' \in [Clients -> Call] /\ outer'[c] = Idle
      /\ \A d \in Clients \ {c} : act'[d] = act[d] /\ outer'[d] = outer[d]
      /\ holder' \in [Ports -> Clients \cup {None}]
      /\ connectors' \in [Ports -> Seq(Conns)]
      /\ cut' \subseteq Conns /\ missed' \subseteq Conns
      /\ outer[c] \in Call
  BY <1>1, CallFacts, NoFrames DEF TypeOK
<1>3. \A q \in Ports : holder'[q] = c <=> q \in ToSet(outer[c].frames)
  BY <1>1, CallFacts, NoFrames DEF Holds, Shape
<1>4. Shape(outer[c]) /\ InOrder(outer[c]) /\ Checked(outer[c])
  BY CallFacts, IdleInv DEF Nested
<1>. QED
  BY <1>1, <1>2, <1>3, <1>4, NoFrames, GoesOn

LEMMA CopyKeeps ==
  ASSUME ConnInv, NEW c \in Clients, Copy(c)
  PROVE  ConnInv'
<1>. DEFINE a == act[c]
            s == profiles[a.at]
            f == s[a.index]
<1>1. /\ a.pc = "copy" /\ a \in Call /\ TypeOK
      /\ UNCHANGED <<alive, allowDup, profiles, connectors, holder, outer, calls,
                     asked, cut>>
  BY CallFacts DEF Copy, ports
<1>2. /\ a.frames = <<>> /\ a.at \in Ports /\ a.todo \subseteq Conns
      /\ a.id \in Conns /\ a.index > 0 /\ a.index \in Nat /\ a.k > 0
  BY <1>1, CallFacts DEF Shape, Call
<1>3. s \in Seq(Profile) /\ Len(s) \in Nat
  BY <1>1, <1>2, LenProperties DEF TypeOK
<1>4. CASE a.index > Len(s)
  <2>1. PICK b \in Call : /\ act' = [act EXCEPT ![c] = b]
                          /\ b.pc = "next" /\ b.frames = <<>> /\ b.at = a.at
                          /\ b.todo = {}
    <3>. DEFINE after == [a EXCEPT !.pc = "next", !.todo = {}]
    <3>1. after \in Call /\ after.pc = "next" /\ after.frames = <<>>
          /\ after.at = a.at /\ after.todo = {}
      BY <1>1, <1>2 DEF Call
    <3>2. act' = [act EXCEPT ![c] = after]
      BY <1>4 DEF Copy
    <3>. QED
      BY <3>1, <3>2
  <2>2. missed' \subseteq Conns
    BY <1>1, <1>2, <1>4 DEF Copy, TypeOK
  <2>3. Shape(b) /\ InOrder(b) /\ Checked(b)
    BY <1>2, <2>1, NoFrames DEF Shape, InOrder, Checked, Looked, Connecting
  <2>4. Nested(a, outer[c]) => Nested(b, outer[c])
    BY <1>2, <2>1 DEF Nested
  <2>. QED
    BY <1>1, <1>2, <2>1, <2>2, <2>3, <2>4, CallFacts, Moves DEF TypeOK
<1>5. CASE a.index <= Len(s)
  <2>1. f \in Profile /\ f \in ToSet(s)
    <3>1. a.index \in 1 .. Len(s)
      BY <1>2, <1>3, <1>5
    <3>. QED
      BY <1>3, <3>1, ElementOfSeq DEF ToSet
  <2>2. f.list \in Seq(Ports) /\ Asked(f.id, f.list)
    BY <1>2, <2>1, ConnectionAssumption DEF Profile, ConnInv, ProfilesInv
  <2>3. PICK b \in Call : /\ act' = [act EXCEPT ![c] = b]
                          /\ b.pc = "call" /\ b.frames = <<>> /\ b.at = a.at
                          /\ b.todo = a.todo /\ b.id = a.id /\ b.k = a.k
                          /\ b.list = f.list
    <3>. DEFINE after == [a EXCEPT !.pc = "call", !.list = f.list]
    <3>. HIDE DEF f
    <3>1. after \in Call /\ after.pc = "call" /\ after.frames = <<>>
          /\ after.at = a.at /\ after.todo = a.todo /\ after.id = a.id
          /\ after.k = a.k /\ after.list = f.list
      BY <1>1, <1>2, <2>2 DEF Call
    <3>2. act' = [act EXCEPT ![c] = after]
      BY <1>2, <1>3, <1>5 DEF Copy, f
    <3>. QED
      BY <3>1, <3>2
  <2>4. missed' \subseteq Conns
    BY <1>1, <1>2, <1>3, <1>5 DEF Copy, TypeOK
  <2>5. Shape(b) /\ InOrder(b) /\ Checked(b)
    BY <1>2, <2>3, NoFrames DEF Shape, InOrder, Checked, Looked, Connecting
  <2>6. ASSUME Nested(a, outer[c])
        PROVE  Nested(b, outer[c])
    <3>1. f.id = a.id /\ DeadConnection(a.id)
      BY <1>1, <2>6 DEF Nested
    <3>2. HasDead(f.list)
      BY <2>2, <3>1, OneAsked DEF ConnInv
    <3>. QED
      BY <1>2, <2>3, <2>6, <3>1, <3>2 DEF Nested
  <2>. QED
    BY <1>1, <1>2, <2>3, <2>4, <2>5, <2>6, CallFacts, Moves DEF TypeOK
<1>. QED
  BY <1>2, <1>3, <1>4, <1>5

(***************************************************************************)
(* The call to the next port does not get there.                           *)
(***************************************************************************)
LEMMA ReturnsKeeps ==
  ASSUME ConnInv, NEW c \in Clients, act[c].pc = "call",
         act' = [act EXCEPT ![c] =
                   [act[c] EXCEPT !.pc = Returned(act[c].frames), !.bad = TRUE]],
         UNCHANGED <<alive, allowDup, profiles, connectors, holder, outer, calls,
                     asked, cut, missed>>
  PROVE  ConnInv'
<1>. DEFINE a == act[c]
<1>1. a \in Call /\ TypeOK /\ a.id \in Conns /\ a.at \in Ports
  BY CallFacts DEF Shape
<1>2. PICK b \in Call : /\ act' = [act EXCEPT ![c] = b]
                        /\ b.pc = Returned(a.frames) /\ b.frames = a.frames
                        /\ b.at = a.at /\ b.todo = a.todo /\ b.id = a.id
  <2>. DEFINE after == [a EXCEPT !.pc = Returned(a.frames), !.bad = TRUE]
  <2>1. after \in Call /\ after.pc = Returned(a.frames) /\ after.frames = a.frames
        /\ after.at = a.at /\ after.todo = a.todo /\ after.id = a.id
    BY <1>1 DEF Call, Returned
  <2>. QED
    BY <2>1
<1>3. Shape(b) /\ InOrder(b) /\ Checked(b)
  BY <1>1, <1>2, CallFacts
     DEF Shape, InOrder, Checked, Looked, Connecting, Returned
<1>4. Nested(a, outer[c]) => Nested(b, outer[c])
  BY <1>2 DEF Nested, Returned
<1>. QED
  BY <1>1, <1>2, <1>3, <1>4, CallFacts, Moves DEF TypeOK

LEMMA SkipDeadKeeps ==
  ASSUME ConnInv, NEW c \in Clients, SkipDead(c)
  PROVE  ConnInv'
<1>. DEFINE a == act[c]
<1>1. /\ a.pc = "call" /\ a \in Call /\ TypeOK
      /\ UNCHANGED <<alive, allowDup, profiles, connectors, holder, outer, calls,
                     asked, cut, missed>>
  BY CallFacts DEF SkipDead, ports, history
<1>2. CASE a.k < Len(a.list)
  <2>1. /\ a.id \in Conns /\ a.at \in Ports /\ a.k \in Nat /\ a.k > 0
        /\ a.list \in Seq(Ports)
        /\ a.frames # <<>> => Asked(a.id, a.list)
        /\ Distinct(a.frames)
    BY <1>1, CallFacts DEF Shape, Call
  <2>2. PICK b \in Call : /\ act' = [act EXCEPT ![c] = b]
                          /\ b.pc = "call" /\ b.frames = a.frames
                          /\ b.at = a.at /\ b.todo = a.todo /\ b.id = a.id
                          /\ b.list = a.list /\ b.k = a.k + 1
    <3>. DEFINE after == [a EXCEPT !.k = @ + 1]
    <3>1. after \in Call /\ after.pc = "call" /\ after.frames = a.frames
          /\ after.at = a.at /\ after.todo = a.todo /\ after.id = a.id
          /\ after.list = a.list /\ after.k = a.k + 1
      BY <1>1, <2>1 DEF Call
    <3>2. act' = [act EXCEPT ![c] = after]
      BY <1>2 DEF SkipDead
    <3>. QED
      BY <3>1, <3>2
  <2>3. Shape(b)
    BY <2>1, <2>2 DEF Shape, Connecting
  <2>4. InOrder(b)
    <3>1. InOrder(a)
      BY CallFacts
    <3>2. ToSet(a.frames) \subseteq ListedBefore(a.list, a.k + 1)
      BY <1>1, <2>1, <3>1, Listed DEF InOrder
    <3>. QED
      BY <2>2, <3>2 DEF InOrder
  <2>5. Checked(b)
    BY <2>2 DEF Checked, Looked
  <2>6. Nested(a, outer[c]) => Nested(b, outer[c])
    BY <1>1, <2>2 DEF Nested
  <2>. QED
    BY <1>1, <2>2, <2>3, <2>4, <2>5, <2>6, CallFacts, Moves DEF TypeOK
<1>3. CASE ~(a.k < Len(a.list))
  BY <1>1, <1>3, ReturnsKeeps DEF SkipDead
<1>. QED
  BY <1>2, <1>3

LEMMA NotifyUnknownKeeps ==
  ASSUME ConnInv, NEW c \in Clients, NotifyUnknown(c)
  PROVE  ConnInv'
BY ReturnsKeeps DEF NotifyUnknown, ports, history

LEMMA NotifyDisconnectKeeps ==
  ASSUME ConnInv, NEW c \in Clients, NotifyDisconnect(c)
  PROVE  ConnInv'
<1>. DEFINE a == act[c]
            p == a.list[a.k]
            f == CHOOSE g \in ToSet(profiles[p]) : g.id = a.id
            n == PositionAfter(p, f.list)
            pc == IF n > Len(f.list) THEN "unsubscribe" ELSE "call"
<1>1. /\ a.pc = "call" /\ a.k <= Len(a.list) /\ holder[p] = None
      /\ HasProfile(p, a.id)
      /\ holder' = [holder EXCEPT ![p] = c]
      /\ act' = [act EXCEPT ![c] = [a EXCEPT !.frames = Append(@, p),
                                             !.list = f.list, !.k = n, !.pc = pc]]
      /\ UNCHANGED <<alive, allowDup, profiles, connectors, outer, calls, asked,
                     cut, missed>>
  BY DEF NotifyDisconnect, history
<1>2. /\ a \in Call /\ TypeOK /\ ProfilesInv
      /\ a.id \in Conns /\ a.at \in Ports /\ a.k \in Nat
      /\ a.frames \in Seq(Ports) /\ a.list \in Seq(Ports)
  BY <1>1, CallFacts DEF Shape, Call, ConnInv
<1>3. a.k \in 1 .. Len(a.list) /\ p \in Ports
  <2>0. a.k > 0 /\ Len(a.list) \in Nat
    <3>1. Shape(a) /\ Len(a.list) \in Nat
      BY CallFacts
    <3>. QED
      BY <1>1, <3>1 DEF Shape
  <2>. HIDE DEF a
  <2>1. a.k \in 1 .. Len(a.list)
    BY <1>1, <1>2, <2>0
  <2>. QED
    BY <1>2, <2>1, ElementOfSeq
<1>4. f \in ToSet(profiles[p]) /\ f.id = a.id
  BY <1>1 DEF HasProfile
<1>5. Asked(a.id, f.list) /\ p \in ToSet(f.list)
  BY <1>2, <1>3, <1>4 DEF ProfilesInv
<1>6. f.list \in PortLists /\ f.list \in Seq(Ports) /\ Distinct(f.list)
  BY <1>2, <1>5, AskedIds, ConnectionAssumption DEF Distinct
<1>7. /\ n \in 1 .. Len(f.list) + 1 /\ n - 1 \in 1 .. Len(f.list)
      /\ f.list[n - 1] = p
  BY <1>3, <1>5, <1>6, NextPosition
<1>8. p \notin ToSet(a.frames) /\ p \notin ToSet(outer[c].frames)
  <2>1. holder[p] # c
    BY <1>1, ConnectionAssumption
  <2>2. ~Holds(c, p)
    BY <1>3, <2>1, CallFacts
  <2>. QED
    BY <2>2 DEF Holds
<1>9. /\ Append(a.frames, p) \in Seq(Ports)
      /\ Append(a.frames, p) # <<>>
      /\ Distinct(Append(a.frames, p))
      /\ ToSet(Append(a.frames, p)) = ToSet(a.frames) \cup {p}
  BY <1>3, <1>8, CallFacts, Appended
<1>. HIDE DEF f, n
<1>10. n \in Nat \ {0}
  <2>1. Len(f.list) \in Nat
    BY <1>6, LenProperties
  <2>. QED
    BY <1>7, <2>1
<1>11. PICK b \in Call :
         /\ act' = [act EXCEPT ![c] = b]
         /\ b.pc = pc /\ b.frames = Append(a.frames, p)
         /\ b.list = f.list /\ b.k = n
         /\ b.at = a.at /\ b.todo = a.todo /\ b.id = a.id
  <2>. DEFINE after == [a EXCEPT !.frames = Append(@, p), !.list = f.list,
                                 !.k = n, !.pc = pc]
  <2>0. pc \in {"unsubscribe", "call"}
    OBVIOUS
  <2>. HIDE DEF pc, p
  <2>1. /\ after \in Call /\ after.pc = pc
        /\ after.frames = Append(a.frames, p)
        /\ after.list = f.list /\ after.k = n
        /\ after.at = a.at /\ after.todo = a.todo /\ after.id = a.id
    BY <1>2, <1>6, <1>9, <1>10, <2>0 DEF Call
  <2>2. act' = [act EXCEPT ![c] = after]
    BY <1>1
  <2>. QED
    BY <2>1, <2>2
<1>12. pc \in {"unsubscribe", "call"}
  OBVIOUS
<1>. HIDE DEF pc, p
<1>13. Shape(b)
  BY <1>2, <1>5, <1>9, <1>10, <1>11, <1>12 DEF Shape, Connecting
<1>14. ToSet(b.frames) \subseteq ListedBefore(f.list, n)
  <2>1. p \in ListedBefore(f.list, n)
    BY <1>7, <1>10 DEF ListedBefore
  <2>2. CASE a.frames = <<>>
    BY <1>9, <1>11, <2>1, <2>2, NoFrames
  <2>3. CASE a.frames # <<>>
    <3>1. a.list = f.list
      BY <1>1, <1>2, <1>5, <2>3, CallFacts, OneAsked DEF Shape
    <3>2. n - 1 = a.k
      BY <1>3, <1>6, <1>7, <3>1 DEF Distinct, p
    <3>3. n = a.k + 1
      BY <1>2, <1>10, <3>2
    <3>4. ToSet(a.frames) \subseteq ListedBefore(a.list, a.k)
      BY <1>1, CallFacts DEF InOrder
    <3>5. ToSet(a.frames) \subseteq ListedBefore(f.list, n)
      BY <1>2, <3>1, <3>3, <3>4, Listed
    <3>. QED
      BY <1>9, <1>11, <2>1, <3>5
  <2>. QED
    BY <2>2, <2>3
<1>15. InOrder(b) /\ Checked(b)
  BY <1>11, <1>12, <1>14 DEF InOrder, Checked, Looked
<1>16. ASSUME Nested(a, outer[c])
       PROVE  Nested(b, outer[c])
  <2>1. HasDead(b.list) /\ DeadConnection(b.id)
    BY <1>1, <1>2, <1>5, <1>11, <1>16, OneAsked DEF Nested
  <2>2. ToSet(b.frames) \cap ToSet(outer[c].frames) = {}
    BY <1>8, <1>9, <1>11, <1>16 DEF Nested
  <2>. QED
    BY <1>11, <1>12, <1>16, <2>1, <2>2 DEF Nested
<1>17. \A q \in Ports : holder'[q] = IF q = p THEN c ELSE holder[q]
  BY <1>1, <1>2 DEF TypeOK, p
<1>18. /\ \A q \in Ports : \/ holder'[q] = holder[q]
                           \/ {holder[q], holder'[q]} \subseteq {c, None}
       /\ \A q \in Ports : holder'[q] = c <=>
            q \in ToSet(b.frames) \/ q \in ToSet(outer[c].frames)
  <2>1. holder[p] = None
    BY <1>1 DEF p
  <2>. QED
    BY <1>9, <1>11, <1>17, <2>1, CallFacts DEF Holds
<1>19. /\ act' \in [Clients -> Call] /\ act'[c] = b
       /\ outer' \in [Clients -> Call] /\ outer'[c] = outer[c]
       /\ \A d \in Clients \ {c} : act'[d] = act[d] /\ outer'[d] = outer[d]
       /\ connectors' \in [Ports -> Seq(Conns)]
       /\ cut' \subseteq Conns /\ missed' \subseteq Conns
  BY <1>1, <1>2, <1>11 DEF TypeOK
<1>20. holder' \in [Ports -> Clients \cup {None}]
  BY <1>1, <1>2 DEF TypeOK
<1>21. outer[c] \in Call /\ (outer[c] = Idle \/ Nested(b, outer[c]))
  BY <1>16, CallFacts
<1>. QED
  BY <1>1, <1>13, <1>15, <1>18, <1>19, <1>20, <1>21, GoesOn

(***************************************************************************)
(* RemoveAt leaves a part of the list, each element at one old place.      *)
(***************************************************************************)
LEMMA Dropped ==
  ASSUME NEW s \in Seq(Profile), NEW i \in 0 .. Len(s), NEW t,
         t = RemoveAt(s, i)
  PROVE  /\ t \in Seq(Profile)
         /\ ToSet(t) \subseteq ToSet(s)
         /\ \E e \in [1 .. Len(t) -> 1 .. Len(s)] :
              /\ \A j \in 1 .. Len(t) : t[j] = s[e[j]]
              /\ \A j, k \in 1 .. Len(t) : e[j] = e[k] => j = k
<1>0. Len(s) \in Nat
  BY LenProperties
<1>1. /\ t \in Seq(Profile)
      /\ \E e \in [1 .. Len(t) -> 1 .. Len(s)] :
           /\ \A j \in 1 .. Len(t) : t[j] = s[e[j]]
           /\ \A j, k \in 1 .. Len(t) : e[j] = e[k] => j = k
  <2>1. CASE i = 0
    <3>1. SubSeq(s, 1, i - 1) = <<>> /\ SubSeq(s, i + 1, Len(s)) = s
      BY <1>0, <2>1, SubSeqEmpty, SubSeqFull
    <3>2. t = s
      BY <3>1, ConcatEmptySeq DEF RemoveAt
    <3>. DEFINE e == [j \in 1 .. Len(s) |-> j]
    <3>3. e \in [1 .. Len(t) -> 1 .. Len(s)] /\ \A j \in 1 .. Len(t) : e[j] = j
      BY <3>2
    <3>. QED
      BY <3>2, <3>3
  <2>2. CASE i # 0
    <3>1. i \in 1 .. Len(s)
      BY <1>0, <2>2
    <3>2. /\ t \in Seq(Profile) /\ Len(t) = Len(s) - 1
          /\ \A j \in 1 .. Len(s) - 1 : t[j] = IF j < i THEN s[j] ELSE s[j + 1]
      BY <3>1, Removed
    <3>. DEFINE e == [j \in 1 .. Len(t) |-> IF j < i THEN j ELSE j + 1]
    <3>3. \A j \in 1 .. Len(t) : e[j] = IF j < i THEN j ELSE j + 1
      OBVIOUS
    <3>4. e \in [1 .. Len(t) -> 1 .. Len(s)]
      BY <1>0, <3>2
    <3>. HIDE DEF e
    <3>5. \A j, k \in 1 .. Len(t) : e[j] = e[k] => j = k
      BY <1>0, <3>1, <3>2, <3>3
    <3>6. \A j \in 1 .. Len(t) : t[j] = s[e[j]]
      BY <1>0, <3>2, <3>3
    <3>. QED
      BY <3>2, <3>4, <3>5, <3>6
  <2>. QED
    BY <2>1, <2>2
<1>2. ToSet(t) = {t[j] : j \in 1 .. Len(t)} /\ ToSet(s) = {s[j] : j \in 1 .. Len(s)}
  BY DEF ToSet
<1>3. ASSUME NEW j \in 1 .. Len(t)
      PROVE  t[j] \in ToSet(s)
  <2>1. PICK e \in [1 .. Len(t) -> 1 .. Len(s)] :
          \A n \in 1 .. Len(t) : t[n] = s[e[n]]
    BY <1>1
  <2>2. e[j] \in 1 .. Len(s) /\ t[j] = s[e[j]]
    BY <2>1
  <2>. QED
    BY <1>2, <2>2
<1>4. ToSet(t) \subseteq ToSet(s)
  BY <1>2, <1>3
<1>. QED
  BY <1>1, <1>4

LEMMA UnsubscribeKeeps ==
  ASSUME ConnInv, NEW c \in Clients, Unsubscribe(c)
  PROVE  ConnInv'
<1>. DEFINE a == act[c]
            p == Last(a.frames)
            i == ProfileIndex(p, a.id)
            m == SelectInSeq(connectors[p], LAMBDA id : id = a.id)
            o == outer[c]
<1>1. /\ a.pc = "unsubscribe" /\ a \in Call /\ TypeOK
      /\ connectors' = IF m = 0 THEN connectors
                                ELSE [connectors EXCEPT ![p] = RemoveAt(@, m)]
      /\ profiles' = [profiles EXCEPT ![p] = RemoveAt(@, i)]
      /\ holder' = [holder EXCEPT ![p] = None]
      /\ act' = [act EXCEPT ![c] = [a EXCEPT !.frames = Front(a.frames),
                                             !.pc = Returned(Front(a.frames))]]
      /\ UNCHANGED <<alive, allowDup, outer, calls, asked, cut, missed>>
  BY CallFacts DEF Unsubscribe, history
<1>2. /\ a.frames # <<>> /\ Distinct(a.frames) /\ a.frames \in Seq(Ports)
      /\ a.id \in Conns /\ a.at \in Ports
  BY <1>1, CallFacts DEF Shape
<1>3. /\ p \in Ports /\ p \in ToSet(a.frames)
      /\ Front(a.frames) \in Seq(Ports) /\ Distinct(Front(a.frames))
      /\ ToSet(Front(a.frames)) = ToSet(a.frames) \ {p}
  BY <1>2, FrontLast
<1>4. profiles[p] \in Seq(Profile) /\ i \in 0 .. Len(profiles[p])
  BY <1>1, <1>3, ProfileAt DEF TypeOK
<1>5. m = 0 \/ RemoveAt(connectors[p], m) \in Seq(Conns)
  <2>. DEFINE I == {j \in 1 .. Len(connectors[p]) : connectors[p][j] = a.id}
  <2>1. m = IF I # {} THEN Min(I) ELSE 0
    BY DEF SelectInSeq
  <2>2. connectors[p] \in Seq(Conns) /\ Len(connectors[p]) \in Nat
    BY <1>1, <1>3, LenProperties DEF TypeOK
  <2>. HIDE DEF m, p
  <2>3. I \in SUBSET Nat
    BY <2>2
  <2>4. I # {} => Min(I) \in I
    BY <2>3, LeastPosition
  <2>5. m = 0 \/ m \in 1 .. Len(connectors[p])
    BY <2>1, <2>4
  <2>. QED
    BY <2>2, <2>5, Removed
<1>. HIDE DEF m, i
<1>6. PICK b \in Call :
        /\ act' = [act EXCEPT ![c] = b]
        /\ b.pc = Returned(Front(a.frames)) /\ b.frames = Front(a.frames)
        /\ b.at = a.at /\ b.todo = a.todo /\ b.id = a.id
  <2>. DEFINE after == [a EXCEPT !.frames = Front(a.frames),
                                 !.pc = Returned(Front(a.frames))]
  <2>1. /\ after \in Call /\ after.pc = Returned(Front(a.frames))
        /\ after.frames = Front(a.frames)
        /\ after.at = a.at /\ after.todo = a.todo /\ after.id = a.id
    BY <1>1, <1>3 DEF Call, Returned
  <2>2. act' = [act EXCEPT ![c] = after]
    BY <1>1
  <2>. QED
    BY <2>1, <2>2
<1>. HIDE DEF p
<1>7. /\ profiles'[p] = RemoveAt(profiles[p], i)
      /\ \A q \in Ports \ {p} : profiles'[q] = profiles[q]
  BY <1>1, <1>3 DEF TypeOK
<1>8. /\ profiles'[p] \in Seq(Profile)
      /\ ToSet(profiles'[p]) \subseteq ToSet(profiles[p])
      /\ \E e \in [1 .. Len(profiles'[p]) -> 1 .. Len(profiles[p])] :
           /\ \A j \in 1 .. Len(profiles'[p]) : profiles'[p][j] = profiles[p][e[j]]
           /\ \A j, k \in 1 .. Len(profiles'[p]) : e[j] = e[k] => j = k
  <2>. DEFINE s == profiles[p]
              t == profiles'[p]
  <2>1. s \in Seq(Profile) /\ i \in 0 .. Len(s) /\ t = RemoveAt(s, i)
    BY <1>4, <1>7
  <2>. HIDE DEF s, t
  <2>2. /\ t \in Seq(Profile)
        /\ ToSet(t) \subseteq ToSet(s)
        /\ \E e \in [1 .. Len(t) -> 1 .. Len(s)] :
             /\ \A j \in 1 .. Len(t) : t[j] = s[e[j]]
             /\ \A j, k \in 1 .. Len(t) : e[j] = e[k] => j = k
    BY <2>1, Dropped
  <2>. QED
    BY <2>2 DEF s, t
<1>9. NoDoubleConnection'
  <2>1. NoDoubleConnection
    BY DEF ConnInv, ProfilesInv
  <2>2. PICK e \in [1 .. Len(profiles'[p]) -> 1 .. Len(profiles[p])] :
          /\ \A j \in 1 .. Len(profiles'[p]) : profiles'[p][j] = profiles[p][e[j]]
          /\ \A j, k \in 1 .. Len(profiles'[p]) : e[j] = e[k] => j = k
    BY <1>8
  <2>. SUFFICES ASSUME ~allowDup, NEW r \in Ports,
                       NEW j \in 1 .. Len(profiles'[r]),
                       NEW k \in 1 .. Len(profiles'[r]), NEW q \in Ports \ {r},
                       q \in ToSet(profiles'[r][j].list),
                       q \in ToSet(profiles'[r][k].list)
                PROVE  j = k
    BY <1>1 DEF NoDoubleConnection
  <2>3. CASE r = p
    <3>1. e[j] \in 1 .. Len(profiles[p]) /\ e[k] \in 1 .. Len(profiles[p])
      BY <2>3
    <3>2. /\ q \in ToSet(profiles[p][e[j]].list)
          /\ q \in ToSet(profiles[p][e[k]].list)
      BY <2>2, <2>3
    <3>3. e[j] = e[k]
      BY <2>1, <2>3, <3>1, <3>2 DEF NoDoubleConnection
    <3>. QED
      BY <2>2, <2>3, <3>3
  <2>4. CASE r # p
    <3>1. profiles'[r] = profiles[r]
      BY <1>7, <2>4
    <3>. QED
      BY <2>1, <3>1 DEF NoDoubleConnection
  <2>. QED
    BY <2>3, <2>4
<1>10. ProfilesInv'
  <2>1. ASSUME NEW q \in Ports, NEW f \in ToSet(profiles'[q])
        PROVE  Asked(f.id, f.list) /\ q \in ToSet(f.list)
    BY <1>7, <1>8, <2>1 DEF ConnInv, ProfilesInv
  <2>. QED
    BY <1>1, <1>9, <2>1 DEF ConnInv, ProfilesInv, Asked
<1>11. TypeOK'
  <2>1. profiles' \in [Ports -> Seq(Profile)]
    BY <1>1, <1>3, <1>7, <1>8 DEF TypeOK
  <2>2. connectors' \in [Ports -> Seq(Conns)]
    BY <1>1, <1>3, <1>5 DEF TypeOK
  <2>3. holder' \in [Ports -> Clients \cup {None}]
    BY <1>1 DEF TypeOK
  <2>4. act' \in [Clients -> Call]
    BY <1>1, <1>6 DEF TypeOK
  <2>. QED
    BY <1>1, <2>1, <2>2, <2>3, <2>4 DEF TypeOK
<1>12. ToSet(b.frames) = ToSet(a.frames) \ {p}
  BY <1>3, <1>6
<1>13. Shape(b)' /\ InOrder(b)' /\ Checked(b)'
  BY <1>2, <1>3, <1>6
     DEF Shape, InOrder, Checked, Looked, Connecting, Returned
<1>14. ASSUME Nested(a, o)
       PROVE  Nested(b, o)'
  <2>1. p \notin ToSet(o.frames) /\ ToSet(o.frames) \subseteq Ports
    BY <1>1, <1>3, <1>14, Elements DEF Nested, TypeOK, Call
  <2>2. \A q \in ToSet(o.frames) : profiles'[q] = profiles[q]
    BY <1>7, <2>1
  <2>3. outer' = outer
    BY <1>1
  <2>4. Shape(o)' /\ InOrder(o)'
    BY <1>1, <1>14, <2>3 DEF Nested, Shape, InOrder, Asked
  <2>5. Checked(o)'
    BY <1>1, <1>14, <2>2, <2>3
       DEF Nested, Checked, Looked, AlreadyConnected
  <2>6. \A id \in b.todo : DeadConnection(id)'
    BY <1>1, <1>6, <1>14 DEF Nested, DeadConnection, HasDead
  <2>7. b.pc \in {"next", "unsubscribe"} /\ b.at = Last(o.frames)
    BY <1>6, <1>14 DEF Returned, Nested
  <2>8. o.pc = "dup" /\ ~allowDup /\ ToSet(b.frames) \cap ToSet(o.frames) = {}
    BY <1>12, <1>14 DEF Nested
  <2>. QED
    BY <1>1, <2>3, <2>4, <2>5, <2>6, <2>7, <2>8 DEF Nested
<1>15. /\ act'[c] = b /\ outer'[c] = o
       /\ \A d \in Clients \ {c} : act'[d] = act[d] /\ outer'[d] = outer[d]
  BY <1>1, <1>6 DEF TypeOK
<1>16. \A q \in Ports : holder'[q] = IF q = p THEN None ELSE holder[q]
  BY <1>1 DEF TypeOK, p
<1>17. \A q \in Ports : holder[q] = c <=> q \in ToSet(a.frames) \/ q \in ToSet(o.frames)
  BY CallFacts DEF Holds
<1>18. p \notin ToSet(o.frames)
  BY <1>3, CallFacts, NoFrames DEF Nested
<1>19. \A q \in Ports : holder'[q] = c <=> Holds(c, q)'
  BY <1>12, <1>15, <1>16, <1>17, <1>18, ConnectionAssumption DEF Holds
<1>20. o = Idle \/ Nested(a, o)
  BY CallFacts
<1>21. ClientInv(c)'
  BY <1>13, <1>14, <1>15, <1>19, <1>20 DEF ClientInv
<1>22. /\ \A q \in Ports : \/ holder'[q] = holder[q]
                           \/ {holder[q], holder'[q]} \subseteq {c, None}
       /\ \A q \in Ports : profiles'[q] = profiles[q] \/ holder[q] = c
  BY <1>3, <1>7, <1>16, <1>17
<1>. QED
  BY <1>1, <1>10, <1>11, <1>15, <1>21, <1>22, StepKeeps

-----------------------------------------------------------------------------
(***************************************************************************)
(* The theorems.                                                           *)
(***************************************************************************)
LEMMA ConnInvNext ==
  ASSUME ConnInv, [Next]_vars
  PROVE  ConnInv'
<1>1. ASSUME NEW c \in Clients, ConnectStep(c)
      PROVE  ConnInv'
  BY <1>1, CallRaisesKeeps, CheckFanKeeps, LockPortKeeps, RefuseDuplicateKeeps,
     PublishKeeps, SubscribeKeeps, CleanUpKeeps DEF ConnectStep
<1>2. ASSUME NEW c \in Clients, DisconnectStep(c)
      PROVE  ConnInv'
  BY <1>2, FindKeeps, AllDisconnectedKeeps, CopyKeeps, SkipDeadKeeps,
     NotifyDisconnectKeeps, NotifyUnknownKeeps, UnsubscribeKeeps
     DEF DisconnectStep
<1>3. ASSUME NEW c \in Clients,
             Connect(c) \/ Disconnect(c) \/ DisconnectAll(c) \/ GetProfiles(c)
      PROVE  ConnInv'
  BY <1>3, ConnectKeeps, DisconnectKeeps
<1>4. CASE UNCHANGED vars
  <2>1. UNCHANGED <<alive, allowDup, profiles, connectors, holder, act, outer,
                    calls, asked, cut, missed>>
    BY <1>4 DEF vars, ports, history
  <2>2. TypeOK' /\ ProfilesInv'
    BY <2>1 DEF ConnInv, TypeOK, ProfilesInv, NoDoubleConnection, Asked
  <2>3. ASSUME NEW c \in Clients
        PROVE  ClientInv(c)'
    BY <2>1, OthersKeep DEF ConnInv
  <2>. QED
    BY <2>2, <2>3 DEF ConnInv
<1>. QED
  BY <1>1, <1>2, <1>3, <1>4, DieKeeps DEF Next

\* The invariant that the properties of the connections follow from: the
\* profiles are those asked for, a call has the mutexes of exactly the ports it
\* is in, which come before the one it goes to, and these ports have looked for
\* double connections (PortBase.cpp:250-330, 440-470).
THEOREM ConnInvariant == Spec => []ConnInv
<1>. QED
  BY ConnInvInit, ConnInvNext, PTL DEF Spec

\* The profiles, connectors and calls have their types.
THEOREM TypeCorrect == Spec => []TypeOK
<1>1. ConnInv => TypeOK
  BY DEF ConnInv
<1>. QED
  BY <1>1, ConnInvariant, PTL

\* No port is connected twice to another one unless that is allowed, by however
\* many clients: no port passes the test of notify_connect() between another
\* call's test and the storing of its profile (PortBase.cpp:262, 317).
THEOREM NoDoubleConnections == Spec => []NoDoubleConnection
<1>1. ConnInv => NoDoubleConnection
  BY DEF ConnInv, ProfilesInv
<1>. QED
  BY <1>1, ConnInvariant, PTL

\* A call waits for the mutex of a port with those of earlier ports of its list
\* only, and never for its own except where a notify_connect() that refuses
\* double connections disconnects dead ones (PortBase.cpp:250, 269, 450).
THEOREM OrderOfPorts == Spec => []WaitsInListOrder
<1>1. ASSUME ConnInv
      PROVE  WaitsInListOrder
  <2>. SUFFICES ASSUME NEW c \in Clients, NEW p \in Ports, Calls(c, p)
                PROVE  /\ \A q \in ToSet(act[c].frames) :
                            \E i \in 1 .. act[c].k - 1 : act[c].list[i] = q
                       /\ (act[c].pc \in {"lock", "call"} /\ holder[p] = c) =>
                            /\ ~allowDup
                            /\ outer[c].pc = "dup"
                            /\ \E q \in ToSet(act[c].list) : ~alive[q]
    BY DEF WaitsInListOrder
  <2>. DEFINE a == act[c]
  <2>1. /\ a.pc \in {"enter", "lock", "call"} /\ a.k <= Len(a.list)
        /\ p = a.list[a.k]
    BY DEF Calls
  <2>2. /\ a \in Call /\ a.k \in Nat /\ a.list \in Seq(Ports)
        /\ Len(a.list) \in Nat /\ a.k \in 1 .. Len(a.list)
    BY <1>1, <2>1, CallFacts DEF Shape, Call
  <2>3. ToSet(a.frames) \subseteq ListedBefore(a.list, a.k)
    BY <1>1, <2>1, CallFacts DEF InOrder
  <2>4. ASSUME NEW q \in ToSet(a.frames)
        PROVE  \E i \in 1 .. a.k - 1 : a.list[i] = q
    <3>1. PICK i \in 1 .. Len(a.list) : i < a.k /\ a.list[i] = q
      BY <2>3 DEF ListedBefore
    <3>. QED
      BY <2>2, <3>1
  <2>5. ASSUME a.pc \in {"lock", "call"}, holder[p] = c
        PROVE  ~allowDup /\ outer[c].pc = "dup" /\ HasDead(a.list)
    <3>1. CASE p \in ToSet(a.frames)
      <4>1. a.frames # <<>>
        BY <3>1, NoFrames
      <4>2. Asked(a.id, a.list)
        BY <1>1, <2>5, <4>1, CallFacts DEF Shape, Connecting
      <4>3. Distinct(a.list)
        BY <1>1, <4>2, CallFacts, AskedIds, ConnectionAssumption DEF Distinct
      <4>. QED
        BY <2>1, <2>2, <2>3, <3>1, <4>3, Listed
    <3>2. CASE p \notin ToSet(a.frames)
      <4>1. p \in ToSet(outer[c].frames)
        BY <1>1, <2>5, <3>2, CallFacts DEF Holds
      <4>2. Nested(a, outer[c])
        BY <1>1, <4>1, CallFacts, NoFrames
      <4>. QED
        BY <2>5, <4>2 DEF Nested
    <3>. QED
      BY <3>1, <3>2
  <2>. QED
    BY <2>4, <2>5 DEF HasDead
<1>. QED
  BY <1>1, ConnInvariant, PTL

-----------------------------------------------------------------------------
(***************************************************************************)
(* Why the calls do not block each other for good.  A call waits for the   *)
(* m_connectorsMutex of a port, or for the m_profile_mutex that the        *)
(* notify_disconnect() of another call holds; in every other place it may  *)
(* take its next step.                                                     *)
(***************************************************************************)
Waits(c, p) ==
  act[c].pc \in {"lock", "call"} /\ Calls(c, p) /\ holder[p] # None

Blocked(c) ==
  \/ \E p \in Ports : Waits(c, p)
  \/ act[c].pc = "copy" /\ ProfileLocked(act[c].at)

SomebodyGoesOn ==
  (\A c \in Clients : ~CleansUpInside(c)) =>
    AtRest \/ \E c \in Clients : act[c].pc # "idle" /\ ~Blocked(c)

(***************************************************************************)
(* The clients list the ports in one order.                                *)
(***************************************************************************)
Ranks(rank) ==
  \A l \in PortLists : \A i, j \in 1 .. Len(l) :
    i < j => rank[l[i]] < rank[l[j]]

ListedAlike == \E n \in Nat : \E rank \in [Ports -> 0 .. n] : Ranks(rank)

(***************************************************************************)
(* A call that holds a port and is blocked waits for one of a higher rank. *)
(***************************************************************************)
LEMMA WaitsHigher ==
  ASSUME ConnInv, NEW n \in Nat, NEW rank \in [Ports -> 0 .. n], Ranks(rank),
         NEW d \in Clients, NEW p \in ToSet(act[d].frames), Blocked(d)
  PROVE  \E q \in Ports : Waits(d, q) /\ rank[p] < rank[q]
<1>. DEFINE a == act[d]
<1>1. /\ a \in Call /\ a.list \in Seq(Ports) /\ Len(a.list) \in Nat
      /\ Shape(a) /\ InOrder(a)
  BY CallFacts
<1>2. a.frames # <<>>
  BY NoFrames
<1>3. a.pc # "copy"
  BY <1>1, <1>2 DEF Shape
<1>4. PICK q \in Ports : Waits(d, q)
  BY <1>3 DEF Blocked
<1>5. /\ a.pc \in {"lock", "call"}
      /\ a.k \in 1 .. Len(a.list) /\ q = a.list[a.k]
  BY <1>1, <1>4 DEF Waits, Calls, Shape, Call
<1>6. a.list \in PortLists
  <2>1. Asked(a.id, a.list)
    BY <1>1, <1>2, <1>5 DEF Shape, Connecting
  <2>. QED
    BY <2>1 DEF Asked, ConnInv, TypeOK
<1>7. PICK i \in 1 .. Len(a.list) : i < a.k /\ a.list[i] = p
  BY <1>1, <1>5 DEF InOrder, ListedBefore
<1>8. rank[a.list[i]] < rank[a.list[a.k]]
  BY <1>5, <1>6, <1>7 DEF Ranks
<1>. QED
  BY <1>4, <1>5, <1>7, <1>8

\* If all clients list the ports in one order and no notify_connect() is
\* disconnecting dead connections, then whenever calls are under way one of
\* them is not blocked: of the ports waited for, the call that holds the last
\* in that order waits for none (PortBase.cpp:250, 390, 450).
THEOREM NoDeadlock ==
  ASSUME ListedAlike
  PROVE  Spec => []SomebodyGoesOn
<1>1. ASSUME ConnInv
      PROVE  SomebodyGoesOn
  <2>. SUFFICES ASSUME \A c \in Clients : ~CleansUpInside(c),
                       ~AtRest,
                       \A c \in Clients : act[c].pc # "idle" => Blocked(c)
                PROVE  FALSE
    BY DEF SomebodyGoesOn
  <2>0. PICK n \in Nat : \E rank \in [Ports -> 0 .. n] : Ranks(rank)
    BY DEF ListedAlike
  <2>1. PICK rank \in [Ports -> 0 .. n] : Ranks(rank)
    BY <2>0
  <2>2. \A c \in Clients, p \in Ports : holder[p] = c => p \in ToSet(act[c].frames)
    <3>. SUFFICES ASSUME NEW c \in Clients, NEW p \in Ports, holder[p] = c
                  PROVE  p \in ToSet(act[c].frames)
      OBVIOUS
    <3>1. outer[c] = Idle
      BY <1>1, CallFacts DEF CleansUpInside, Nested
    <3>. QED
      BY <1>1, <3>1, CallFacts, NoFrames DEF Holds
  <2>3. ASSUME NEW d \in Clients, NEW p \in ToSet(act[d].frames)
        PROVE  \E q \in Ports : Waits(d, q) /\ rank[p] < rank[q]
    <3>1. act[d].pc # "idle"
      BY <1>1, CallFacts, NoFrames DEF Shape
    <3>. QED
      BY <1>1, <2>1, <3>1, WaitsHigher
  <2>. DEFINE W == {p \in Ports : \E c \in Clients : Waits(c, p)}
              I == {n - rank[p] : p \in W}
  <2>4. W # {}
    <3>1. PICK c \in Clients : Blocked(c)
      BY DEF AtRest
    <3>2. CASE \E p \in Ports : Waits(c, p)
      BY <3>2
    <3>3. CASE ProfileLocked(act[c].at)
      <4>1. PICK d \in Clients : act[c].at \in ToSet(act[d].frames)
        BY <3>3 DEF ProfileLocked
      <4>. QED
        BY <4>1, <2>3
    <3>. QED
      BY <3>1, <3>2, <3>3 DEF Blocked
  <2>5. ASSUME NEW p \in W
        PROVE  \E q \in W : rank[p] < rank[q]
    <3>1. PICK c \in Clients : Waits(c, p)
      OBVIOUS
    <3>2. holder[p] \in Clients
      BY <1>1, <3>1 DEF Waits, ConnInv, TypeOK
    <3>. QED
      BY <2>2, <2>3, <3>2
  <2>6. \A p \in Ports : rank[p] \in 0 .. n
    BY <2>1
  <2>7. W \subseteq Ports
    OBVIOUS
  <2>. HIDE DEF W
  <2>8. I \in SUBSET Nat /\ I # {}
    BY <2>4, <2>6, <2>7
  <2>9. PICK p \in W : Min(I) = n - rank[p] /\ \A i \in I : Min(I) <= i
    <3>1. Min(I) \in I /\ \A i \in I : Min(I) <= i
      <4>. HIDE DEF I
      <4>. QED
        BY <2>8, LeastPosition
    <3>. QED
      BY <3>1
  <2>10. PICK q \in W : rank[p] < rank[q]
    BY <2>5
  <2>11. n - rank[p] <= n - rank[q]
    BY <2>9
  <2>. QED
    BY <2>6, <2>7, <2>10, <2>11
<1>. QED
  BY <1>1, ConnInvariant, PTL
=============================================================================
