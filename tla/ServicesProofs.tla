--------------------------- MODULE ServicesProofs ---------------------------
(***************************************************************************)
(* Theorems about what is called from outside the process: the membership  *)
(* of an execution context (ECWorker), for any clients and components, and *)
(* the manager (Manager), for any components, clients and name servers.    *)
(***************************************************************************)
EXTENDS MCServices, SequenceTheorems, FiniteSetTheorems,
        WellFoundedInduction, TLAPS

-----------------------------------------------------------------------------
(* Membership *)

(***************************************************************************)
(* Lists of objects.                                                       *)
(***************************************************************************)
LEMMA ListElements ==
  ASSUME NEW S, NEW s \in Seq(S)
  PROVE  /\ Len(s) \in Nat /\ DOMAIN s = 1 .. Len(s)
         /\ ToSet(s) = {s[i] : i \in 1 .. Len(s)}
         /\ ToSet(s) \subseteq S
BY LenProperties DEF ToSet

LEMMA InjectiveCount ==
  ASSUME NEW S, NEW s \in Seq(S), IsInjective(s)
  PROVE  IsFiniteSet(ToSet(s)) /\ Cardinality(ToSet(s)) = Len(s)
<1>1. Len(s) \in Nat /\ DOMAIN s = 1 .. Len(s)
  BY LenProperties
<1>2. IsFiniteSet(1 .. Len(s)) /\ Cardinality(1 .. Len(s)) = Len(s)
  <2>1. 1 \in Int /\ Len(s) \in Int
    BY <1>1
  <2>2. /\ IsFiniteSet(1 .. Len(s))
        /\ Cardinality(1 .. Len(s)) = IF 1 > Len(s) THEN 0 ELSE Len(s) - 1 + 1
    BY <2>1, FS_Interval
  <2>. QED
    BY <1>1, <2>2
<1>3. s \in Bijection(1 .. Len(s), ToSet(s))
  <2>1. s \in [1 .. Len(s) -> S] /\ ToSet(s) = {s[i] : i \in 1 .. Len(s)}
    BY LenProperties, ListElements
  <2>2. s \in [1 .. Len(s) -> ToSet(s)]
    BY <2>1
  <2>. QED
    BY <1>1, <2>1, <2>2
       DEF Bijection, Injection, Surjection, IsInjective
<1>. QED
  BY <1>2, <1>3, FS_Bijection DEF ExistsBijection

LEMMA Joined ==
  ASSUME NEW S, NEW s \in Seq(S), NEW t \in Seq(S)
  PROVE  /\ s \o t \in Seq(S)
         /\ ToSet(s \o t) = ToSet(s) \cup ToSet(t)
         /\ IsInjective(s \o t) <=>
              /\ IsInjective(s) /\ IsInjective(t)
              /\ ToSet(s) \cap ToSet(t) = {}
<1>. DEFINE u == s \o t
<1>1. /\ u \in Seq(S) /\ Len(u) = Len(s) + Len(t)
      /\ \A i \in 1 .. Len(s) + Len(t) :
           u[i] = IF i <= Len(s) THEN s[i] ELSE t[i - Len(s)]
  BY ConcatProperties
<1>2. /\ Len(s) \in Nat /\ Len(t) \in Nat
      /\ DOMAIN s = 1 .. Len(s) /\ DOMAIN t = 1 .. Len(t)
      /\ DOMAIN u = 1 .. Len(s) + Len(t)
  BY <1>1, LenProperties
<1>3. \A i \in DOMAIN s : i \in DOMAIN u /\ u[i] = s[i]
  BY <1>1, <1>2
<1>4. \A i \in DOMAIN t : Len(s) + i \in DOMAIN u /\ u[Len(s) + i] = t[i]
  <2>. SUFFICES ASSUME NEW i \in DOMAIN t
                PROVE  Len(s) + i \in DOMAIN u /\ u[Len(s) + i] = t[i]
    OBVIOUS
  <2>1. /\ Len(s) + i \in 1 .. Len(s) + Len(t) /\ ~(Len(s) + i <= Len(s))
        /\ Len(s) + i - Len(s) = i
    BY <1>2
  <2>2. u[Len(s) + i] = t[Len(s) + i - Len(s)]
    BY <1>1, <2>1
  <2>. QED
    BY <1>2, <2>1, <2>2
<1>5. \A i \in DOMAIN u : i \in DOMAIN s \/ (\E j \in DOMAIN t : i = Len(s) + j)
  <2>. SUFFICES ASSUME NEW i \in DOMAIN u, i \notin DOMAIN s
                PROVE  \E j \in DOMAIN t : i = Len(s) + j
    OBVIOUS
  <2>1. i - Len(s) \in DOMAIN t /\ i = Len(s) + (i - Len(s))
    BY <1>2
  <2>. QED
    BY <2>1
<1>6. \A i \in DOMAIN s, j \in DOMAIN t, k \in DOMAIN t :
        i # Len(s) + j /\ (Len(s) + j = Len(s) + k => j = k)
  BY <1>2
<1>. HIDE DEF u
<1>7. ToSet(u) = ToSet(s) \cup ToSet(t)
  BY <1>3, <1>4, <1>5 DEF ToSet
<1>8. ASSUME IsInjective(u)
      PROVE  IsInjective(s) /\ IsInjective(t) /\ ToSet(s) \cap ToSet(t) = {}
  <2>1. IsInjective(s)
    BY <1>3, <1>8 DEF IsInjective
  <2>2. IsInjective(t)
    BY <1>4, <1>6, <1>8 DEF IsInjective
  <2>3. ToSet(s) \cap ToSet(t) = {}
    BY <1>3, <1>4, <1>6, <1>8 DEF IsInjective, ToSet
  <2>. QED
    BY <2>1, <2>2, <2>3
<1>9. ASSUME IsInjective(s), IsInjective(t), ToSet(s) \cap ToSet(t) = {}
      PROVE  IsInjective(u)
  <2>. SUFFICES ASSUME NEW a \in DOMAIN u, NEW b \in DOMAIN u, u[a] = u[b]
                PROVE  a = b
    BY DEF IsInjective
  <2>1. \A i \in DOMAIN s, j \in DOMAIN t : s[i] # t[j]
    BY <1>9 DEF ToSet
  <2>2. CASE a \in DOMAIN s /\ b \in DOMAIN s
    BY <1>3, <1>9, <2>2 DEF IsInjective
  <2>3. CASE a \in DOMAIN s /\ b \notin DOMAIN s
    BY <1>3, <1>4, <1>5, <2>1, <2>3
  <2>4. CASE a \notin DOMAIN s /\ b \in DOMAIN s
    BY <1>3, <1>4, <1>5, <2>1, <2>4
  <2>5. CASE a \notin DOMAIN s /\ b \notin DOMAIN s
    <3>1. PICK i \in DOMAIN t, j \in DOMAIN t : a = Len(s) + i /\ b = Len(s) + j
      BY <1>5, <2>5
    <3>2. t[i] = t[j]
      BY <1>4, <3>1
    <3>. QED
      BY <1>9, <3>1, <3>2 DEF IsInjective
  <2>. QED
    BY <2>2, <2>3, <2>4, <2>5
<1>. QED
  BY <1>1, <1>7, <1>8, <1>9 DEF u

LEMMA Attached ==
  ASSUME NEW S, NEW s \in Seq(S), NEW e \in S
  PROVE  /\ Append(s, e) \in Seq(S)
         /\ ToSet(Append(s, e)) = ToSet(s) \cup {e}
         /\ IsInjective(s) /\ e \notin ToSet(s) => IsInjective(Append(s, e))
<1>1. /\ Append(s, e) \in Seq(S)
      /\ Len(Append(s, e)) = Len(s) + 1
      /\ \A i \in 1 .. Len(s) : Append(s, e)[i] = s[i]
      /\ Append(s, e)[Len(s) + 1] = e
  BY AppendProperties
<1>2. /\ Len(s) \in Nat /\ DOMAIN s = 1 .. Len(s)
      /\ DOMAIN Append(s, e) = 1 .. Len(s) + 1
  BY <1>1, LenProperties
<1>3. \A i : i \in DOMAIN Append(s, e) <=> i \in DOMAIN s \/ i = Len(s) + 1
  BY <1>2
<1>4. Len(s) + 1 \notin DOMAIN s
  BY <1>2
<1>5. ToSet(Append(s, e)) = ToSet(s) \cup {e}
  BY <1>1, <1>2, <1>3 DEF ToSet
<1>6. IsInjective(s) /\ e \notin ToSet(s) => IsInjective(Append(s, e))
  BY <1>1, <1>2, <1>3, <1>4 DEF IsInjective, ToSet
<1>. QED
  BY <1>1, <1>5, <1>6

LEMMA Removed ==
  ASSUME NEW S, NEW s \in Seq(S), NEW i \in 1 .. Len(s)
  PROVE  /\ RemoveAt(s, i) \in Seq(S)
         /\ Len(RemoveAt(s, i)) = Len(s) - 1
         /\ \A j \in 1 .. Len(s) - 1 :
              RemoveAt(s, i)[j] = IF j < i THEN s[j] ELSE s[j + 1]
<1>0. Len(s) \in Nat /\ \A j \in 1 .. Len(s) : s[j] \in S
  BY LenProperties, ElementOfSeq
<1>. DEFINE l == SubSeq(s, 1, i - 1)
            r == SubSeq(s, i + 1, Len(s))
<1>1. /\ l \in Seq(S) /\ Len(l) = i - 1
      /\ \A j \in 1 .. i - 1 : l[j] = s[j]
  BY <1>0, SubSeqProperties
<1>2. /\ r \in Seq(S) /\ Len(r) = Len(s) - i
      /\ \A j \in 1 .. Len(s) - i : r[j] = s[i + j]
  BY <1>0, SubSeqProperties
<1>3. /\ l \o r \in Seq(S)
      /\ Len(l \o r) = Len(l) + Len(r)
      /\ \A j \in 1 .. Len(l) + Len(r) :
           (l \o r)[j] = IF j <= Len(l) THEN l[j] ELSE r[j - Len(l)]
  BY <1>1, <1>2, ConcatProperties
<1>. HIDE DEF l, r
<1>4. \A j \in 1 .. Len(s) - 1 :
        (l \o r)[j] = IF j < i THEN s[j] ELSE s[j + 1]
  <2>. TAKE j \in 1 .. Len(s) - 1
  <2>1. CASE j < i
    BY <2>1, <1>0, <1>1, <1>2, <1>3
  <2>2. CASE j >= i
    <3>1. (l \o r)[j] = r[j - (i - 1)]
      BY <2>2, <1>0, <1>1, <1>2, <1>3, SMTT(40)
    <3>2. j - (i - 1) \in 1 .. Len(s) - i /\ i + (j - (i - 1)) = j + 1
      BY <2>2, <1>0
    <3>3. r[j - (i - 1)] = s[i + (j - (i - 1))]
      BY <3>2, <1>2
    <3>. QED
      BY <2>2, <3>1, <3>2, <3>3, <1>0
  <2>3. j < i \/ j >= i
    BY <1>0
  <2>. QED
    BY <2>1, <2>2, <2>3
<1>5. RemoveAt(s, i) = l \o r
  BY DEF RemoveAt, l, r
<1>. QED
  BY <1>0, <1>1, <1>2, <1>3, <1>4, <1>5

(***************************************************************************)
(* What stays keeps its order and its number.                              *)
(***************************************************************************)
LEMMA WithoutIs ==
  ASSUME NEW S, NEW s \in Seq(S), NEW gone
  PROVE  /\ Without(s, gone) \in Seq(S)
         /\ ToSet(Without(s, gone)) = ToSet(s) \ gone
         /\ IsInjective(s) => IsInjective(Without(s, gone))
<1>. DEFINE stays == {i \in DOMAIN s : s[i] \notin gone}
            upTo(i) == {h \in stays : h <= i}
            place == [i \in stays |-> Cardinality(upTo(i))]
            n == Cardinality(stays)
            at(k) == CHOOSE i \in stays : place[i] = k
<1>1. Len(s) \in Nat /\ DOMAIN s = 1 .. Len(s) /\ \A i \in DOMAIN s : s[i] \in S
  BY LenProperties, ElementOfSeq
<1>2. IsFiniteSet(stays) /\ n \in Nat /\ stays \subseteq Nat
  <2>1. stays \in SUBSET Nat /\ \A i \in stays : i <= Len(s)
    BY <1>1
  <2>. HIDE DEF stays
  <2>2. IsFiniteSet(stays)
    BY <1>1, <2>1, FS_BoundedSetOfNaturals
  <2>. QED
    BY <2>1, <2>2, FS_CardinalityType
<1>. HIDE DEF stays
<1>3. ASSUME NEW i \in stays
      PROVE  /\ IsFiniteSet(upTo(i)) /\ place[i] \in 1 .. n
             /\ \A h \in stays : h < i => place[h] < place[i]
  <2>1. upTo(i) \in SUBSET stays /\ i \in upTo(i)
    BY <1>2
  <2>2. IsFiniteSet(upTo(i)) /\ Cardinality(upTo(i)) <= n
    BY <1>2, <2>1, FS_Subset
  <2>3. Cardinality(upTo(i)) \in Nat /\ Cardinality(upTo(i)) # 0
    BY <2>1, <2>2, FS_CardinalityType, FS_EmptySet
  <2>4. ASSUME NEW h \in stays, h < i
        PROVE  place[h] < place[i]
    <3>0. i \in Nat /\ h \in Nat /\ \A x \in stays : x \in Nat
      BY <1>2
    <3>1. upTo(h) \in SUBSET upTo(i) /\ i \notin upTo(h)
      <4>1. \A x \in stays : x <= h => x <= i
        BY <2>4, <3>0
      <4>2. ~(i <= h)
        BY <2>4, <3>0
      <4>. QED
        BY <4>1, <4>2
    <3>2. Cardinality(upTo(h)) <= Cardinality(upTo(i))
          /\ Cardinality(upTo(h)) # Cardinality(upTo(i))
          /\ IsFiniteSet(upTo(h))
      <4>1. IsFiniteSet(upTo(h)) /\ Cardinality(upTo(h)) <= Cardinality(upTo(i))
        BY <2>2, <3>1, FS_Subset
      <4>2. Cardinality(upTo(i)) = Cardinality(upTo(h)) => upTo(i) = upTo(h)
        BY <2>2, <3>1, FS_Subset
      <4>. QED
        BY <2>1, <3>1, <4>1, <4>2
    <3>3. Cardinality(upTo(h)) \in Nat
      BY <3>2, FS_CardinalityType
    <3>. QED
      BY <2>3, <3>2, <3>3
  <2>. QED
    BY <1>2, <2>2, <2>3, <2>4
<1>4. place \in [stays -> 1 .. n] /\ DOMAIN place = stays
  BY <1>3
<1>. HIDE DEF place
<1>5. \A h, i \in stays : place[h] = place[i] => h = i
  <2>. SUFFICES ASSUME NEW h \in stays, NEW i \in stays, place[h] = place[i], h # i
                PROVE  FALSE
    OBVIOUS
  <2>1. h \in Nat /\ i \in Nat /\ place[h] \in 1 .. n
    BY <1>2, <1>3
  <2>2. CASE h < i
    <3>1. place[h] < place[i]
      BY <1>3, <2>2
    <3>. QED
      BY <2>1, <3>1
  <2>3. CASE i < h
    <3>1. place[i] < place[h]
      BY <1>3, <2>3
    <3>. QED
      BY <2>1, <3>1
  <2>. QED
    BY <2>1, <2>2, <2>3
<1>6. \A k \in 1 .. n : \E i \in stays : place[i] = k
  <2>1. place \in Injection(stays, 1 .. n)
    BY <1>4, <1>5 DEF Injection, IsInjective
  <2>2. IsFiniteSet(1 .. n) /\ Cardinality(1 .. n) = n
    <3>1. 1 \in Int /\ n \in Int
      BY <1>2
    <3>2. /\ IsFiniteSet(1 .. n)
          /\ Cardinality(1 .. n) = IF 1 > n THEN 0 ELSE n - 1 + 1
      BY <3>1, FS_Interval
    <3>. QED
      BY <1>2, <3>2
  <2>3. place \in Surjection(stays, 1 .. n)
    BY <2>1, <2>2, FS_Injection
  <2>. QED
    BY <2>3 DEF Surjection
<1>7. \A k \in 1 .. n : at(k) \in stays /\ place[at(k)] = k
  BY <1>6
<1>8. \A i \in stays : \E k \in 1 .. n : at(k) = i
  BY <1>3, <1>5, <1>7
<1>9. Without(s, gone) = [k \in 1 .. n |-> s[at(k)]]
  BY DEF Without, stays, place
<1>. HIDE DEF at, n
<1>10. \A k \in 1 .. n : s[at(k)] \in S /\ s[at(k)] \notin gone /\ at(k) \in DOMAIN s
  BY <1>1, <1>7 DEF stays
<1>11. Without(s, gone) \in Seq(S) /\ DOMAIN Without(s, gone) = 1 .. n
  BY <1>2, <1>9, <1>10
<1>12. ToSet(Without(s, gone)) = ToSet(s) \ gone
  <2>1. ToSet(Without(s, gone)) = {s[at(k)] : k \in 1 .. n}
    BY <1>9, <1>11 DEF ToSet
  <2>2. \A x \in ToSet(s) \ gone : \E i \in stays : s[i] = x
    BY DEF ToSet, stays
  <2>. QED
    BY <1>8, <1>10, <2>1, <2>2 DEF ToSet
<1>13. IsInjective(s) => IsInjective(Without(s, gone))
  <2>. SUFFICES ASSUME IsInjective(s), NEW j \in 1 .. n, NEW k \in 1 .. n,
                       s[at(j)] = s[at(k)]
                PROVE  j = k
    BY <1>9, <1>11 DEF IsInjective
  <2>1. at(j) = at(k)
    BY <1>10 DEF IsInjective
  <2>. QED
    BY <1>7, <2>1
<1>. QED
  BY <1>11, <1>12, <1>13

(***************************************************************************)
(* A set of positions that is not empty has a least one.                   *)
(***************************************************************************)
LEMMA LeastPosition ==
  ASSUME NEW I \in SUBSET Nat, I # {}
  PROVE  Min(I) \in I /\ \A i \in I : Min(I) <= i
<1>. DEFINE T == {1 .. m : m \in I}
<1>1. T \subseteq FiniteSubsetsOf(Nat) /\ T # {}
  <2>1. \A m \in Nat : IsFiniteSet(1 .. m) /\ 1 .. m \subseteq Nat
    BY FS_Interval
  <2>. QED
    BY <2>1 DEF FiniteSubsetsOf
<1>. HIDE DEF T
<1>2. PICK x \in T : \A y \in T : ~(<<y, x>> \in StrictSubsetOrdering(Nat))
  <2>1. IsWellFoundedOn(StrictSubsetOrdering(Nat), FiniteSubsetsOf(Nat))
    BY FS_StrictSubsetOrderingWellFounded
  <2>. QED
    BY <1>1, <2>1, WFMin
<1>3. PICK m \in I : x = 1 .. m
  BY DEF T
<1>4. \A i \in I : m <= i
  <2>. SUFFICES ASSUME NEW i \in I, i < m
                PROVE  FALSE
    OBVIOUS
  <2>1. 1 .. i \subseteq 1 .. m /\ m \in 1 .. m /\ m \notin 1 .. i
    OBVIOUS
  <2>2. <<1 .. i, x>> \in StrictSubsetOrdering(Nat)
    BY <1>3, <2>1 DEF StrictSubsetOrdering
  <2>. QED
    BY <1>2, <2>2 DEF T
<1>. QED
  BY <1>4 DEF Min

LEMMA FirstFound ==
  ASSUME NEW S, NEW s \in Seq(S), NEW c,
         SelectInSeq(s, LAMBDA o : o.comp = c) > 0
  PROVE  \E n \in 1 .. Len(s) :
           SelectInSeq(s, LAMBDA o : o.comp = c) = n /\ s[n].comp = c
<1>. DEFINE I == {i \in 1 .. Len(s) : s[i].comp = c}
<1>1. SelectInSeq(s, LAMBDA o : o.comp = c) = IF I # {} THEN Min(I) ELSE 0
  BY DEF SelectInSeq
<1>2. I # {} /\ I \in SUBSET Nat
  BY <1>1
<1>3. Min(I) \in I
  <2>. HIDE DEF I
  <2>. QED
    BY <1>2, LeastPosition
<1>. QED
  BY <1>1, <1>2, <1>3

LEMMA FirstRemoved ==
  ASSUME NEW S, NEW s \in Seq(S), NEW e
  PROVE  /\ RemoveFirst(s, e) \in Seq(S)
         /\ IsInjective(s) => /\ IsInjective(RemoveFirst(s, e))
                              /\ ToSet(RemoveFirst(s, e)) = ToSet(s) \ {e}
<1>. DEFINE I == {i \in 1 .. Len(s) : s[i] = e}
            t == RemoveFirst(s, e)
<1>0. Len(s) \in Nat /\ DOMAIN s = 1 .. Len(s) /\ ToSet(s) = {s[i] : i \in 1 .. Len(s)}
  BY ListElements
<1>1. CASE I = {}
  <2>1. t = s /\ e \notin ToSet(s)
    BY <1>0, <1>1 DEF RemoveFirst
  <2>. QED
    BY <2>1
<1>2. CASE I # {}
  <2>1. PICK n \in 1 .. Len(s) : s[n] = e /\ t = RemoveAt(s, n)
    <3>1. I \in SUBSET Nat
      OBVIOUS
    <3>2. Min(I) \in I
      <4>. HIDE DEF I
      <4>. QED
        BY <1>2, <3>1, LeastPosition
    <3>3. SelectInSeq(s, LAMBDA v : v = e) = Min(I)
      BY <1>2 DEF SelectInSeq
    <3>4. \E i \in 1 .. Len(s) : s[i] = e
      BY <1>2
    <3>5. t = RemoveAt(s, Min(I))
      BY <3>3, <3>4 DEF RemoveFirst
    <3>. QED
      BY <3>2, <3>5
  <2>. HIDE DEF t, I
  <2>2. /\ t \in Seq(S) /\ Len(t) = Len(s) - 1
        /\ \A j \in 1 .. Len(s) - 1 : t[j] = IF j < n THEN s[j] ELSE s[j + 1]
    BY <2>1, Removed
  <2>3. DOMAIN t = 1 .. Len(s) - 1
    BY <2>2, LenProperties
  <2>. DEFINE from(j) == IF j < n THEN j ELSE j + 1
  <2>4. \A j \in DOMAIN t : from(j) \in DOMAIN s /\ from(j) # n /\ t[j] = s[from(j)]
    BY <1>0, <2>2, <2>3
  <2>5. \A j, k \in DOMAIN t : from(j) = from(k) => j = k
    BY <1>0, <2>3
  <2>6. \A i \in DOMAIN s : i # n => \E j \in DOMAIN t : from(j) = i
    <3>. SUFFICES ASSUME NEW i \in DOMAIN s, i # n
                  PROVE  \E j \in DOMAIN t : from(j) = i
      OBVIOUS
    <3>1. CASE i < n
      <4>1. i \in DOMAIN t /\ from(i) = i
        BY <1>0, <2>3, <3>1
      <4>. QED
        BY <4>1
    <3>2. CASE ~(i < n)
      <4>1. i - 1 \in DOMAIN t /\ from(i - 1) = i
        BY <1>0, <2>3, <3>2
      <4>. QED
        BY <4>1
    <3>. QED
      BY <3>1, <3>2
  <2>. HIDE DEF from
  <2>7. ASSUME IsInjective(s)
        PROVE  IsInjective(t) /\ ToSet(t) = ToSet(s) \ {e}
    <3>1. IsInjective(t)
      BY <2>4, <2>5, <2>7 DEF IsInjective
    <3>2. n \in DOMAIN s /\ \A i \in DOMAIN s : s[i] = e => i = n
      BY <1>0, <2>1, <2>7 DEF IsInjective
    <3>3. ToSet(t) = ToSet(s) \ {e}
      BY <2>1, <2>4, <2>6, <3>2 DEF ToSet
    <3>. QED
      BY <3>1, <3>3
  <2>. QED
    BY <2>2, <2>7 DEF t
<1>. QED
  BY <1>1, <1>2

-----------------------------------------------------------------------------
(***************************************************************************)
(* The objects of the worker: those it holds, and of these the ones that   *)
(* are to be removed.                                                      *)
(***************************************************************************)
Held == ToSet(m_addedComps) \cup ToSet(m_comps)
Gone == ToSet(m_removedComps)

(***************************************************************************)
(* An object is created, held and deleted once.                            *)
(***************************************************************************)
ObjectsInv ==
  /\ IsInjective(m_addedComps) /\ IsInjective(m_comps)
  /\ ToSet(m_addedComps) \cap ToSet(m_comps) = {}
  /\ Held \cap deleted = {}
  /\ {o.id : o \in Held \cup deleted} = 1 .. created
  /\ \A o1, o2 \in Held \cup deleted : o1.id = o2.id => o1 = o2

ListsType ==
  /\ m_comps \in Seq(Objects) /\ m_addedComps \in Seq(Objects)
  /\ m_removedComps \in Seq(Objects) /\ deleted \subseteq Objects
  /\ aborted \in BOOLEAN

LEMMA HeldFacts ==
  ASSUME ListsType
  PROVE  /\ Held \subseteq Objects /\ Gone \subseteq Objects
         /\ m_comps \o m_addedComps \in Seq(Objects)
         /\ m_addedComps \o m_comps \in Seq(Objects)
         /\ ToSet(m_comps \o m_addedComps) = Held
         /\ ToSet(m_addedComps \o m_comps) = Held
<1>1. ToSet(m_comps) \subseteq Objects /\ ToSet(m_addedComps) \subseteq Objects
      /\ Gone \subseteq Objects
  BY ListElements DEF ListsType, Gone
<1>. QED
  BY <1>1, Joined DEF ListsType, Held

(***************************************************************************)
(* updateComponentList: what is held and not to be removed are the members *)
(* afterwards.                                                             *)
(***************************************************************************)
Updated ==
  /\ m_comps' \in Seq(Objects) /\ IsInjective(m_comps')
  /\ ToSet(m_comps') = Held \ Gone
  /\ m_addedComps' = <<>> /\ m_removedComps' = <<>>
  /\ deleted' = deleted \cup Gone
  /\ Gone \subseteq Held
  /\ UNCHANGED aborted

LEMMA UpdateEffect ==
  ASSUME ListsType, ObjectsInv, updateComponentList
  PROVE  \/ Updated
         \/ /\ aborted' = TRUE /\ UNCHANGED lists
            /\ ~Removable(m_comps \o m_addedComps)
<1>. DEFINE members == m_comps \o m_addedComps
<1>1. members \in Seq(Objects) /\ ToSet(members) = Held
  BY HeldFacts
<1>2. IsInjective(members)
  BY Joined DEF ListsType, ObjectsInv
<1>3. CASE Removable(members)
  <2>1. /\ m_comps' = Without(members, Gone)
        /\ m_addedComps' = <<>> /\ m_removedComps' = <<>>
        /\ deleted' = deleted \cup Gone /\ UNCHANGED aborted
    BY <1>3 DEF updateComponentList, Gone
  <2>2. Gone \subseteq Held
    BY <1>1, <1>3 DEF Removable, Gone
  <2>. HIDE DEF members
  <2>3. /\ m_comps' \in Seq(Objects) /\ IsInjective(m_comps')
        /\ ToSet(m_comps') = Held \ Gone
    BY <1>1, <1>2, <2>1, WithoutIs
  <2>. QED
    BY <2>1, <2>2, <2>3 DEF Updated
<1>4. CASE ~Removable(members)
  BY <1>4 DEF updateComponentList
<1>. QED
  BY <1>3, <1>4

LEMMA EmptyList == <<>> \in Seq(Objects) /\ ToSet(<<>>) = {} /\ IsInjective(<<>>)
<1>1. <<>> \in Seq(Objects) /\ Len(<<>>) = 0
  BY EmptySeq
<1>2. DOMAIN <<>> = {}
  BY <1>1, LenProperties
<1>. QED
  BY <1>1, <1>2 DEF ToSet, IsInjective

LEMMA UpdatedHeld ==
  ASSUME Updated
  PROVE  Held' = Held \ Gone /\ Gone' = {}
BY EmptyList DEF Updated, Held, Gone

LEMMA UpdateObjects ==
  ASSUME ListsType, ObjectsInv, updateComponentList \/ NoUpdate, UNCHANGED created
  PROVE  ListsType' /\ ObjectsInv'
<1>1. CASE UNCHANGED <<lists>> /\ aborted' \in BOOLEAN
  BY <1>1 DEF lists, ListsType, ObjectsInv, Held
<1>2. CASE Updated
  <2>1. Held' = Held \ Gone /\ Gone' = {}
    BY <1>2, UpdatedHeld
  <2>2. Held \cup deleted = (Held \ Gone) \cup (deleted \cup Gone)
    BY <1>2 DEF Updated
  <2>3. (Held \cup deleted)' = Held \cup deleted
    BY <1>2, <2>1, <2>2 DEF Updated
  <2>4. ListsType'
    BY <1>2, HeldFacts, EmptyList DEF Updated, ListsType
  <2>5. /\ IsInjective(m_addedComps') /\ ToSet(m_addedComps') = {}
        /\ IsInjective(m_comps')
    BY <1>2, EmptyList DEF Updated
  <2>6. Held' \cap deleted' = {}
    BY <1>2, <2>1 DEF Updated, ObjectsInv
  <2>7. {o.id : o \in (Held \cup deleted)'} = 1 .. created'
    BY <2>3 DEF ObjectsInv
  <2>8. \A o1, o2 \in (Held \cup deleted)' : o1.id = o2.id => o1 = o2
    BY <2>3 DEF ObjectsInv
  <2>. QED
    BY <2>4, <2>5, <2>6, <2>7, <2>8 DEF ObjectsInv
<1>3. (UNCHANGED lists /\ aborted' \in BOOLEAN) \/ Updated
  BY UpdateEffect DEF NoUpdate, ListsType
<1>. QED
  BY <1>1, <1>2, <1>3

(***************************************************************************)
(* There are not more members than objects, so that the position of the    *)
(* thread keeps its type.                                                  *)
(***************************************************************************)
LEMMA MembersBound ==
  ASSUME ListsType, ObjectsInv, created \in 0 .. MaxObjects
  PROVE  Len(m_comps) \in Nat /\ Len(m_comps) <= MaxObjects
<1>1. /\ Len(m_comps) \in Nat
      /\ IsFiniteSet(ToSet(m_comps)) /\ Cardinality(ToSet(m_comps)) = Len(m_comps)
  BY InjectiveCount, LenProperties DEF ListsType, ObjectsInv
<1>. DEFINE f == [o \in ToSet(m_comps) |-> o.id]
<1>2. f \in Injection(ToSet(m_comps), 1 .. created)
  <2>1. \A o \in ToSet(m_comps) : o.id \in 1 .. created
    BY DEF ObjectsInv, Held
  <2>2. \A o1, o2 \in ToSet(m_comps) : o1.id = o2.id => o1 = o2
    BY DEF ObjectsInv, Held
  <2>. QED
    BY <2>1, <2>2 DEF Injection, IsInjective
<1>. HIDE DEF f
<1>3. created \in Nat /\ created <= MaxObjects /\ MaxObjects \in Nat
  BY WorkerAssumption
<1>4. IsFiniteSet(1 .. created) /\ Cardinality(1 .. created) = created
  <2>1. 1 \in Int /\ created \in Int
    BY <1>3
  <2>2. /\ IsFiniteSet(1 .. created)
        /\ Cardinality(1 .. created) = IF 1 > created THEN 0 ELSE created - 1 + 1
    BY <2>1, FS_Interval
  <2>. QED
    BY <1>3, <2>2
<1>5. Cardinality(ToSet(m_comps)) <= Cardinality(1 .. created)
  BY <1>2, <1>4, FS_Injection
<1>. QED
  BY <1>1, <1>3, <1>4, <1>5

PushedInv ==
  \A k \in Clients : /\ cpc[k] = "pushed" => found[k] \in Objects
                     /\ op[k] = "add" => target[k] \in Participants

TypeInv == TypeOK /\ ObjectsInv /\ PushedInv

LEMMA ObjectsInit == Init => TypeInv
<1>. SUFFICES ASSUME Init PROVE TypeInv
  OBVIOUS
<1>. DEFINE first == [comp |-> Owner, id |-> 1]
<1>1. first \in Objects /\ first.id = 1 /\ 1 \in 0 .. MaxObjects
  BY WorkerAssumption DEF Objects
<1>2. <<>> \in Seq(Participants)
  BY EmptySeq
<1>3. m_comps = <<first>>
  BY DEF Init
<1>. HIDE DEF first
<1>4. /\ <<first>> \in Seq(Objects) /\ ToSet(<<first>>) = {first}
      /\ IsInjective(<<first>>)
  <2>1. /\ Len(<<first>>) = 1 /\ DOMAIN <<first>> = {1}
        /\ <<first>>[1] = first /\ <<first>> \in Seq(Objects)
    BY <1>1
  <2>. QED
    BY <2>1 DEF ToSet, IsInjective
<1>5. TypeOK
  <2>1. /\ m_comps \in Seq(Objects) /\ m_addedComps \in Seq(Objects)
        /\ m_removedComps \in Seq(Objects) /\ participants \in Seq(Participants)
    BY <1>2, <1>3, <1>4, EmptyList DEF Init
  <2>2. pos \in 1 .. MaxObjects
    BY WorkerAssumption DEF Init
  <2>. QED
    BY <1>1, <2>1, <2>2 DEF Init, TypeOK, Iterating, ClientSteps, Operations
<1>6. Held = {first} /\ deleted = {} /\ created = 1
  BY <1>3, <1>4, EmptyList DEF Init, Held
<1>7. {o.id : o \in Held \cup deleted} = 1 .. created
  BY <1>1, <1>6
<1>8. ObjectsInv
  BY <1>3, <1>4, <1>6, <1>7, EmptyList DEF Init, ObjectsInv
<1>9. PushedInv
  BY DEF Init, PushedInv
<1>. QED
  BY <1>5, <1>8, <1>9 DEF TypeInv

LEMMA ObjectsStutter ==
  ASSUME TypeInv, UNCHANGED vars
  PROVE  TypeInv'
BY DEF TypeInv, TypeOK, ObjectsInv, PushedInv, Held, vars, lists, flags,
       threadVars, clientVars

LEMMA FindEffect ==
  ASSUME ListsType, NEW k \in Clients, RemoveComponent(k)
  PROVE  \E c \in Participants, o \in ToSet(m_comps) :
           /\ o.comp = c /\ cpc[k] = "idle" /\ MayRemove(c)
           /\ found' = [found EXCEPT ![k] = o]
           /\ Enter(k, "remove", c, "pushed")
           /\ UNCHANGED <<lists, participants, created, flags, threadVars, aborted>>
<1>1. PICK c \in Participants :
        /\ MayCall(k, "remove") /\ MayRemove(c)
        /\ SelectInSeq(m_comps, LAMBDA o : o.comp = c) > 0
        /\ found' = [found EXCEPT ![k] =
                        m_comps[SelectInSeq(m_comps, LAMBDA o : o.comp = c)]]
        /\ Enter(k, "remove", c, "pushed")
        /\ UNCHANGED <<lists, participants, created, flags, threadVars, aborted>>
  BY DEF RemoveComponent
<1>2. m_comps \in Seq(Objects)
  BY DEF ListsType
<1>3. PICK n \in 1 .. Len(m_comps) :
        SelectInSeq(m_comps, LAMBDA o : o.comp = c) = n /\ m_comps[n].comp = c
  BY <1>1, <1>2, FirstFound
<1>4. m_comps[n] \in ToSet(m_comps)
  BY <1>2, ListElements
<1>. QED
  BY <1>1, <1>3, <1>4 DEF MayCall

LEMMA AddObject ==
  ASSUME TypeInv, NEW k \in Clients, AddComponent(k)
  PROVE  TypeInv'
<1>1. PICK c \in Participants :
        /\ created < MaxObjects /\ created' = created + 1
        /\ m_addedComps' = Append(m_addedComps, [comp |-> c, id |-> created + 1])
        /\ Enter(k, "add", c, "update")
        /\ UNCHANGED <<m_comps, m_removedComps, deleted, participants, found,
                       flags, threadVars, aborted>>
  BY DEF AddComponent
<1>. DEFINE o == [comp |-> c, id |-> created + 1]
<1>2. created \in Nat /\ created' \in 0 .. MaxObjects /\ created + 1 \in 1 .. MaxObjects
  BY <1>1, WorkerAssumption DEF TypeInv, TypeOK
<1>3. o \in Objects /\ o.id = created + 1
  BY <1>2 DEF Objects
<1>. HIDE DEF o
<1>4. o \notin Held \cup deleted /\ \A x \in Held \cup deleted : x.id # o.id
  <2>1. \A x \in Held \cup deleted : x.id \in 1 .. created
    BY DEF TypeInv, ObjectsInv
  <2>. QED
    BY <1>2, <1>3, <2>1
<1>5. m_addedComps' = Append(m_addedComps, o)
  BY <1>1 DEF o
<1>6. /\ m_addedComps' \in Seq(Objects)
      /\ ToSet(m_addedComps') = ToSet(m_addedComps) \cup {o}
      /\ IsInjective(m_addedComps')
  BY <1>3, <1>4, <1>5, Attached DEF TypeInv, TypeOK, ObjectsInv, Held
<1>7. Held' = Held \cup {o} /\ UNCHANGED <<m_comps, m_removedComps, deleted>>
  BY <1>1, <1>6 DEF Held
<1>8. TypeOK'
  BY <1>1, <1>2, <1>6
     DEF TypeInv, TypeOK, Enter, GoOn, flags, threadVars, ClientSteps,
         Operations
<1>9. {x.id : x \in (Held \cup deleted)'} = 1 .. created'
  <2>1. {x.id : x \in (Held \cup deleted)'} = {x.id : x \in Held \cup deleted} \cup {o.id}
    BY <1>7
  <2>2. {x.id : x \in Held \cup deleted} = 1 .. created
    BY DEF TypeInv, ObjectsInv
  <2>3. 1 .. created' = 1 .. created \cup {created + 1}
    BY <1>1, <1>2
  <2>. QED
    BY <1>3, <2>1, <2>2, <2>3
<1>10. \A x, y \in (Held \cup deleted)' : x.id = y.id => x = y
  BY <1>4, <1>7 DEF TypeInv, ObjectsInv
<1>11. ToSet(m_addedComps') \cap ToSet(m_comps') = {} /\ Held' \cap deleted' = {}
  BY <1>4, <1>6, <1>7 DEF TypeInv, ObjectsInv, Held
<1>12. ObjectsInv'
  BY <1>6, <1>7, <1>9, <1>10, <1>11 DEF TypeInv, ObjectsInv
<1>13. PushedInv'
  BY <1>1 DEF TypeInv, TypeOK, PushedInv, Enter, GoOn
<1>. QED
  BY <1>8, <1>12, <1>13 DEF TypeInv

ObjectsOK == TypeOK /\ ObjectsInv

LEMMA ObjectsNext ==
  ASSUME TypeInv, Next
  PROVE  ObjectsOK'
<1>0. ListsType /\ ObjectsInv /\ TypeOK /\ PushedInv
  BY DEF TypeInv, TypeOK, ListsType
<1>1. ASSUME UNCHANGED <<lists, created>>
      PROVE  ObjectsInv'
  BY <1>0, <1>1 DEF ObjectsInv, Held, lists
<1>2. ASSUME Thread
      PROVE  ObjectsOK'
  <2>1. CASE invokeWorkerPreDo \/ invokeWorkerDo \/ invokeWorkerPostDo
    <3>1. pos' \in 1 .. MaxObjects /\ pc' \in {"preDo", "gate", "do", "postDo", "update"}
      BY <1>0, <2>1, MembersBound, WorkerAssumption
         DEF TypeOK, invokeWorkerPreDo, invokeWorkerDo, invokeWorkerPostDo,
             Phase
    <3>2. UNCHANGED <<lists, participants, created, flags, clientVars, aborted>>
      BY <2>1 DEF invokeWorkerPreDo, invokeWorkerDo, invokeWorkerPostDo, Phase
    <3>. QED
      BY <1>0, <1>1, <3>1, <3>2
         DEF ObjectsOK, TypeOK, lists, flags, clientVars, Iterating
  <2>2. CASE Gate
    BY <1>0, <1>1, <2>2
       DEF Gate, ObjectsOK, TypeOK, lists, flags, clientVars, Iterating
  <2>3. CASE Update
    BY <1>0, <2>3, UpdateObjects
       DEF Update, ObjectsOK, TypeOK, ListsType, flags, clientVars, Iterating
  <2>. QED
    BY <1>2, <2>1, <2>2, <2>3 DEF Thread
<1>3. ASSUME NEW k \in Clients, Call(k)
      PROVE  ObjectsOK'
  <2>1. CASE AddComponent(k)
    BY <2>1, AddObject DEF TypeInv, ObjectsOK
  <2>2. CASE RemoveComponent(k)
    <3>1. PICK c \in Participants, o \in ToSet(m_comps) :
            /\ found' = [found EXCEPT ![k] = o]
            /\ Enter(k, "remove", c, "pushed")
            /\ UNCHANGED <<lists, participants, created, flags, threadVars, aborted>>
      BY <1>0, <2>2, FindEffect
    <3>2. o \in Objects
      BY <1>0, ListElements DEF ListsType
    <3>3. TypeOK'
      BY <1>0, <3>1, <3>2
         DEF TypeOK, Enter, GoOn, lists, flags, threadVars, ClientSteps,
             Operations
    <3>. QED
      BY <1>1, <3>1, <3>3 DEF ObjectsOK
  <2>3. CASE Start(k)
    BY <1>0, <1>1, <2>3
       DEF Start, ObjectsOK, TypeOK, Enter, GoOn, lists, threadVars,
                            ClientSteps, Operations
  <2>4. CASE OnStopping(k)
    BY <1>0, <1>1, <2>4
       DEF OnStopping, ObjectsOK, TypeOK, Enter, GoOn, lists, threadVars,
                            ClientSteps, Operations
  <2>5. CASE SetGate(k)
    BY <1>0, <1>1, <2>5
       DEF SetGate, ObjectsOK, TypeOK, lists, threadVars, clientVars
  <2>. QED
    BY <1>3, <2>1, <2>2, <2>3, <2>4, <2>5 DEF Call
<1>4. ASSUME NEW k \in Clients, Progress(k)
      PROVE  ObjectsOK'
  <2>0. Nothing \in Objects \cup {Nothing} /\ Owner \in Participants \cup {Owner}
    OBVIOUS
  <2>1. CASE PushRemoved(k)
    <3>1. UNCHANGED <<m_comps, m_addedComps, deleted, created>>
      BY <2>1 DEF PushRemoved
    <3>2. ObjectsInv'
      BY <1>0, <3>1 DEF ObjectsInv, Held
    <3>3. found[k] \in Objects
      BY <1>0, <2>1 DEF PushRemoved, PushedInv
    <3>. QED
      BY <1>0, <2>1, <3>2, <3>3, Attached
         DEF PushRemoved, ObjectsOK, TypeOK, GoOn, flags, threadVars,
             ClientSteps
  <2>2. CASE UpdateUnlessRunning(k)
    BY <1>0, <2>2, UpdateObjects
       DEF UpdateUnlessRunning, UpdateIf, ObjectsOK, TypeOK, ListsType, GoOn,
           flags,
           threadVars, ClientSteps
  <2>3. CASE UpdateProfile(k)
    <3>1. participants' \in Seq(Participants)
      <4>1. /\ participants \in Seq(Participants)
            /\ RemoveFirst(participants, target[k]) \in Seq(Participants)
        BY <1>0, FirstRemoved DEF TypeOK
      <4>2. op[k] = "add" => target[k] \in Participants
        BY <1>0 DEF PushedInv
      <4>3. op[k] = "add" => Append(participants, target[k]) \in Seq(Participants)
        BY <4>1, <4>2, Attached
      <4>. QED
        BY <2>3, <4>1, <4>3 DEF UpdateProfile
    <3>. QED
      BY <1>0, <1>1, <2>3, <3>1, <2>0
         DEF UpdateProfile, ObjectsOK, TypeOK, GoOn, Return, lists, flags,
             threadVars,
             ClientSteps
  <2>4. CASE Hook(k)
    BY <1>0, <2>4, UpdateObjects, <2>0
       DEF Hook, UpdateIf, ObjectsOK, TypeOK, ListsType, GoOn, Return, flags,
           threadVars, ClientSteps
  <2>5. CASE OnStarted(k)
    BY <1>0, <1>1, <2>5, <2>0
       DEF OnStarted, ObjectsOK, TypeOK, GoOn, Return, lists, ClientSteps,
           Iterating
  <2>6. CASE Stop(k)
    BY <1>0, <1>1, <2>6, <2>0
       DEF Stop, ObjectsOK, TypeOK, GoOn, Return, lists, threadVars,
           ClientSteps
  <2>. QED
    BY <1>4, <2>1, <2>2, <2>3, <2>4, <2>5, <2>6 DEF Progress
<1>. QED
  BY <1>2, <1>3, <1>4 DEF Next

LEMMA PushedNext ==
  ASSUME TypeInv, Next
  PROVE  PushedInv'
<1>0. TypeOK /\ PushedInv /\ ListsType
  BY DEF TypeInv, TypeOK, ListsType
<1>1. ASSUME UNCHANGED clientVars
      PROVE  PushedInv'
  BY <1>0, <1>1 DEF PushedInv, clientVars
<1>2. ASSUME NEW k \in Clients, NEW step, GoOn(k, step), step # "pushed",
             UNCHANGED <<op, target, found>>
      PROVE  PushedInv'
  BY <1>0, <1>2 DEF PushedInv, GoOn, TypeOK
<1>3. ASSUME NEW k \in Clients, Return(k)
      PROVE  PushedInv'
  BY <1>0, <1>3 DEF PushedInv, Return, GoOn, TypeOK
<1>4. ASSUME NEW k \in Clients, NEW o, NEW step, step # "pushed", o # "add",
             Enter(k, o, Owner, step), UNCHANGED found
      PROVE  PushedInv'
  BY <1>0, <1>4 DEF PushedInv, Enter, GoOn, TypeOK
<1>5. ASSUME Thread
      PROVE  PushedInv'
  BY <1>1, <1>5
     DEF Thread, invokeWorkerPreDo, invokeWorkerDo, invokeWorkerPostDo,
                    Phase, Gate, Update
<1>6. ASSUME NEW k \in Clients, Call(k)
      PROVE  PushedInv'
  <2>1. CASE AddComponent(k)
    BY <1>0, <2>1 DEF AddComponent, PushedInv, Enter, GoOn, TypeOK
  <2>2. CASE RemoveComponent(k)
    <3>1. PICK c \in Participants, o \in ToSet(m_comps) :
            /\ found' = [found EXCEPT ![k] = o]
            /\ Enter(k, "remove", c, "pushed")
      BY <1>0, <2>2, FindEffect
    <3>2. o \in Objects
      BY <1>0, ListElements DEF ListsType
    <3>. QED
      BY <1>0, <3>1, <3>2 DEF TypeOK, PushedInv, Enter, GoOn
  <2>3. CASE Start(k) \/ OnStopping(k)
    BY <1>4, <2>3 DEF Start, OnStopping
  <2>4. CASE SetGate(k)
    BY <1>1, <2>4 DEF SetGate
  <2>. QED
    BY <1>6, <2>1, <2>2, <2>3, <2>4 DEF Call
<1>7. ASSUME NEW k \in Clients, Progress(k)
      PROVE  PushedInv'
  <2>1. CASE PushRemoved(k) \/ UpdateUnlessRunning(k)
    BY <1>2, <2>1 DEF PushRemoved, UpdateUnlessRunning
  <2>2. CASE UpdateProfile(k)
    BY <1>2, <1>3, <2>2 DEF UpdateProfile
  <2>3. CASE Hook(k) \/ OnStarted(k) \/ Stop(k)
    BY <1>3, <2>3 DEF Hook, OnStarted, Stop
  <2>. QED
    BY <1>7, <2>1, <2>2, <2>3 DEF Progress
<1>. QED
  BY <1>5, <1>6, <1>7 DEF Next

LEMMA TypeInvNext ==
  ASSUME TypeInv, [Next]_vars
  PROVE  TypeInv'
<1>1. CASE Next
  BY <1>1, ObjectsNext, PushedNext DEF TypeInv, ObjectsOK
<1>2. CASE UNCHANGED vars
  BY <1>2, ObjectsStutter
<1>. QED
  BY <1>1, <1>2

-----------------------------------------------------------------------------
(***************************************************************************)
(* What worker and profile say of a component while a call is about it.    *)
(***************************************************************************)
Listed(c) == c \in ToSet(participants)
Has(c) == \E o \in Held \ Gone : o.comp = c

MemberCall(k) ==
  /\ cpc[k] \in {"idle", "opening", "stopping"} <=> target[k] = Owner
  /\ target[k] # Owner => op[k] \in {"add", "remove"}
  /\ cpc[k] = "pushed" =>
       /\ found[k] \in ToSet(m_comps) \ Gone /\ found[k].comp = target[k]
       /\ op[k] = "remove" /\ Listed(target[k])
  /\ cpc[k] \in {"update", "profile"} =>
       /\ Has(target[k]) <=> op[k] = "add"
       /\ Listed(target[k]) <=> op[k] = "remove"
  /\ cpc[k] = "hook" => (Listed(target[k]) <=> Has(target[k]))

MembersInv ==
  /\ Removable(m_comps)
  /\ IsInjective(participants)
  /\ \A o1, o2 \in Held : o1.comp = o2.comp => o1 = o2
  /\ \A j, k \in Clients : target[j] = target[k] /\ target[j] # Owner => j = k
  /\ \A k \in Clients : MemberCall(k)
  /\ \A c \in Participants : Alone(c) => (Listed(c) <=> Has(c))

WorkerInv == TypeInv /\ MembersInv

LEMMA MembersInit == Init => MembersInv
<1>. SUFFICES ASSUME Init PROVE MembersInv
  OBVIOUS
<1>. DEFINE first == [comp |-> Owner, id |-> 1]
<1>0. IsInjective(<<>>) /\ ToSet(<<>>) = {}
  BY EmptyList
<1>1. /\ m_comps = <<first>> /\ m_addedComps = <<>> /\ m_removedComps = <<>>
      /\ participants = <<>> /\ \A k \in Clients : cpc[k] = "idle" /\ target[k] = Owner
  BY DEF Init
<1>2. first.comp = Owner
  OBVIOUS
<1>. HIDE DEF first
<1>3. ToSet(<<first>>) = {first}
  BY DEF ToSet
<1>4. Held = {first} /\ Gone = {}
  BY <1>0, <1>1, <1>3 DEF Held, Gone
<1>5. \A c \in Participants : ~Has(c) /\ ~Listed(c)
  BY <1>0, <1>1, <1>2, <1>4, WorkerAssumption DEF Has, Listed
<1>6. \A k \in Clients : MemberCall(k)
  BY <1>1 DEF MemberCall
<1>. QED
  BY <1>0, <1>1, <1>4, <1>5, <1>6 DEF MembersInv, Removable

(***************************************************************************)
(* What an update leaves as it is.                                         *)
(***************************************************************************)
Same ==
  /\ Removable(m_comps)'
  /\ \A o1, o2 \in Held' : o1.comp = o2.comp => o1 = o2
  /\ \A c : Has(c)' <=> Has(c)
  /\ ToSet(m_comps) \ Gone \subseteq ToSet(m_comps') \ Gone'

LEMMA UpdateSame ==
  ASSUME ListsType, ObjectsInv, MembersInv, updateComponentList \/ NoUpdate
  PROVE  Same
<1>1. CASE UNCHANGED lists
  BY <1>1 DEF lists, Same, MembersInv, Held, Gone, Has, Removable
<1>2. CASE Updated
  <2>1. Held' = Held \ Gone /\ Gone' = {} /\ ToSet(m_comps') = Held \ Gone
    BY <1>2, UpdatedHeld DEF Updated
  <2>2. Removable(m_comps)'
    BY <1>2, EmptyList DEF Updated, Removable
  <2>3. ToSet(m_comps) \ Gone \subseteq ToSet(m_comps') \ Gone'
    BY <2>1 DEF Held
  <2>4. \A c : Has(c)' <=> Has(c)
    BY <2>1 DEF Has
  <2>. QED
    BY <2>1, <2>2, <2>3, <2>4 DEF Same, MembersInv
<1>. QED
  BY <1>1, <1>2, UpdateEffect DEF NoUpdate

(***************************************************************************)
(* Steps that leave the membership as it is.                               *)
(***************************************************************************)
LEMMA CallsKept ==
  ASSUME MembersInv, Same, UNCHANGED <<participants, target>>,
         \A k \in Clients : MemberCall(k)'
  PROVE  MembersInv'
<1>1. /\ Removable(m_comps)' /\ IsInjective(participants)'
      /\ \A o1, o2 \in Held' : o1.comp = o2.comp => o1 = o2
  BY DEF MembersInv, Same
<1>2. \A c : (Listed(c)' <=> Listed(c)) /\ (Has(c)' <=> Has(c))
  BY DEF Listed, Same
<1>3. \A j, k \in Clients : target'[j] = target'[k] /\ target'[j] # Owner => j = k
  BY DEF MembersInv
<1>4. \A c \in Participants : Alone(c)' => (Listed(c) <=> Has(c))'
  BY <1>2 DEF MembersInv, Alone
<1>. QED
  BY <1>1, <1>2, <1>3, <1>4 DEF MembersInv

LEMMA CallKept ==
  ASSUME MembersInv, Same, UNCHANGED <<participants>>, NEW k \in Clients,
         cpc'[k] = cpc[k], op'[k] = op[k], target'[k] = target[k], found'[k] = found[k]
  PROVE  MemberCall(k)'
<1>1. MemberCall(k)
  BY DEF MembersInv
<1>2. \A c : (Listed(c)' <=> Listed(c)) /\ (Has(c)' <=> Has(c))
  BY DEF Listed, Same
<1>3. found[k] \in ToSet(m_comps) \ Gone => found'[k] \in ToSet(m_comps') \ Gone'
  BY DEF Same
<1>. QED
  BY <1>1, <1>2, <1>3 DEF MemberCall

LEMMA NothingMoved ==
  ASSUME MembersInv, UNCHANGED lists
  PROVE  Same
BY DEF lists, Same, MembersInv, Held, Gone, Has, Removable

LEMMA MembersStutter ==
  ASSUME MembersInv, Same, UNCHANGED <<participants, clientVars>>
  PROVE  MembersInv'
BY CallsKept, CallKept DEF clientVars

(***************************************************************************)
(* A call that ends, or that is about no component.                        *)
(***************************************************************************)
LEMMA ReturnMembers ==
  ASSUME WorkerInv, Same, UNCHANGED participants, NEW k \in Clients, Return(k),
         cpc[k] \in {"hook", "opening", "stopping"}
  PROVE  MembersInv'
<1>0. TypeOK /\ MembersInv /\ MemberCall(k)
  BY DEF WorkerInv, TypeInv, MembersInv
<1>1. /\ cpc'[k] = "idle" /\ target'[k] = Owner
      /\ \A j \in Clients \ {k} :
           /\ cpc'[j] = cpc[j] /\ op'[j] = op[j]
           /\ target'[j] = target[j] /\ found'[j] = found[j]
  BY <1>0 DEF Return, GoOn, TypeOK
<1>2. \A j \in Clients : MemberCall(j)'
  <2>1. MemberCall(k)'
    BY <1>1 DEF MemberCall
  <2>. QED
    BY <1>0, <1>1, <2>1, CallKept
<1>3. \A c : (Listed(c)' <=> Listed(c)) /\ (Has(c)' <=> Has(c))
  BY DEF Listed, Same
<1>4. \A c \in Participants : Alone(c)' => (Listed(c) <=> Has(c))'
  <2>. SUFFICES ASSUME NEW c \in Participants, Alone(c)'
                PROVE  Listed(c) <=> Has(c)
    BY <1>3
  <2>1. CASE Alone(c)
    BY <1>0, <2>1 DEF MembersInv
  <2>2. CASE ~Alone(c)
    <3>1. target[k] = c
      BY <1>1, <2>2 DEF Alone
    <3>2. target[k] # Owner
      BY <3>1, WorkerAssumption
    <3>. QED
      BY <1>0, <3>1, <3>2 DEF MemberCall
  <2>. QED
    BY <2>1, <2>2
<1>5. \A i, j \in Clients : target'[i] = target'[j] /\ target'[i] # Owner => i = j
  BY <1>0, <1>1 DEF MembersInv
<1>. QED
  BY <1>0, <1>2, <1>4, <1>5 DEF MembersInv, Same

LEMMA EnterMembers ==
  ASSUME WorkerInv, UNCHANGED <<lists, participants, found>>, NEW k \in Clients, NEW o,
         NEW step \in {"opening", "stopping"}, cpc[k] = "idle", Enter(k, o, Owner, step)
  PROVE  MembersInv'
<1>0. TypeOK /\ MembersInv /\ MemberCall(k)
  BY DEF WorkerInv, TypeInv, MembersInv
<1>1. target[k] = Owner
  BY <1>0 DEF MemberCall
<1>2. /\ cpc'[k] = step /\ UNCHANGED target
      /\ \A j \in Clients \ {k} : cpc'[j] = cpc[j] /\ op'[j] = op[j]
  BY <1>0, <1>1 DEF Enter, GoOn, TypeOK
<1>3. \A j \in Clients : MemberCall(j)'
  <2>1. MemberCall(k)'
    BY <1>1, <1>2 DEF MemberCall
  <2>. QED
    BY <1>0, <1>2, <2>1, CallKept, NothingMoved
<1>. QED
  BY <1>0, <1>2, <1>3, CallsKept, NothingMoved

LEMMA AddMembers ==
  ASSUME Disciplined, WorkerInv, NEW k \in Clients, AddComponent(k)
  PROVE  MembersInv'
<1>0. TypeOK /\ ListsType /\ MembersInv /\ MemberCall(k)
  BY DEF WorkerInv, TypeInv, TypeOK, ListsType, MembersInv
<1>1. PICK c \in Participants :
        /\ cpc[k] = "idle" /\ MayAdd(c)
        /\ m_addedComps' = Append(m_addedComps, [comp |-> c, id |-> created + 1])
        /\ created < MaxObjects
        /\ Enter(k, "add", c, "update")
        /\ UNCHANGED <<m_comps, m_removedComps, participants, found>>
  BY DEF AddComponent, MayCall
<1>. DEFINE o == [comp |-> c, id |-> created + 1]
<1>2. o \in Objects /\ o.comp = c
  BY <1>0, <1>1, WorkerAssumption DEF TypeOK, Objects
<1>3. m_addedComps' = Append(m_addedComps, o)
  BY <1>1
<1>. HIDE DEF o
<1>4. Held' = Held \cup {o} /\ Gone' = Gone
  BY <1>0, <1>1, <1>2, <1>3, Attached DEF Held, Gone, ListsType
<1>5. Alone(c) /\ \A x \in Held : x.comp # c
  BY <1>0, <1>1, HeldFacts DEF MayAdd
<1>6. Gone \subseteq Held
  BY <1>0 DEF MembersInv, Removable, Gone, Held
<1>7. o \notin Held /\ o \notin Gone
  BY <1>2, <1>5, <1>6
<1>8. ~Has(c) /\ ~Listed(c)
  <2>1. ~Has(c)
    BY <1>5 DEF Has
  <2>. QED
    BY <1>0, <1>5, <2>1 DEF MembersInv
<1>9. Has(c)' /\ \A x : x # c => (Has(x)' <=> Has(x))
  BY <1>2, <1>4, <1>7 DEF Has
<1>10. \A x : Listed(x)' <=> Listed(x)
  BY <1>1 DEF Listed
<1>11. /\ cpc'[k] = "update" /\ op'[k] = "add" /\ target'[k] = c
       /\ \A j \in Clients \ {k} :
            /\ cpc'[j] = cpc[j] /\ op'[j] = op[j] /\ target'[j] = target[j]
  BY <1>0, <1>1 DEF Enter, GoOn, TypeOK
<1>12. c # Owner
  BY WorkerAssumption
<1>13. \A j \in Clients : MemberCall(j)'
  <2>1. MemberCall(k)'
    BY <1>8, <1>9, <1>10, <1>11, <1>12 DEF MemberCall
  <2>2. ASSUME NEW j \in Clients \ {k}
        PROVE  MemberCall(j)'
    <3>1. MemberCall(j) /\ target[j] # c
      BY <1>0, <1>5 DEF MembersInv, Alone
    <3>2. ToSet(m_comps') \ Gone' = ToSet(m_comps) \ Gone /\ found'[j] = found[j]
      BY <1>1, <1>4
    <3>. QED
      BY <1>9, <1>10, <1>11, <3>1, <3>2 DEF MemberCall
  <2>. QED
    BY <2>1, <2>2
<1>14. \A i, j \in Clients : target'[i] = target'[j] /\ target'[i] # Owner => i = j
  BY <1>0, <1>5, <1>11 DEF MembersInv, Alone
<1>15. \A x \in Participants : Alone(x)' => (Listed(x) <=> Has(x))'
  <2>. SUFFICES ASSUME NEW x \in Participants, Alone(x)'
                PROVE  (Listed(x) <=> Has(x))'
    OBVIOUS
  <2>1. x # c
    BY <1>11 DEF Alone
  <2>2. target[k] = Owner
    BY <1>0, <1>1 DEF MemberCall
  <2>3. Alone(x)
    BY <1>11, <2>2, WorkerAssumption DEF Alone
  <2>. QED
    BY <1>0, <1>9, <1>10, <2>1, <2>3 DEF MembersInv
<1>16. Removable(m_comps)' /\ IsInjective(participants)'
  BY <1>0, <1>1 DEF MembersInv, Removable
<1>17. \A x, y \in Held' : x.comp = y.comp => x = y
  BY <1>0, <1>2, <1>4, <1>5 DEF MembersInv
<1>. QED
  BY <1>13, <1>14, <1>15, <1>16, <1>17 DEF MembersInv

LEMMA RemoveMembers ==
  ASSUME Disciplined, WorkerInv, NEW k \in Clients, RemoveComponent(k)
  PROVE  MembersInv'
<1>0. TypeOK /\ ListsType /\ MembersInv /\ MemberCall(k)
  BY DEF WorkerInv, TypeInv, TypeOK, ListsType, MembersInv
<1>1. PICK c \in Participants, o \in ToSet(m_comps) :
        /\ o.comp = c /\ cpc[k] = "idle" /\ MayRemove(c)
        /\ found' = [found EXCEPT ![k] = o]
        /\ Enter(k, "remove", c, "pushed")
        /\ UNCHANGED <<lists, participants, created, flags, threadVars, aborted>>
  BY <1>0, FindEffect
<1>2. Alone(c) /\ Listed(c)
  BY <1>0, <1>1, ListElements DEF MayRemove, Contains, Listed, TypeOK
<1>3. o \notin Gone
  <2>1. PICK x \in Held \ Gone : x.comp = c
    BY <1>0, <1>2 DEF MembersInv, Has
  <2>2. x = o
    BY <1>0, <1>1, <2>1 DEF MembersInv, Held
  <2>. QED
    BY <2>1, <2>2
<1>4. /\ cpc'[k] = "pushed" /\ op'[k] = "remove" /\ target'[k] = c /\ found'[k] = o
      /\ \A j \in Clients \ {k} :
           /\ cpc'[j] = cpc[j] /\ op'[j] = op[j] /\ target'[j] = target[j]
           /\ found'[j] = found[j]
  BY <1>0, <1>1 DEF Enter, GoOn, TypeOK
<1>5. Same /\ c # Owner /\ UNCHANGED participants
  BY <1>0, <1>1, NothingMoved, WorkerAssumption
<1>6. \A x : (Listed(x)' <=> Listed(x)) /\ (Has(x)' <=> Has(x))
  BY <1>5 DEF Listed, Same
<1>7. \A j \in Clients : MemberCall(j)'
  <2>1. MemberCall(k)'
    <3>1. o \in ToSet(m_comps') \ Gone'
      BY <1>1, <1>3, <1>5 DEF Same
    <3>. QED
      BY <1>1, <1>2, <1>4, <1>5, <1>6, <3>1 DEF MemberCall
  <2>. QED
    BY <1>0, <1>4, <1>5, <2>1, CallKept
<1>8. \A i, j \in Clients : target'[i] = target'[j] /\ target'[i] # Owner => i = j
  BY <1>0, <1>2, <1>4 DEF MembersInv, Alone
<1>9. \A x \in Participants : Alone(x)' => (Listed(x) <=> Has(x))'
  <2>. SUFFICES ASSUME NEW x \in Participants, Alone(x)'
                PROVE  (Listed(x) <=> Has(x))'
    OBVIOUS
  <2>1. target[k] = Owner
    BY <1>0, <1>1 DEF MemberCall
  <2>2. Alone(x)
    BY <1>4, <2>1, WorkerAssumption DEF Alone
  <2>. QED
    BY <1>0, <1>6, <2>2 DEF MembersInv
<1>. QED
  BY <1>0, <1>5, <1>7, <1>8, <1>9 DEF MembersInv, Same

LEMMA PushMembers ==
  ASSUME WorkerInv, NEW k \in Clients, PushRemoved(k)
  PROVE  MembersInv'
<1>0. TypeOK /\ ListsType /\ MembersInv /\ MemberCall(k) /\ PushedInv
  BY DEF WorkerInv, TypeInv, TypeOK, ListsType, MembersInv
<1>. PICK o, c : o = found[k] /\ c = target[k]
  OBVIOUS
<1>1. /\ cpc[k] = "pushed" /\ m_removedComps' = Append(m_removedComps, o)
      /\ GoOn(k, "update")
      /\ UNCHANGED <<m_comps, m_addedComps, participants, op, target, found>>
  BY DEF PushRemoved
<1>2. /\ o \in ToSet(m_comps) \ Gone /\ o.comp = c /\ o \in Objects
      /\ op[k] = "remove" /\ Listed(c)
  BY <1>0, <1>1 DEF MemberCall, PushedInv
<1>3. c \in Participants /\ c # Owner
  BY <1>0, <1>1 DEF TypeOK, MemberCall
<1>4. Gone' = Gone \cup {o} /\ Held' = Held /\ IsInjective(m_removedComps')
  BY <1>0, <1>1, <1>2, Attached
     DEF Held, Gone, ListsType, MembersInv, Removable
<1>5. ~Has(c)' /\ \A x : x # c => (Has(x)' <=> Has(x))
  <2>1. o \in Held /\ \A x \in Held : x.comp = c => x = o
    BY <1>0, <1>2 DEF MembersInv, Held
  <2>2. Held' \ Gone' = (Held \ Gone) \ {o}
    BY <1>4
  <2>3. ~Has(c)'
    BY <2>1, <2>2 DEF Has
  <2>4. \A x : x # c => (Has(x)' <=> Has(x))
    BY <1>2, <2>2 DEF Has
  <2>. QED
    BY <2>3, <2>4
<1>6. \A x : Listed(x)' <=> Listed(x)
  BY <1>1 DEF Listed
<1>7. cpc'[k] = "update" /\ \A j \in Clients \ {k} : cpc'[j] = cpc[j]
  BY <1>0, <1>1 DEF GoOn, TypeOK
<1>8. ASSUME NEW j \in Clients, target[j] = c
      PROVE  j = k
  BY <1>0, <1>3, <1>8 DEF MembersInv
<1>9. \A j \in Clients : MemberCall(j)'
  <2>1. MemberCall(k)'
    BY <1>1, <1>2, <1>3, <1>5, <1>6, <1>7 DEF MemberCall
  <2>2. ASSUME NEW j \in Clients \ {k}
        PROVE  MemberCall(j)'
    <3>1. MemberCall(j) /\ target[j] # c
      BY <1>0, <1>8 DEF MembersInv
    <3>2. found[j] \in ToSet(m_comps) \ Gone /\ found[j].comp = target[j]
            => found[j] \in ToSet(m_comps') \ Gone'
      BY <1>1, <1>2, <1>4, <3>1
    <3>. QED
      BY <1>1, <1>5, <1>6, <1>7, <3>1, <3>2 DEF MemberCall
  <2>. QED
    BY <2>1, <2>2
<1>10. \A x \in Participants : Alone(x)' => (Listed(x) <=> Has(x))'
  <2>. SUFFICES ASSUME NEW x \in Participants, Alone(x)'
                PROVE  (Listed(x) <=> Has(x))'
    OBVIOUS
  <2>1. x # c /\ Alone(x)
    BY <1>1 DEF Alone
  <2>. QED
    BY <1>0, <1>5, <1>6, <2>1 DEF MembersInv
<1>11. Removable(m_comps)'
  BY <1>0, <1>1, <1>2, <1>4 DEF MembersInv, Removable, Gone
<1>. QED
  BY <1>0, <1>1, <1>4, <1>9, <1>10, <1>11 DEF MembersInv

LEMMA UpdateMembers ==
  ASSUME WorkerInv, NEW k \in Clients, UpdateUnlessRunning(k)
  PROVE  MembersInv'
<1>0. TypeOK /\ ListsType /\ ObjectsInv /\ MembersInv /\ MemberCall(k)
  BY DEF WorkerInv, TypeInv, TypeOK, ListsType, MembersInv
<1>1. /\ cpc[k] = "update" /\ cpc'[k] = "profile"
      /\ \A j \in Clients \ {k} : cpc'[j] = cpc[j]
      /\ UNCHANGED <<participants, op, target, found>>
  BY <1>0 DEF UpdateUnlessRunning, GoOn, TypeOK
<1>2. Same
  BY <1>0, UpdateSame DEF UpdateUnlessRunning, UpdateIf
<1>3. \A c : (Listed(c)' <=> Listed(c)) /\ (Has(c)' <=> Has(c))
  BY <1>1, <1>2 DEF Listed, Same
<1>4. MemberCall(k)'
  BY <1>0, <1>1, <1>3 DEF MemberCall
<1>5. \A j \in Clients : MemberCall(j)'
  BY <1>0, <1>1, <1>2, <1>4, CallKept
<1>. QED
  BY <1>0, <1>1, <1>2, <1>5, CallsKept

LEMMA ProfileMembers ==
  ASSUME WorkerInv, NEW k \in Clients, UpdateProfile(k)
  PROVE  MembersInv'
<1>0. TypeOK /\ ListsType /\ MembersInv /\ MemberCall(k)
  BY DEF WorkerInv, TypeInv, TypeOK, ListsType, MembersInv
<1>. PICK c : c = target[k]
  OBVIOUS
<1>1. cpc[k] = "profile" /\ UNCHANGED lists
  BY DEF UpdateProfile
<1>2. c \in Participants /\ c # Owner /\ op[k] \in {"add", "remove"}
  BY <1>0, <1>1 DEF TypeOK, MemberCall
<1>3. (Has(c) <=> op[k] = "add") /\ (Listed(c) <=> op[k] = "remove")
  BY <1>0, <1>1 DEF MemberCall
<1>4. op[k] = "remove" => Contains(participants, c)
  BY <1>0, <1>3, ListElements DEF Listed, Contains, TypeOK
<1>5. GoOn(k, "hook") /\ UNCHANGED <<op, target, found>>
  BY <1>2, <1>4 DEF UpdateProfile
<1>6. /\ IsInjective(participants')
      /\ Listed(c)' <=> Has(c)
      /\ \A x : x # c => (Listed(x)' <=> Listed(x))
  <2>0. participants \in Seq(Participants) /\ IsInjective(participants)
    BY <1>0 DEF TypeOK, MembersInv
  <2>1. CASE op[k] = "add"
    <3>1. participants' = Append(participants, c)
      BY <2>1 DEF UpdateProfile
    <3>2. c \notin ToSet(participants)
      BY <1>3, <2>1 DEF Listed
    <3>3. IsInjective(participants') /\ ToSet(participants') = ToSet(participants) \cup {c}
      BY <1>2, <2>0, <3>1, <3>2, Attached
    <3>. QED
      BY <1>3, <2>1, <3>3 DEF Listed
  <2>2. CASE op[k] = "remove"
    <3>1. participants' = RemoveFirst(participants, c)
      BY <1>4, <2>2 DEF UpdateProfile
    <3>2. IsInjective(participants') /\ ToSet(participants') = ToSet(participants) \ {c}
      BY <2>0, <3>1, FirstRemoved
    <3>. QED
      BY <1>3, <2>2, <3>2 DEF Listed
  <2>. QED
    BY <1>2, <2>1, <2>2
<1>7. Same
  BY <1>0, <1>1, NothingMoved
<1>8. \A x : Has(x)' <=> Has(x)
  BY <1>7 DEF Same
<1>9. cpc'[k] = "hook" /\ \A j \in Clients \ {k} : cpc'[j] = cpc[j]
  BY <1>0, <1>5 DEF GoOn, TypeOK
<1>10. \A j \in Clients \ {k} : target[j] # c
  BY <1>0, <1>2 DEF MembersInv
<1>11. \A j \in Clients : MemberCall(j)'
  <2>1. MemberCall(k)'
    BY <1>2, <1>5, <1>6, <1>8, <1>9 DEF MemberCall
  <2>2. ASSUME NEW j \in Clients \ {k}
        PROVE  MemberCall(j)'
    <3>1. MemberCall(j)
      BY <1>0 DEF MembersInv
    <3>2. found[j] \in ToSet(m_comps) \ Gone => found[j] \in ToSet(m_comps') \ Gone'
      BY <1>7 DEF Same
    <3>. QED
      BY <1>5, <1>6, <1>8, <1>9, <1>10, <3>1, <3>2 DEF MemberCall
  <2>. QED
    BY <2>1, <2>2
<1>12. \A x \in Participants : Alone(x)' => (Listed(x) <=> Has(x))'
  <2>. SUFFICES ASSUME NEW x \in Participants, Alone(x)'
                PROVE  (Listed(x) <=> Has(x))'
    OBVIOUS
  <2>1. x # c /\ Alone(x)
    BY <1>5 DEF Alone
  <2>. QED
    BY <1>0, <1>6, <1>8, <2>1 DEF MembersInv
<1>. QED
  BY <1>0, <1>5, <1>6, <1>7, <1>11, <1>12 DEF MembersInv, Same

LEMMA MembersNext ==
  ASSUME Disciplined, WorkerInv, Next
  PROVE  MembersInv'
<1>0. ListsType /\ ObjectsInv /\ MembersInv
  BY DEF WorkerInv, TypeInv, TypeOK, ListsType
<1>1. ASSUME Thread
      PROVE  MembersInv'
  <2>1. UNCHANGED <<participants, clientVars>>
    BY <1>1 DEF Thread, invokeWorkerPreDo, invokeWorkerDo, invokeWorkerPostDo,
                Phase, Gate, Update
  <2>2. UNCHANGED lists \/ updateComponentList
    BY <1>1 DEF Thread, invokeWorkerPreDo, invokeWorkerDo, invokeWorkerPostDo,
                Phase, Gate, Update
  <2>. QED
    BY <1>0, <2>1, <2>2, NothingMoved, UpdateSame, MembersStutter
<1>2. ASSUME NEW k \in Clients, Call(k)
      PROVE  MembersInv'
  <2>1. CASE Start(k) \/ OnStopping(k)
    BY <2>1, EnterMembers DEF Start, OnStopping, MayCall
  <2>2. CASE SetGate(k)
    BY <1>0, <2>2, NothingMoved, MembersStutter DEF SetGate
  <2>. QED
    BY <1>2, <2>1, <2>2, AddMembers, RemoveMembers DEF Call
<1>3. ASSUME NEW k \in Clients, Progress(k)
      PROVE  MembersInv'
  <2>1. CASE Hook(k)
    <3>1. updateComponentList \/ NoUpdate
      BY <2>1 DEF Hook, UpdateIf
    <3>. QED
      BY <1>0, <2>1, <3>1, UpdateSame, ReturnMembers DEF Hook
  <2>2. CASE OnStarted(k) \/ Stop(k)
    BY <1>0, <2>2, NothingMoved, ReturnMembers DEF OnStarted, Stop
  <2>. QED
    BY <1>3, <2>1, <2>2, PushMembers, UpdateMembers, ProfileMembers
       DEF Progress
<1>. QED
  BY <1>1, <1>2, <1>3 DEF Next

LEMMA WorkerInvNext ==
  ASSUME Disciplined, WorkerInv, [Next]_vars
  PROVE  WorkerInv'
<1>1. TypeInv'
  BY TypeInvNext DEF WorkerInv
<1>2. CASE Next
  BY <1>1, <1>2, MembersNext DEF WorkerInv
<1>3. CASE UNCHANGED vars
  BY <1>1, <1>3, NothingMoved, MembersStutter DEF WorkerInv, vars
<1>. QED
  BY <1>2, <1>3

(***************************************************************************)
(* An object is held once until it is deleted, and every object that is to *)
(* be removed is found.                                                    *)
(***************************************************************************)
LEMMA WorkerConserves == WorkerInv => Conserved
<1>. SUFFICES ASSUME WorkerInv PROVE Conserved
  OBVIOUS
<1>1. ListsType /\ ObjectsInv /\ Removable(m_comps)
  BY DEF WorkerInv, TypeInv, TypeOK, ListsType, MembersInv
<1>2. IsInjective(m_addedComps \o m_comps)
  BY <1>1, Joined DEF ObjectsInv, ListsType
<1>3. ToSet(m_addedComps \o m_comps) = Held
  BY <1>1, HeldFacts
<1>. QED
  BY <1>1, <1>2, <1>3 DEF Conserved, ObjectsInv

LEMMA WorkerAgrees == WorkerInv => ProfileAgrees
<1>. SUFFICES ASSUME WorkerInv, \A k \in Clients : cpc[k] = "idle",
                     NEW c \in Participants
              PROVE  Cardinality({i \in DOMAIN participants : participants[i] = c}) =
                       Cardinality({o \in ToSet(m_comps \o m_addedComps) :
                                      o.comp = c /\ o \notin ToSet(m_removedComps)})
  BY DEF ProfileAgrees
<1>1. ListsType /\ MembersInv /\ TypeOK
  BY DEF WorkerInv, TypeInv, TypeOK, ListsType
<1>2. Alone(c)
  BY <1>1, WorkerAssumption DEF MembersInv, MemberCall, Alone
<1>. DEFINE I == {i \in DOMAIN participants : participants[i] = c}
            O == {o \in Held : o.comp = c /\ o \notin Gone}
<1>3. Listed(c) <=> Has(c)
  BY <1>1, <1>2 DEF MembersInv
<1>4. (Listed(c) <=> I # {}) /\ (Has(c) <=> O # {})
  BY DEF Listed, Has, ToSet
<1>5. \A i, j \in I : i = j
  BY <1>1 DEF MembersInv, IsInjective
<1>6. \A x, y \in O : x = y
  BY <1>1 DEF MembersInv
<1>7. {o \in ToSet(m_comps \o m_addedComps) :
         o.comp = c /\ o \notin ToSet(m_removedComps)} = O
  BY <1>1, HeldFacts DEF Gone
<1>. HIDE DEF I, O
<1>8. CASE I = {} /\ O = {}
  BY <1>7, <1>8 DEF I
<1>9. CASE \E i, o : I = {i} /\ O = {o}
  BY <1>7, <1>9, FS_Singleton DEF I
<1>. QED
  <2>1. I # {} => \E i : I = {i}
    BY <1>5
  <2>2. O # {} => \E o : O = {o}
    BY <1>6
  <2>. QED
    BY <1>3, <1>4, <1>8, <1>9, <2>1, <2>2

LEMMA WorkerAlways == Disciplined /\ Spec => []WorkerInv
<1>. SUFFICES ASSUME Disciplined PROVE Spec => []WorkerInv
  OBVIOUS
<1>1. Init => WorkerInv
  BY ObjectsInit, MembersInit DEF WorkerInv
<1>2. WorkerInv /\ [Next]_vars => WorkerInv'
  BY WorkerInvNext
<1>. QED
  BY <1>1, <1>2, PTL DEF Spec

(***************************************************************************)
(* Whatever the clients call and wherever the thread is in its pass, no    *)
(* object is lost, held twice or deleted twice, and each that is to be     *)
(* removed is a member, for callers that make one call at a time about a   *)
(* component (ExecutionContextWorker.cpp:394).                             *)
(***************************************************************************)
THEOREM ObjectsAreConserved == Disciplined /\ Spec => []Conserved
<1>1. WorkerInv => Conserved
  BY WorkerConserves
<1>. QED
  BY <1>1, WorkerAlways, PTL

(***************************************************************************)
(* An update finds whatever it is to remove.                               *)
(***************************************************************************)
LEMMA UpdateFinds ==
  ASSUME WorkerInv, updateComponentList \/ NoUpdate
  PROVE  UNCHANGED aborted
<1>1. ListsType /\ ObjectsInv /\ Removable(m_comps)
  BY DEF WorkerInv, TypeInv, TypeOK, ListsType, MembersInv
<1>2. ToSet(m_comps) \subseteq ToSet(m_comps \o m_addedComps)
  BY <1>1, HeldFacts DEF Held
<1>3. Removable(m_comps \o m_addedComps)
  BY <1>1, <1>2 DEF Removable
<1>. QED
  BY <1>1, <1>3, UpdateEffect DEF Updated, NoUpdate

(***************************************************************************)
(* For callers that make one call at a time about a component, an object   *)
(* that is to be removed is found among the members, whichever of the      *)
(* thread and the clients does the update                                  *)
(* (ExecutionContextWorker.cpp:394, the assertion).                        *)
(***************************************************************************)
THEOREM RemovedIsFound == Disciplined /\ Spec => []AssertionHolds
<1>. SUFFICES ASSUME Disciplined PROVE Spec => []AssertionHolds
  OBVIOUS
<1>1. Init => WorkerInv /\ AssertionHolds
  BY ObjectsInit, MembersInit DEF WorkerInv, Init, AssertionHolds
<1>2. ASSUME WorkerInv, AssertionHolds, [Next]_vars
      PROVE  WorkerInv' /\ AssertionHolds'
  <2>1. WorkerInv'
    BY <1>2, WorkerInvNext
  <2>2. CASE UNCHANGED vars
    BY <1>2, <2>1, <2>2 DEF vars, AssertionHolds
  <2>3. CASE Thread
    <3>1. UNCHANGED aborted \/ updateComponentList
      BY <2>3
         DEF Thread, invokeWorkerPreDo, invokeWorkerDo, invokeWorkerPostDo,
                  Phase, Gate, Update
    <3>. QED
      BY <1>2, <2>1, <3>1, UpdateFinds DEF AssertionHolds
  <2>4. ASSUME NEW k \in Clients, Call(k)
        PROVE  AssertionHolds'
    <3>1. UNCHANGED aborted
      BY <2>4
         DEF Call, AddComponent, RemoveComponent, Start, OnStopping, SetGate
    <3>. QED
      BY <1>2, <3>1 DEF AssertionHolds
  <2>5. ASSUME NEW k \in Clients, Progress(k)
        PROVE  AssertionHolds'
    <3>1. UNCHANGED aborted \/ updateComponentList
      BY <2>5
         DEF Progress, PushRemoved, UpdateUnlessRunning, UpdateProfile, Hook,
                  OnStarted, Stop, UpdateIf, NoUpdate
    <3>. QED
      BY <1>2, <3>1, UpdateFinds DEF AssertionHolds
  <2>. QED
    BY <1>2, <2>1, <2>2, <2>3, <2>4, <2>5 DEF Next
<1>. QED
  BY <1>1, <1>2, PTL DEF Spec

(***************************************************************************)
(* Between calls of such callers the profile lists the components that the *)
(* worker has or is about to have (ExecutionContextBase.cpp:276, 281, 315, *)
(* 321).                                                                   *)
(***************************************************************************)
THEOREM ProfileAndWorkerAgree == Disciplined /\ Spec => []ProfileAgrees
<1>1. WorkerInv => ProfileAgrees
  BY WorkerAgrees
<1>. QED
  BY <1>1, WorkerAlways, PTL

-----------------------------------------------------------------------------
(* The manager *)

Threads == Users \cup {Main}

Living(r) == state[r] \in {"created", "alive", "exiting"}

\* The main thread has begun to shut down, after its wait.
Closing == mainPc \in {"exits", "names", "ended"} \/ (shutdown /\ Cleaning)

(***************************************************************************)
(* What each place in a call says of the component that it is about, which *)
(* is the concern of one thread at a time.                                 *)
(***************************************************************************)
ThreadInv(t) ==
  /\ call[t] = "idle" <=> about[t] = NoRtc
  /\ call[t] = "number" => /\ state[about[t]] = "none"
                           /\ numbers[name[about[t]]] = NoRtc
  /\ call[t] = "initialize" => state[about[t]] = "created"
  /\ call[t] \in {"register", "bind"} => /\ state[about[t]] = "alive"
                                         /\ about[t] \notin ready
  /\ call[t] = "bind" => compManager[name[about[t]]] = about[t]
  /\ call[t] \in {"exit", "leave", "notify"} => about[t] \in ready
  /\ call[t] = "leave" => state[about[t]] = "alive"
  /\ call[t] = "notify" =>
       /\ state[about[t]] = "exiting"
       /\ \A i \in 1 .. Len(finalized) : finalized[i] # about[t]

CallsInv ==
  /\ \A t \in Threads : ThreadInv(t)
  /\ \A t, u \in Threads : about[t] = about[u] => t = u \/ about[t] = NoRtc
  /\ \A c, d \in Users : call[c] = "number" /\ call[d] = "number" => c = d

(***************************************************************************)
(* The main thread makes components exit when the clients are at rest, and *)
(* forgets none of those that have a name.                                 *)
(***************************************************************************)
MainInv ==
  /\ call[Main] \in {"idle", "exit", "leave", "notify"}
  /\ call[Main] # "idle" => mainPc = "exits"
  /\ mainPc = "loop" => ~shutdown
  /\ mainPc \in {"wait", "exits", "names", "ended"} => shutdown
  /\ Closing => \A c \in Users : call[c] = "idle"
  /\ leaving # {} => mainPc = "exits"
  /\ leaving \subseteq ready
  /\ mainPc = "exits" =>
       \A r \in ready : state[r] = "alive" => r \in leaving \/ about[Main] = r
  /\ (Closing /\ mainPc # "exits") => \A r \in ready : state[r] # "alive"

(***************************************************************************)
(* Whoever lives has a number of its own, and nobody else has one.         *)
(***************************************************************************)
NumbersInv ==
  /\ \A n \in Numbers :
       numbers[n] # NoRtc => name[numbers[n]] = n /\ Living(numbers[n])
  /\ \A r \in Rtcs : Living(r) => numbers[name[r]] = r
  /\ \A r \in ready : state[r] \in {"alive", "exiting", "deleted"}

(***************************************************************************)
(* A name leads to whoever has the number; whoever was created has its     *)
(* name until the main thread takes it back.                               *)
(***************************************************************************)
TablesInv ==
  /\ \A n \in Numbers :
       /\ compManager[n] # NoRtc => numbers[n] = compManager[n]
       /\ compNames[n] # NoRtc => /\ numbers[n] = compNames[n]
                                   /\ compNames[n] \in ready
  /\ \A r \in ready :
       /\ state[r] = "alive" => compManager[name[r]] = r
       /\ state[r] \in {"alive", "exiting"} =>
            \/ compNames[name[r]] = r
            \/ mainPc = "destroy" /\ r = Head(rest)
            \/ mainPc = "ended"
  /\ mainPc \in {"unbind", "destroy"} => compManager[name[Head(rest)]] = NoRtc
  /\ mainPc = "destroy" => compNames[name[Head(rest)]] = NoRtc

(***************************************************************************)
(* What is finalized is so once, and is there until its turn comes.        *)
(***************************************************************************)
FinalizedInv ==
  /\ \A i, j \in 1 .. Len(finalized) : finalized[i] = finalized[j] => i = j
  /\ \A i \in 1 .. Len(finalized) :
       /\ finalized[i] \in ready
       /\ \/ state[finalized[i]] = "exiting"
          \/ Cleaning /\ state[finalized[i]] = "deleted"
  /\ Cleaning =>
       /\ rest # <<>>
       /\ \A i, j \in 1 .. Len(rest) : rest[i] = rest[j] => i = j
       /\ \A i \in 1 .. Len(rest) :
            /\ state[rest[i]] = "exiting"
            /\ \E j \in 1 .. Len(finalized) : finalized[j] = rest[i]

(***************************************************************************)
(* A server that has never crashed has the names of the table.             *)
(***************************************************************************)
ServersInv ==
  \A s \in Servers \ crashed :
    s \in up /\ bound[s] = compNames /\ (mainPc # "ended" => s \in linked)

NamesInv ==
  /\ ManagerTypeOK /\ CallsInv /\ MainInv /\ NumbersInv /\ TablesInv
  /\ FinalizedInv /\ ServersInv

\* A call that has begun is about a component that has a number.
LEMMA AboutType ==
  ASSUME NamesInv, NEW t \in Threads, call[t] # "idle"
  PROVE  about[t] \in Rtcs /\ name[about[t]] \in Numbers
BY DEF NamesInv, ManagerTypeOK, CallsInv, ThreadInv, Threads

\* The component that is being deleted is exiting and has its number still.
LEMMA FirstOfRest ==
  ASSUME NamesInv, Cleaning
  PROVE  /\ rest # <<>> /\ rest \in Seq(Rtcs) /\ Head(rest) = rest[1]
         /\ Head(rest) \in Rtcs /\ name[Head(rest)] \in Numbers
         /\ state[Head(rest)] = "exiting"
         /\ Head(rest) \in ready
         /\ numbers[name[Head(rest)]] = Head(rest)
         /\ \E j \in 1 .. Len(finalized) : finalized[j] = Head(rest)
BY DEF NamesInv, ManagerTypeOK, FinalizedInv, NumbersInv, Living

-----------------------------------------------------------------------------
(* Each action preserves the invariant.                                    *)

LEMMA CreateInv ==
  ASSUME Orderly, NamesInv, NEW c \in Users, NEW r \in Rtcs, Create(c, r)
  PROVE  NamesInv'
<1>. USE ManagerAssumption DEF NamesInv, Create, CallGoes, Accepting,
             rtcVars, tableVars, serverVars, threadsVars, mainVars, Threads
<1>1. ManagerTypeOK'
  BY DEF ManagerTypeOK
<1>. USE DEF ManagerTypeOK, Table
<1>2. CallsInv'
  BY DEF ThreadInv, MainInv, CallsInv
<1>3. MainInv'
  BY DEF Closing, MainInv
<1>4. NumbersInv'
  BY DEF Living, NumbersInv
<1>5. TablesInv'
  BY DEF TablesInv
<1>6. FinalizedInv'
  BY DEF Cleaning, FinalizedInv
<1>7. ServersInv'
  BY DEF ServersInv
<1>. QED
  BY <1>1, <1>2, <1>3, <1>4, <1>5, <1>6, <1>7

LEMMA TakeNumberInv ==
  ASSUME Orderly, NamesInv, NEW c \in Users, TakeNumber(c)
  PROVE  NamesInv'
<1>. USE ManagerAssumption DEF NamesInv, TakeNumber, CallGoes, rtcVars,
             tableVars, serverVars, threadsVars, mainVars, Threads
<1>1. ManagerTypeOK'
  BY ZenonT(40) DEF ManagerTypeOK, Table
<1>. USE DEF ManagerTypeOK, Table
<1>2. CallsInv'
  BY DEF ThreadInv, MainInv, CallsInv
<1>3. MainInv'
  BY DEF Closing, Cleaning, MainInv
<1>4. NumbersInv'
  BY DEF Living, CallsInv, ThreadInv, NumbersInv
<1>5. TablesInv'
  BY DEF CallsInv, ThreadInv, TablesInv
<1>6. FinalizedInv'
  BY <1>1 DEF Cleaning, CallsInv, ThreadInv, NumbersInv, FinalizedInv
<1>7. ServersInv'
  BY DEF ServersInv
<1>. QED
  BY <1>1, <1>2, <1>3, <1>4, <1>5, <1>6, <1>7

LEMMA InitializeInv ==
  ASSUME Orderly, NamesInv, NEW c \in Users, Initialize(c)
  PROVE  NamesInv'
<1>. USE ManagerAssumption DEF NamesInv, Initialize, CallGoes, rtcVars,
             tableVars, serverVars, threadsVars, mainVars, Threads
<1>1. ManagerTypeOK'
  <2>1. about[c] \in Rtcs
    BY AboutType
  <2>2. state' \in [Rtcs -> {"none", "created", "alive", "exiting", "deleted"}]
    BY <2>1 DEF ManagerTypeOK
  <2>3. about' \in [Users \cup {Main} -> Rtcs \cup {NoRtc}]
    BY DEF ManagerTypeOK
  <2>. QED
    BY <2>2, <2>3 DEF ManagerTypeOK
<1>. USE DEF ManagerTypeOK, Table
<1>2. CallsInv'
  BY <1>1 DEF ThreadInv, NumbersInv, FinalizedInv, MainInv, CallsInv
<1>3. MainInv'
  BY DEF Closing, Cleaning, MainInv
<1>4. NumbersInv'
  <2>1. about[c] \in Rtcs /\ state[about[c]] = "created"
    BY AboutType DEF CallsInv, ThreadInv
  <2>2. about[c] \notin ready
    BY <2>1 DEF NumbersInv
  <2>3. CASE state' = state
    BY <2>3 DEF NumbersInv, Living
  <2>4. CASE state' = [state EXCEPT ![about[c]] = "alive"]
    <3>1. \A r \in Rtcs :
            state'[r] = IF r = about[c] THEN "alive" ELSE state[r]
      BY <2>1, <2>4
    <3>. QED
      BY <2>1, <2>2, <3>1 DEF NumbersInv, Living
  <2>. QED
    BY <2>3, <2>4
<1>5. TablesInv'
  BY DEF NumbersInv, CallsInv, ThreadInv, TablesInv
<1>6. FinalizedInv'
  BY DEF Cleaning, CallsInv, ThreadInv, MainInv, NumbersInv, FinalizedInv
<1>7. ServersInv'
  BY DEF ServersInv
<1>. QED
  BY <1>1, <1>2, <1>3, <1>4, <1>5, <1>6, <1>7

LEMMA RegisterInv ==
  ASSUME Orderly, NamesInv, NEW c \in Users, Register(c)
  PROVE  NamesInv'
<1>. USE ManagerAssumption DEF NamesInv, Register, CallGoes, rtcVars,
             tableVars, serverVars, threadsVars, mainVars, Threads
<1>1. ManagerTypeOK'
  BY ZenonT(40) DEF ManagerTypeOK, Table
<1>. USE DEF ManagerTypeOK, Table
<1>2. CallsInv'
  <2>1. about[c] \in Rtcs /\ name[about[c]] \in Numbers
    BY AboutType
  <2>2. compManager[name[about[c]]] \in {NoRtc, about[c]}
    BY <2>1 DEF TablesInv, NumbersInv, Living, CallsInv, ThreadInv
  <2>3. ASSUME NEW t \in Threads
        PROVE  ThreadInv(t)'
    <3>1. CASE t = c
      BY <2>1, <2>2, <3>1 DEF CallsInv, ThreadInv
    <3>2. CASE t # c
      BY <2>1, <2>2, <3>2 DEF CallsInv, ThreadInv
    <3>. QED
      BY <3>1, <3>2
  <2>. QED
    BY <2>3 DEF CallsInv
<1>3. MainInv'
  BY DEF Closing, Cleaning, MainInv
<1>4. NumbersInv'
  BY DEF Living, NumbersInv
<1>5. TablesInv'
  <2>1. about[c] \in Rtcs /\ name[about[c]] \in Numbers
    BY AboutType
  <2>2. state[about[c]] = "alive" /\ numbers[name[about[c]]] = about[c]
    BY <2>1 DEF CallsInv, ThreadInv, NumbersInv, Living
  <2>3. compManager[name[about[c]]] \in {NoRtc, about[c]}
    BY <2>1, <2>2 DEF TablesInv
  <2>4. compManager' = [compManager EXCEPT ![name[about[c]]] = about[c]]
    BY <2>1, <2>3
  <2>5. mainPc \in {"unbind", "destroy"} => name[Head(rest)] # name[about[c]]
    BY <2>2, FirstOfRest DEF Cleaning
  <2>. QED
    BY <2>1, <2>2, <2>4, <2>5, FirstOfRest DEF TablesInv, NumbersInv, Cleaning
<1>6. FinalizedInv'
  BY DEF Cleaning, FinalizedInv
<1>7. ServersInv'
  BY DEF ServersInv
<1>. QED
  BY <1>1, <1>2, <1>3, <1>4, <1>5, <1>6, <1>7

LEMMA BindInv ==
  ASSUME Orderly, NamesInv, NEW c \in Users, Bind(c)
  PROVE  NamesInv'
<1>. USE ManagerAssumption DEF NamesInv, Bind, CallGoes, rtcVars, tableVars,
             serverVars, threadsVars, mainVars, Threads
<1>1. ManagerTypeOK'
  <2>1. about[c] \in Rtcs /\ name[about[c]] \in Numbers
    BY AboutType
  <2>2. bound' \in [Servers -> Table]
    BY <2>1 DEF ManagerTypeOK, Table
  <2>3. compNames' \in Table
    BY <2>1 DEF ManagerTypeOK, Table
  <2>4. call' \in [Users \cup {Main} ->
                   {"idle", "number", "initialize", "register", "bind",
                    "exit", "leave", "notify"}]
    BY DEF ManagerTypeOK
  <2>5. about' \in [Users \cup {Main} -> Rtcs \cup {NoRtc}]
    BY DEF ManagerTypeOK
  <2>. QED
    BY <2>1, <2>2, <2>3, <2>4, <2>5 DEF ManagerTypeOK
<1>. USE DEF ManagerTypeOK, Table
<1>2. CallsInv'
  BY DEF ThreadInv, CallsInv
<1>3. MainInv'
  BY DEF Closing, Cleaning, MainInv
<1>4. NumbersInv'
  BY DEF Living, CallsInv, ThreadInv, NumbersInv
<1>5. TablesInv'
  BY DEF CallsInv, ThreadInv, TablesInv
<1>6. FinalizedInv'
  <2>1. FinalizedInv /\ UNCHANGED <<finalized, state, rest, mainPc>>
    OBVIOUS
  <2>2. ready \subseteq ready'
    OBVIOUS
  <2>. HIDE DEF NamesInv, Bind, ManagerTypeOK
  <2>3. Cleaning' <=> Cleaning
    BY <2>1 DEF Cleaning
  <2>. QED
    BY <2>1, <2>2, <2>3 DEF FinalizedInv
<1>7. ServersInv'
  <2>1. mainPc # "ended"
    BY DEF MainInv, Closing
  <2>2. ASSUME NEW s \in Servers \ crashed
        PROVE  bound'[s] = compNames'
    BY <2>1, <2>2 DEF ServersInv
  <2>. QED
    BY <2>1, <2>2 DEF ServersInv
<1>. QED
  BY <1>1, <1>2, <1>3, <1>4, <1>5, <1>6, <1>7

LEMMA DeleteComponentInv ==
  ASSUME Orderly, NamesInv, NEW c \in Users, NEW n \in Numbers,
         DeleteComponent(c, n)
  PROVE  NamesInv'
<1>. USE ManagerAssumption DEF NamesInv, DeleteComponent, CallGoes,
             Accepting, rtcVars, tableVars, serverVars, threadsVars,
             mainVars, Threads
<1>1. ManagerTypeOK'
  BY DEF ManagerTypeOK
<1>. USE DEF ManagerTypeOK, Table
<1>2. CallsInv'
  BY DEF ThreadInv, CallsInv
<1>3. MainInv'
  BY DEF Closing, MainInv
<1>4. NumbersInv'
  BY DEF Living, NumbersInv
<1>5. TablesInv'
  BY DEF TablesInv
<1>6. FinalizedInv'
  BY DEF Cleaning, FinalizedInv
<1>7. ServersInv'
  BY DEF ServersInv
<1>. QED
  BY <1>1, <1>2, <1>3, <1>4, <1>5, <1>6, <1>7

LEMMA ExitInv ==
  ASSUME Orderly, NamesInv, NEW t \in Threads, Exit(t)
  PROVE  NamesInv'
<1>. USE ManagerAssumption DEF NamesInv, Exit, CallGoes, rtcVars, tableVars,
             serverVars, threadsVars, mainVars, Threads
<1>1. ManagerTypeOK'
  BY DEF ManagerTypeOK
<1>. USE DEF ManagerTypeOK, Table
<1>2. CallsInv'
  BY <1>1 DEF ThreadInv, MainInv, Closing, CallsInv
<1>3. MainInv'
  BY DEF Closing, Cleaning, MainInv
<1>4. NumbersInv'
  BY DEF Living, NumbersInv
<1>5. TablesInv'
  BY DEF TablesInv
<1>6. FinalizedInv'
  BY DEF Cleaning, FinalizedInv
<1>7. ServersInv'
  BY DEF ServersInv
<1>. QED
  BY <1>1, <1>2, <1>3, <1>4, <1>5, <1>6, <1>7

LEMMA LeaveContextsInv ==
  ASSUME Orderly, NamesInv, NEW t \in Threads, LeaveContexts(t)
  PROVE  NamesInv'
<1>. USE ManagerAssumption DEF NamesInv, LeaveContexts, CallGoes, rtcVars,
             tableVars, serverVars, threadsVars, mainVars, Threads
<1>1. ManagerTypeOK'
  BY DEF ManagerTypeOK
<1>. USE DEF ManagerTypeOK, Table
<1>2. CallsInv'
  BY DEF ThreadInv, FinalizedInv, CallsInv
<1>3. MainInv'
  BY DEF Closing, Cleaning, MainInv
<1>4. NumbersInv'
  BY DEF Living, CallsInv, ThreadInv, NumbersInv
<1>5. TablesInv'
  BY DEF CallsInv, ThreadInv, TablesInv
<1>6. FinalizedInv'
  <2>1. about[t] \in Rtcs /\ state[about[t]] = "alive"
    BY AboutType DEF CallsInv, ThreadInv
  <2>2. \A r \in Rtcs :
          state'[r] = IF r = about[t] THEN "exiting" ELSE state[r]
    BY <2>1
  <2>3. \A i \in 1 .. Len(finalized) :
          finalized[i] \in Rtcs /\ finalized[i] # about[t]
    BY <2>1 DEF FinalizedInv
  <2>4. Cleaning => \A i \in 1 .. Len(rest) :
          rest[i] \in Rtcs /\ rest[i] # about[t]
    BY <2>1 DEF FinalizedInv
  <2>. QED
    BY <2>2, <2>3, <2>4 DEF FinalizedInv, Cleaning
<1>7. ServersInv'
  BY DEF ServersInv
<1>. QED
  BY <1>1, <1>2, <1>3, <1>4, <1>5, <1>6, <1>7

LEMMA NotifyFinalizedInv ==
  ASSUME Orderly, NamesInv, NEW t \in Threads, NotifyFinalized(t)
  PROVE  NamesInv'
<1>. USE ManagerAssumption DEF NamesInv, NotifyFinalized, Notify, CallGoes,
             rtcVars, tableVars, serverVars, threadsVars, mainVars, Threads
<1>1. ManagerTypeOK'
  <2>1. about[t] \in Rtcs
    BY AboutType
  <2>2. finalized' \in Seq(Rtcs)
    BY <2>1 DEF ManagerTypeOK
  <2>3. call' \in [Users \cup {Main} ->
                   {"idle", "number", "initialize", "register", "bind",
                    "exit", "leave", "notify"}]
    BY DEF ManagerTypeOK
  <2>4. about' \in [Users \cup {Main} -> Rtcs \cup {NoRtc}]
    BY DEF ManagerTypeOK
  <2>. QED
    BY <2>2, <2>3, <2>4 DEF ManagerTypeOK
<1>. USE DEF ManagerTypeOK, Table
<1>2. CallsInv'
  BY DEF ThreadInv, CallsInv
<1>3. MainInv'
  BY DEF CallsInv, ThreadInv, Closing, Cleaning, MainInv
<1>4. NumbersInv'
  BY DEF Living, NumbersInv
<1>5. TablesInv'
  BY DEF TablesInv
<1>6. FinalizedInv'
  BY DEF Cleaning, CallsInv, ThreadInv, FinalizedInv
<1>7. ServersInv'
  BY DEF ServersInv
<1>. QED
  BY <1>1, <1>2, <1>3, <1>4, <1>5, <1>6, <1>7

LEMMA TerminateInv ==
  ASSUME Orderly, NamesInv, Terminate
  PROVE  NamesInv'
<1>. USE ManagerAssumption DEF NamesInv, Terminate, rtcVars, tableVars,
             serverVars, threadsVars, mainVars, Threads
<1>1. ManagerTypeOK'
  BY DEF ManagerTypeOK
<1>. USE DEF ManagerTypeOK, Table
<1>2. CallsInv'
  BY DEF ThreadInv, CallsInv
<1>3. MainInv'
  BY DEF Closing, Cleaning, MainInv
<1>4. NumbersInv'
  BY DEF Living, NumbersInv
<1>5. TablesInv'
  BY DEF TablesInv
<1>6. FinalizedInv'
  BY DEF Cleaning, FinalizedInv
<1>7. ServersInv'
  BY DEF ServersInv
<1>. QED
  BY <1>1, <1>2, <1>3, <1>4, <1>5, <1>6, <1>7

LEMMA RunTimersInv ==
  ASSUME Orderly, NamesInv, RunTimers
  PROVE  NamesInv'
<1>. USE ManagerAssumption DEF NamesInv, RunTimers, rtcVars, tableVars,
             serverVars, threadsVars, mainVars, Threads
<1>1. ManagerTypeOK'
  BY DEF ManagerTypeOK
<1>. USE DEF ManagerTypeOK, Table
<1>2. CallsInv'
  BY DEF ThreadInv, CallsInv
<1>3. MainInv'
  BY DEF Closing, MainInv
<1>4. NumbersInv'
  BY DEF Living, NumbersInv
<1>5. TablesInv'
  BY DEF TablesInv
<1>6. FinalizedInv'
  BY DEF Cleaning, FinalizedInv
<1>7. ServersInv'
  BY DEF ServersInv
<1>. QED
  BY <1>1, <1>2, <1>3, <1>4, <1>5, <1>6, <1>7

LEMMA AutoShutdownInv ==
  ASSUME Orderly, NamesInv, AutoShutdown
  PROVE  NamesInv'
<1>. USE ManagerAssumption DEF NamesInv, AutoShutdown, rtcVars, tableVars,
             serverVars, threadsVars, mainVars, Threads
<1>1. ManagerTypeOK'
  BY DEF ManagerTypeOK
<1>. USE DEF ManagerTypeOK, Table
<1>2. CallsInv'
  BY DEF ThreadInv, CallsInv
<1>3. MainInv'
  BY DEF Closing, MainInv
<1>4. NumbersInv'
  BY DEF Living, NumbersInv
<1>5. TablesInv'
  BY DEF TablesInv
<1>6. FinalizedInv'
  BY DEF Cleaning, FinalizedInv
<1>7. ServersInv'
  BY DEF ServersInv
<1>. QED
  BY <1>1, <1>2, <1>3, <1>4, <1>5, <1>6, <1>7

LEMMA CleanupComponentsInv ==
  ASSUME Orderly, NamesInv, CleanupComponents
  PROVE  NamesInv'
<1>. USE ManagerAssumption DEF NamesInv, CleanupComponents, rtcVars,
             tableVars, serverVars, threadsVars, mainVars, Threads
<1>1. ManagerTypeOK'
  BY DEF ManagerTypeOK
<1>. USE DEF ManagerTypeOK, Table
<1>2. CallsInv'
  BY DEF ThreadInv, CallsInv
<1>3. MainInv'
  BY DEF CallsInv, ThreadInv, Closing, MainInv
<1>4. NumbersInv'
  BY DEF Living, NumbersInv
<1>5. TablesInv'
  BY DEF TablesInv
<1>6. FinalizedInv'
  BY DEF Cleaning, FinalizedInv
<1>7. ServersInv'
  BY DEF ServersInv
<1>. QED
  BY <1>1, <1>2, <1>3, <1>4, <1>5, <1>6, <1>7

LEMMA UnregisterInv ==
  ASSUME Orderly, NamesInv, Unregister
  PROVE  NamesInv'
<1>. USE ManagerAssumption DEF NamesInv, Unregister, rtcVars, tableVars,
             serverVars, threadsVars, mainVars, Threads
<1>1. ManagerTypeOK'
  BY ZenonT(40) DEF ManagerTypeOK, Table
<1>. USE DEF ManagerTypeOK, Table
<1>2. CallsInv'
  <2>1. name[Head(rest)] \in Numbers /\ state[Head(rest)] = "exiting"
          /\ numbers[name[Head(rest)]] = Head(rest)
    BY FirstOfRest DEF Cleaning
  <2>2. ASSUME NEW t \in Threads, call[t] = "bind"
        PROVE  compManager'[name[about[t]]] = about[t]
    <3>1. about[t] \in Rtcs /\ name[about[t]] \in Numbers
      BY <2>2, AboutType
    <3>2. numbers[name[about[t]]] = about[t] /\ about[t] # Head(rest)
      BY <2>1, <2>2, <3>1 DEF CallsInv, ThreadInv, NumbersInv, Living
    <3>. QED
      BY <2>1, <2>2, <3>1, <3>2 DEF CallsInv, ThreadInv
  <2>. QED
    BY <2>2 DEF CallsInv, ThreadInv
<1>3. MainInv'
  BY DEF Closing, Cleaning, MainInv
<1>4. NumbersInv'
  BY DEF Living, NumbersInv
<1>5. TablesInv'
  <2>1. name[Head(rest)] \in Numbers /\ state[Head(rest)] = "exiting"
          /\ numbers[name[Head(rest)]] = Head(rest)
    BY FirstOfRest DEF Cleaning
  <2>2. ASSUME NEW r \in ready, state[r] = "alive"
        PROVE  compManager'[name[r]] = r
    <3>1. r \in Rtcs /\ numbers[name[r]] = r /\ r # Head(rest)
      BY <2>1, <2>2 DEF NumbersInv, Living
    <3>. QED
      BY <2>1, <2>2, <3>1 DEF TablesInv
  <2>. QED
    BY <2>1, <2>2 DEF TablesInv
<1>6. FinalizedInv'
  BY DEF Cleaning, FinalizedInv
<1>7. ServersInv'
  BY DEF ServersInv
<1>. QED
  BY <1>1, <1>2, <1>3, <1>4, <1>5, <1>6, <1>7

LEMMA UnbindInv ==
  ASSUME Orderly, NamesInv, Unbind
  PROVE  NamesInv'
<1>. USE ManagerAssumption DEF NamesInv, Unbind, UnbindObject, rtcVars,
             tableVars, serverVars, threadsVars, mainVars, Threads
<1>1. ManagerTypeOK'
  BY DEF ManagerTypeOK, Table
<1>. USE DEF ManagerTypeOK, Table
<1>2. CallsInv'
  BY DEF ThreadInv, CallsInv
<1>3. MainInv'
  BY DEF Closing, Cleaning, MainInv
<1>4. NumbersInv'
  BY DEF Living, NumbersInv
<1>5. TablesInv'
  BY <1>1, SMTT(40) DEF FinalizedInv, Cleaning, TablesInv
<1>6. FinalizedInv'
  BY DEF Cleaning, FinalizedInv
<1>7. ServersInv'
  <2>1. name[Head(rest)] \in Numbers /\ Head(rest) \in Rtcs
          /\ compNames[name[Head(rest)]] = Head(rest)
    BY FirstOfRest DEF Cleaning, TablesInv
  <2>2. ASSUME NEW s \in Servers \ crashed
        PROVE  s \in up /\ s \in linked' /\ bound'[s] = compNames'
    <3>1. s \in up /\ s \in linked /\ bound[s] = compNames
      BY <2>2 DEF ServersInv
    <3>2. s \in linked'
      BY <2>1, <3>1
    <3>3. bound'[s] = [n \in Numbers |-> IF n \in {name[Head(rest)]}
                                           THEN NoRtc ELSE compNames[n]]
      BY <3>1
    <3>. QED
      BY <3>1, <3>2, <3>3
  <2>. QED
    BY <2>2 DEF ServersInv
<1>. QED
  BY <1>1, <1>2, <1>3, <1>4, <1>5, <1>6, <1>7

LEMMA DestroyFirstInv ==
  ASSUME Orderly, NamesInv, DestroyFirst
  PROVE  NamesInv'
<1>. USE ManagerAssumption DEF NamesInv, DestroyFirst, DestroyRtc, rtcVars,
             tableVars, serverVars, threadsVars, mainVars, Threads
<1>1. ManagerTypeOK'
  <2>1. Head(rest) \in Rtcs /\ rest # <<>>
    BY FirstOfRest DEF Cleaning
  <2>2. state' \in [Rtcs -> {"none", "created", "alive", "exiting", "deleted"}]
          /\ numbers' \in Table
    BY <2>1 DEF ManagerTypeOK, Table
  <2>3. rest' \in Seq(Rtcs)
    BY <2>1 DEF ManagerTypeOK
  <2>4. finalized' \in Seq(Rtcs)
    <3>1. finalized' = finalized \/ finalized' = <<>>
      OBVIOUS
    <3>2. finalized \in Seq(Rtcs) /\ <<>> \in Seq(Rtcs)
      BY DEF ManagerTypeOK
    <3>. HIDE DEF DestroyFirst
    <3>. QED
      BY <3>1, <3>2
  <2>5. isRunning' \in BOOLEAN
    BY DEF ManagerTypeOK
  <2>. QED
    BY <2>2, <2>3, <2>4, <2>5 DEF ManagerTypeOK
<1>. USE DEF ManagerTypeOK, Table
<1>2. CallsInv'
  <2>1. Head(rest) \in Rtcs /\ state[Head(rest)] = "exiting"
          /\ name[Head(rest)] \in Numbers
          /\ numbers[name[Head(rest)]] = Head(rest)
    BY FirstOfRest DEF Cleaning
  <2>2. state' = [state EXCEPT ![Head(rest)] = "deleted"]
          /\ numbers' = [n \in Numbers |-> IF numbers[n] = Head(rest)
                                               THEN NoRtc ELSE numbers[n]]
    BY <2>1
  <2>3. ASSUME NEW t \in Threads
        PROVE  ThreadInv(t)'
    <3>1. call[t] \in {"number", "initialize", "register", "bind", "leave"} =>
            about[t] # Head(rest)
      BY <2>1 DEF CallsInv, ThreadInv
    <3>2. call[t] = "notify" => about[t] # Head(rest)
      BY FirstOfRest DEF CallsInv, ThreadInv, Cleaning
    <3>3. finalized' \in {finalized, <<>>}
      OBVIOUS
    <3>4. call[t] # "idle" => about[t] \in Rtcs /\ name[about[t]] \in Numbers
      BY AboutType
    <3>. QED
      BY <2>1, <2>2, <3>1, <3>2, <3>3, <3>4 DEF CallsInv, ThreadInv
  <2>. QED
    BY <2>3 DEF CallsInv
<1>3. MainInv'
  BY DEF Closing, Cleaning, MainInv
<1>4. NumbersInv'
  <2>1. Head(rest) \in Rtcs /\ state[Head(rest)] = "exiting"
          /\ name[Head(rest)] \in Numbers
          /\ numbers[name[Head(rest)]] = Head(rest)
    BY FirstOfRest DEF Cleaning
  <2>2. state' = [state EXCEPT ![Head(rest)] = "deleted"]
          /\ numbers' = [n \in Numbers |-> IF numbers[n] = Head(rest)
                                               THEN NoRtc ELSE numbers[n]]
    BY <2>1
  <2>3. \A r \in Rtcs :
          state'[r] = IF r = Head(rest) THEN "deleted" ELSE state[r]
    BY <2>1, <2>2
  <2>4. \A n \in Numbers : numbers'[n] # NoRtc =>
          numbers'[n] = numbers[n] /\ numbers[n] # Head(rest)
    BY <2>2
  <2>. QED
    BY <2>1, <2>2, <2>3, <2>4 DEF NumbersInv, Living
<1>5. TablesInv'
  BY SMTT(40) DEF NumbersInv, Living, TablesInv
<1>6. FinalizedInv'
  <2>1. Head(rest) \in Rtcs /\ state[Head(rest)] = "exiting"
          /\ name[Head(rest)] \in Numbers
          /\ numbers[name[Head(rest)]] = Head(rest)
    BY FirstOfRest DEF Cleaning
  <2>2. state' = [state EXCEPT ![Head(rest)] = "deleted"]
          /\ numbers' = [n \in Numbers |-> IF numbers[n] = Head(rest)
                                               THEN NoRtc ELSE numbers[n]]
    BY <2>1
  <2>3. \A r \in Rtcs :
          state'[r] = IF r = Head(rest) THEN "deleted" ELSE state[r]
    BY <2>1, <2>2
  <2>4. CASE rest' = <<>>
    BY <2>4 DEF FinalizedInv, Cleaning
  <2>5. CASE rest' # <<>>
    <3>1. rest \in Seq(Rtcs) /\ rest # <<>> /\ Head(rest) = rest[1]
      BY FirstOfRest DEF Cleaning
    <3>2. Len(rest') = Len(rest) - 1
            /\ \A i \in 1 .. Len(rest') : rest'[i] = rest[i + 1]
      BY <3>1
    <3>3. \A i \in 1 .. Len(rest') : i + 1 \in 1 .. Len(rest) /\ i + 1 # 1
      BY <3>1, <3>2
    <3>4. finalized' = finalized /\ mainPc' = "unregister"
      BY <2>5
    <3>5. \A i, j \in 1 .. Len(rest') : rest'[i] = rest'[j] => i = j
      BY <3>2, <3>3 DEF FinalizedInv, Cleaning
    <3>6. ASSUME NEW i \in 1 .. Len(rest')
          PROVE  /\ state'[rest'[i]] = "exiting"
                 /\ \E j \in 1 .. Len(finalized') : finalized'[j] = rest'[i]
      <4>1. i + 1 \in 1 .. Len(rest) /\ 1 \in 1 .. Len(rest) /\ i + 1 # 1
        BY <3>1, <3>3
      <4>2. rest[i + 1] # rest[1]
        BY <4>1 DEF FinalizedInv, Cleaning
      <4>3. rest[i + 1] \in Rtcs
        BY <3>1, <4>1
      <4>. QED
        BY <2>3, <3>1, <3>2, <3>4, <4>1, <4>2, <4>3, SMTT(40) DEF FinalizedInv, Cleaning
    <3>7. ASSUME NEW i \in 1 .. Len(finalized')
          PROVE  /\ finalized'[i] \in ready
                 /\ state'[finalized'[i]] \in {"exiting", "deleted"}
      BY <2>3, <3>4 DEF FinalizedInv
    <3>. QED
      BY <2>5, <3>4, <3>5, <3>6, <3>7 DEF FinalizedInv, Cleaning
  <2>. QED
    BY <2>4, <2>5
<1>7. ServersInv'
  BY DEF ServersInv
<1>. QED
  BY <1>1, <1>2, <1>3, <1>4, <1>5, <1>6, <1>7

LEMMA UpdateServersInv ==
  ASSUME Orderly, NamesInv, UpdateServers
  PROVE  NamesInv'
<1>. USE ManagerAssumption DEF NamesInv, UpdateServers, rtcVars, tableVars,
             serverVars, threadsVars, mainVars, Threads
<1>1. ManagerTypeOK'
  BY DEF ManagerTypeOK, Table
<1>. USE DEF ManagerTypeOK, Table
<1>2. CallsInv'
  BY DEF ThreadInv, CallsInv
<1>3. MainInv'
  BY DEF Closing, MainInv
<1>4. NumbersInv'
  BY DEF Living, NumbersInv
<1>5. TablesInv'
  BY DEF TablesInv
<1>6. FinalizedInv'
  BY DEF Cleaning, FinalizedInv
<1>7. ServersInv'
  BY DEF ServersInv
<1>. QED
  BY <1>1, <1>2, <1>3, <1>4, <1>5, <1>6, <1>7

LEMMA LeaveLoopInv ==
  ASSUME Orderly, NamesInv, LeaveLoop
  PROVE  NamesInv'
<1>. USE ManagerAssumption DEF NamesInv, LeaveLoop, rtcVars, tableVars,
             serverVars, threadsVars, mainVars, Threads
<1>1. ManagerTypeOK'
  BY DEF ManagerTypeOK
<1>. USE DEF ManagerTypeOK, Table
<1>2. CallsInv'
  BY DEF ThreadInv, CallsInv
<1>3. MainInv'
  BY DEF Closing, Cleaning, MainInv
<1>4. NumbersInv'
  BY DEF Living, NumbersInv
<1>5. TablesInv'
  BY DEF TablesInv
<1>6. FinalizedInv'
  BY DEF Cleaning, FinalizedInv
<1>7. ServersInv'
  BY DEF ServersInv
<1>. QED
  BY <1>1, <1>2, <1>3, <1>4, <1>5, <1>6, <1>7

LEMMA ShutdownComponentsInv ==
  ASSUME Orderly, NamesInv, ShutdownComponents
  PROVE  NamesInv'
<1>. USE ManagerAssumption DEF NamesInv, ShutdownComponents, rtcVars,
             tableVars, serverVars, threadsVars, mainVars, Threads
<1>1. ManagerTypeOK'
  <2>1. leaving' \subseteq Rtcs
    BY DEF ManagerTypeOK, Table
  <2>. QED
    BY <2>1 DEF ManagerTypeOK
<1>. USE DEF ManagerTypeOK, Table
<1>2. CallsInv'
  BY DEF ThreadInv, CallsInv
<1>3. MainInv'
  BY DEF TablesInv, MainInv
<1>4. NumbersInv'
  BY DEF Living, NumbersInv
<1>5. TablesInv'
  BY DEF TablesInv
<1>6. FinalizedInv'
  BY DEF Cleaning, FinalizedInv
<1>7. ServersInv'
  BY DEF ServersInv
<1>. QED
  BY <1>1, <1>2, <1>3, <1>4, <1>5, <1>6, <1>7

LEMMA ExitNextInv ==
  ASSUME Orderly, NamesInv, NEW r \in Rtcs, ExitNext(r)
  PROVE  NamesInv'
<1>. USE ManagerAssumption DEF NamesInv, ExitNext, CallGoes, rtcVars,
             tableVars, serverVars, threadsVars, mainVars, Threads
<1>1. ManagerTypeOK'
  BY DEF ManagerTypeOK
<1>. USE DEF ManagerTypeOK, Table
<1>2. CallsInv'
  BY DEF ThreadInv, MainInv, Closing, CallsInv
<1>3. MainInv'
  BY DEF CallsInv, ThreadInv, Closing, MainInv
<1>4. NumbersInv'
  BY DEF Living, NumbersInv
<1>5. TablesInv'
  BY DEF TablesInv
<1>6. FinalizedInv'
  BY DEF Cleaning, FinalizedInv
<1>7. ServersInv'
  BY DEF ServersInv
<1>. QED
  BY <1>1, <1>2, <1>3, <1>4, <1>5, <1>6, <1>7

LEMMA ShutdownNamingInv ==
  ASSUME Orderly, NamesInv, ShutdownNaming
  PROVE  NamesInv'
<1>. USE ManagerAssumption DEF NamesInv, ShutdownNaming, UnbindObject,
             rtcVars, tableVars, serverVars, threadsVars, mainVars, Threads
<1>1. ManagerTypeOK'
  BY DEF ManagerTypeOK, Table
<1>. USE DEF ManagerTypeOK, Table
<1>2. CallsInv'
  BY DEF ThreadInv, CallsInv
<1>3. MainInv'
  BY DEF Closing, MainInv
<1>4. NumbersInv'
  BY DEF Living, NumbersInv
<1>5. TablesInv'
  BY DEF TablesInv
<1>6. FinalizedInv'
  BY DEF Cleaning, FinalizedInv
<1>7. ServersInv'
  <2>. DEFINE names ==
          {n \in Numbers : {compManager[n], compNames[n]} # {NoRtc}}
  <2>1. ASSUME NEW s \in Servers \ crashed
        PROVE  s \in up /\ bound'[s] = compNames'
    <3>1. s \in up /\ s \in linked /\ bound[s] = compNames
      BY <2>1 DEF ServersInv
    <3>2. bound'[s] =
            [n \in Numbers |-> IF n \in names THEN NoRtc ELSE compNames[n]]
      BY <3>1
    <3>. QED
      BY <3>1, <3>2
  <2>. QED
    BY <2>1 DEF ServersInv
<1>. QED
  BY <1>1, <1>2, <1>3, <1>4, <1>5, <1>6, <1>7

LEMMA CrashInv ==
  ASSUME Orderly, NamesInv, NEW s \in Servers, Crash(s)
  PROVE  NamesInv'
<1>. USE ManagerAssumption DEF NamesInv, Crash, rtcVars, tableVars,
             serverVars, threadsVars, mainVars, Threads
<1>1. ManagerTypeOK'
  BY DEF ManagerTypeOK
<1>. USE DEF ManagerTypeOK, Table
<1>2. CallsInv'
  BY DEF ThreadInv, CallsInv
<1>3. MainInv'
  BY DEF Closing, Cleaning, MainInv
<1>4. NumbersInv'
  BY DEF Living, NumbersInv
<1>5. TablesInv'
  BY DEF TablesInv
<1>6. FinalizedInv'
  BY DEF Cleaning, FinalizedInv
<1>7. ServersInv'
  BY DEF ServersInv
<1>. QED
  BY <1>1, <1>2, <1>3, <1>4, <1>5, <1>6, <1>7

LEMMA RestartInv ==
  ASSUME Orderly, NamesInv, NEW s \in Servers, Restart(s)
  PROVE  NamesInv'
<1>. USE ManagerAssumption DEF NamesInv, Restart, rtcVars, tableVars,
             serverVars, threadsVars, mainVars, Threads
<1>1. ManagerTypeOK'
  <2>1. PICK names \in {bound[s], NoNames} :
               bound' = [bound EXCEPT ![s] = names]
    OBVIOUS
  <2>2. names \in Table
    BY DEF ManagerTypeOK, Table, NoNames
  <2>3. bound' \in [Servers -> Table]
    BY <2>1, <2>2 DEF ManagerTypeOK
  <2>. QED
    BY <2>3 DEF ManagerTypeOK
<1>. USE DEF ManagerTypeOK, Table
<1>2. CallsInv'
  BY DEF ThreadInv, CallsInv
<1>3. MainInv'
  BY DEF Closing, Cleaning, MainInv
<1>4. NumbersInv'
  BY DEF Living, NumbersInv
<1>5. TablesInv'
  BY DEF TablesInv
<1>6. FinalizedInv'
  BY DEF Cleaning, FinalizedInv
<1>7. ServersInv'
  BY DEF ServersInv
<1>. QED
  BY <1>1, <1>2, <1>3, <1>4, <1>5, <1>6, <1>7

-----------------------------------------------------------------------------
(* The specification.                                                      *)

LEMMA NamesInit ==
  ASSUME ManagerInit
  PROVE  NamesInv
<1>. USE ManagerAssumption DEF ManagerInit
<1>1. ManagerTypeOK
  <2>1. 0 \in Numbers /\ NoNames \in Table
    BY DEF Numbers, NoNames, Table
  <2>2. /\ {isRunning, rebind, shutdown} \subseteq BOOLEAN
        /\ state \in
             [Rtcs -> {"none", "created", "alive", "exiting", "deleted"}]
        /\ name \in [Rtcs -> Numbers]
        /\ bound \in [Servers -> Table]
    BY <2>1
  <2>3. /\ call \in [Users \cup {Main} ->
                       {"idle", "number", "initialize", "register", "bind",
                        "exit", "leave", "notify"}]
        /\ about \in [Users \cup {Main} -> Rtcs \cup {NoRtc}]
    OBVIOUS
  <2>4. rest \in Seq(Rtcs) /\ finalized \in Seq(Rtcs)
    OBVIOUS
  <2>. QED
    BY <2>1, <2>2, <2>3, <2>4 DEF ManagerTypeOK
<1>2. CallsInv /\ MainInv /\ FinalizedInv
  BY DEF CallsInv, ThreadInv, Threads, MainInv, Closing, Cleaning,
         FinalizedInv
<1>3. NumbersInv /\ TablesInv /\ ServersInv
  BY DEF NumbersInv, Living, TablesInv, ServersInv, NoNames
<1>. QED
  BY <1>1, <1>2, <1>3 DEF NamesInv

LEMMA NamesStutter ==
  ASSUME NamesInv, UNCHANGED managerVars
  PROVE  NamesInv'
<1>. USE DEF NamesInv, managerVars, rtcVars, tableVars, serverVars,
             threadsVars, mainVars
<1>1. ManagerTypeOK' /\ NumbersInv' /\ ServersInv'
  BY DEF ManagerTypeOK, NumbersInv, Living, ServersInv
<1>2. CallsInv' /\ MainInv'
  BY DEF CallsInv, ThreadInv, MainInv, Closing, Cleaning
<1>3. TablesInv' /\ FinalizedInv'
  BY DEF TablesInv, FinalizedInv, Cleaning
<1>. QED
  BY <1>1, <1>2, <1>3

LEMMA NamesStep ==
  ASSUME Orderly, NamesInv, ManagerNext
  PROVE  NamesInv'
<1>1. ASSUME NEW c \in Users, UserStep(c)
      PROVE  NamesInv'
  <2>1. c \in Threads
    BY DEF Threads
  <2>. QED
    BY <1>1, <2>1, TakeNumberInv, InitializeInv, RegisterInv, BindInv,
       ExitInv, LeaveContextsInv, NotifyFinalizedInv DEF UserStep
<1>2. ASSUME NEW c \in Users, NEW r \in Rtcs, Create(c, r)
      PROVE  NamesInv'
  BY <1>2, CreateInv
<1>3. ASSUME NEW c \in Users, NEW n \in Numbers, DeleteComponent(c, n)
      PROVE  NamesInv'
  BY <1>3, DeleteComponentInv
<1>4. ASSUME MainStep
      PROVE  NamesInv'
  <2>1. Main \in Threads
    BY DEF Threads
  <2>. QED
    BY <1>4, <2>1, RunTimersInv, AutoShutdownInv, CleanupComponentsInv,
       UnregisterInv, UnbindInv, DestroyFirstInv, UpdateServersInv,
       LeaveLoopInv, ShutdownComponentsInv, ExitNextInv, ShutdownNamingInv,
       ExitInv, LeaveContextsInv, NotifyFinalizedInv DEF MainStep
<1>5. ASSUME NEW s \in Servers, Crash(s) \/ Restart(s)
      PROVE  NamesInv'
  BY <1>5, CrashInv, RestartInv
<1>. QED
  BY <1>1, <1>2, <1>3, <1>4, <1>5, TerminateInv DEF ManagerNext

(***************************************************************************)
(* The inductive invariant, at every moment.                               *)
(***************************************************************************)
THEOREM NamesInvariant ==
  ASSUME Orderly
  PROVE  ManagerSpec => []NamesInv
<1>1. ManagerInit => NamesInv
  BY NamesInit
<1>2. NamesInv /\ [ManagerNext]_managerVars => NamesInv'
  BY NamesStep, NamesStutter
<1>. QED
  BY <1>1, <1>2, PTL DEF ManagerSpec

(***************************************************************************)
(* Whatever the clients, the main thread and the name servers do, in any   *)
(* order: a component whose creation has returned is found by its name     *)
(* until it exits, no table and no server that has always been there leads *)
(* to one that has been deleted, and none is finalized twice               *)
(* (Manager.cpp:975, 989, NamingManager.cpp:698).                          *)
(***************************************************************************)
THEOREM NamesAreKnown ==
  ASSUME Orderly
  PROVE  ManagerSpec => []KnownByName
<1>1. NamesInv => KnownByName
  <2>. SUFFICES ASSUME NamesInv
                PROVE  KnownByName
    OBVIOUS
  <2>. USE DEF NamesInv
  <2>1. ASSUME NEW r \in ready, state[r] = "alive"
        PROVE  compManager[name[r]] = r /\ HasName(r)
    <3>1. mainPc = "destroy" => state[Head(rest)] = "exiting"
      BY FirstOfRest DEF Cleaning
    <3>2. mainPc # "ended"
      BY <2>1 DEF MainInv, Closing
    <3>. QED
      BY <2>1, <3>1, <3>2 DEF TablesInv, HasName
  <2>2. ASSUME NEW n \in Numbers,
               NEW table \in {compManager, compNames} \cup
                               {bound[s] : s \in up \ crashed},
               table[n] # NoRtc
        PROVE  state[table[n]] # "deleted"
    <3>1. table \in {compManager, compNames}
      BY DEF ServersInv, ManagerTypeOK
    <3>2. numbers[n] = table[n]
      BY <2>2, <3>1 DEF TablesInv
    <3>. QED
      BY <2>2, <3>2 DEF NumbersInv, Living
  <2>3. IsInjective(finalized)
    BY DEF FinalizedInv, ManagerTypeOK, IsInjective
  <2>. QED
    BY <2>1, <2>2, <2>3 DEF KnownByName
<1>. QED
  BY <1>1, NamesInvariant, PTL

-----------------------------------------------------------------------------
(***************************************************************************)
(* No variable of either leaves its type; for the worker, whatever its     *)
(* clients call: the position of its thread stays within the members that  *)
(* there can be.                                                           *)
(***************************************************************************)
THEOREM ServicesTypes ==
  ASSUME Orderly
  PROVE  ServicesSpec => []ServicesTypeOK
<1>. DEFINE Inv == TypeInv /\ NamesInv
<1>1. ServicesInit => Inv
  BY ObjectsInit, NamesInit DEF ServicesInit
<1>2. Inv /\ [ServicesNext]_servicesVars => Inv'
  <2>. SUFFICES ASSUME Inv, [ServicesNext]_servicesVars PROVE Inv'
    OBVIOUS
  <2>1. CASE Membership(Next)
    BY <2>1, TypeInvNext, NamesStutter DEF Membership
  <2>2. CASE Managing(ManagerNext)
    BY <2>2, ObjectsStutter, NamesStep DEF Managing
  <2>3. CASE UNCHANGED servicesVars
    BY <2>3, ObjectsStutter, NamesStutter DEF servicesVars
  <2>. QED
    BY <2>1, <2>2, <2>3 DEF ServicesNext
<1>3. Inv => ServicesTypeOK
  BY DEF TypeInv, NamesInv, ServicesTypeOK
<1>. QED
  BY <1>1, <1>2, <1>3, PTL DEF ServicesSpec
=============================================================================
