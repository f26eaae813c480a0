-------------------------- MODULE RingPointersProofs --------------------------
(***************************************************************************)
(* What the critical sections of a ring buffer do to its positions and to  *)
(* the values stored, for every length of the buffer.                      *)
(***************************************************************************)
EXTENDS RingPointers, SequencesExt, SequenceTheorems, TLAPS

-----------------------------------------------------------------------------
(* Arithmetic of positions *)

(***************************************************************************)
(* The remainder of what is less than three times the length.              *)
(***************************************************************************)
LEMMA Wrap ==
  ASSUME NEW x \in 0 .. (3 * Length - 1)
  PROVE  /\ x < Length => x % Length = x
         /\ x >= Length /\ x < 2 * Length => x % Length = x - Length
         /\ x >= 2 * Length => x % Length = x - 2 * Length
<1>. USE LengthAssumption
<1>1. ASSUME NEW q \in {0, 1, 2}, NEW r \in 0 .. (Length - 1), x = q * Length + r
      PROVE  x % Length = r
  BY <1>1
<1>2. x < Length => x % Length = x
  BY <1>1
<1>3. x >= Length /\ x < 2 * Length => x % Length = x - Length
  <2>. SUFFICES ASSUME x >= Length, x < 2 * Length
                PROVE  x % Length = x - Length
    OBVIOUS
  <2>. QED BY <1>1
<1>4. x >= 2 * Length => x % Length = x - 2 * Length
  <2>. SUFFICES ASSUME x >= 2 * Length
                PROVE  x % Length = x - 2 * Length
    OBVIOUS
  <2>. QED BY <1>1
<1>. QED BY <1>2, <1>3, <1>4

(***************************************************************************)
(* advanceWptr keeps a buffer a buffer and its positions and count in      *)
(* agreement, whether the advance is refused or not.                       *)
(***************************************************************************)
LEMMA WptrAdvancedOK ==
  ASSUME NEW V, NEW b \in Buffers(V), Consistent(b), NEW n \in Nat
  PROVE  /\ WptrAdvanced(b, n) \in Buffers(V)
         /\ Consistent(WptrAdvanced(b, n))
<1>. USE LengthAssumption
<1>1. CASE ~ MayAdvanceWptr(b, n)
  BY <1>1 DEF WptrAdvanced
<1>2. CASE MayAdvanceWptr(b, n)
  <2>. DEFINE c == WptrAdvanced(b, n)
  <2>1. c = [b EXCEPT !.wpos = Ahead(b.wpos, n), !.fill = b.fill + n,
                      !.wcount = b.wcount + n]
    BY <1>2 DEF WptrAdvanced
  <2>2. /\ c.data = b.data /\ c.rpos = b.rpos /\ c.wpos = Ahead(b.wpos, n)
        /\ c.fill = b.fill + n /\ c.wcount = b.wcount + n
    BY <2>1 DEF Buffers
  <2>3. /\ b.wpos \in 0 .. (Length - 1) /\ b.rpos \in 0 .. (Length - 1)
        /\ b.fill \in 0 .. Length /\ n <= Length - b.fill /\ b.wcount \in Nat
    BY <1>2 DEF Buffers, Slots, MayAdvanceWptr
  <2>4. \/ b.wpos = b.rpos + b.fill
        \/ b.wpos = b.rpos + b.fill - Length
    BY <2>3, Wrap, SMTT(60) DEF Consistent
  <2>5. Ahead(b.wpos, n) \in Slots
    BY <2>3, Wrap DEF Ahead, Slots
  <2>6. Ahead(b.wpos, n) = (b.rpos + (b.fill + n)) % Length
    <3>. DEFINE x == b.wpos + n + Length
                y == b.rpos + (b.fill + n)
    <3>1. x \in 0 .. (3 * Length - 1) /\ y \in 0 .. (3 * Length - 1)
      BY <2>3
    <3>2. x = y \/ x = y + Length
      BY <2>3, <2>4
    <3>3. x % Length = y % Length
      <4>. HIDE DEF x, y
      <4>. QED BY <3>1, <3>2, Wrap
    <3>. QED BY <3>3 DEF Ahead
  <2>7. b.fill + n \in 0 .. Length /\ b.wcount + n \in Nat
    BY <2>3
  <2>8. c \in Buffers(V)
    BY <2>1, <2>5, <2>7 DEF Buffers
  <2>9. Consistent(c)
    BY <2>2, <2>6, <2>7 DEF Consistent
  <2>. QED BY <2>8, <2>9
<1>. QED BY <1>1, <1>2

(***************************************************************************)
(* So does advanceRptr, forwards or backwards.                             *)
(***************************************************************************)
LEMMA RptrAdvancedOK ==
  ASSUME NEW V, NEW b \in Buffers(V), Consistent(b), NEW n \in Int
  PROVE  /\ RptrAdvanced(b, n) \in Buffers(V)
         /\ Consistent(RptrAdvanced(b, n))
<1>. USE LengthAssumption
<1>1. CASE ~ MayAdvanceRptr(b, n)
  BY <1>1 DEF RptrAdvanced
<1>2. CASE MayAdvanceRptr(b, n)
  <2>. DEFINE c == RptrAdvanced(b, n)
  <2>1. c = [b EXCEPT !.rpos = Ahead(b.rpos, n), !.fill = b.fill - n]
    BY <1>2 DEF RptrAdvanced
  <2>2. /\ c.data = b.data /\ c.wpos = b.wpos /\ c.rpos = Ahead(b.rpos, n)
        /\ c.fill = b.fill - n /\ c.wcount = b.wcount
    BY <2>1 DEF Buffers
  <2>3. /\ b.wpos \in 0 .. (Length - 1) /\ b.rpos \in 0 .. (Length - 1)
        /\ b.fill \in 0 .. Length /\ n <= b.fill /\ n >= b.fill - Length
    BY <1>2 DEF Buffers, Slots, MayAdvanceRptr
  <2>4. \/ b.wpos = b.rpos + b.fill
        \/ b.wpos = b.rpos + b.fill - Length
    BY <2>3, Wrap DEF Consistent
  <2>5. /\ Ahead(b.rpos, n) \in 0 .. (Length - 1)
        /\ \/ Ahead(b.rpos, n) = b.rpos + n
           \/ Ahead(b.rpos, n) = b.rpos + n - Length
           \/ Ahead(b.rpos, n) = b.rpos + n + Length
    <3>. DEFINE x == b.rpos + n + Length
    <3>1. x \in 0 .. (3 * Length - 1)
      BY <2>3
    <3>2. /\ x % Length \in 0 .. (Length - 1)
          /\ x % Length \in {x, x - Length, x - 2 * Length}
      <4>. HIDE DEF x
      <4>. QED BY <3>1, Wrap
    <3>. QED BY <2>3, <3>2 DEF Ahead
  <2>6. b.fill - n \in 0 .. Length
    BY <2>3
  <2>7. b.wpos = (Ahead(b.rpos, n) + (b.fill - n)) % Length
    BY <2>3, <2>4, <2>5, <2>6, Wrap, SMTT(40)
  <2>8. c \in Buffers(V)
    BY <2>1, <2>5, <2>6 DEF Buffers, Slots
  <2>9. Consistent(c)
    BY <2>2, <2>6, <2>7 DEF Consistent
  <2>. QED BY <2>8, <2>9
<1>. QED BY <1>1, <1>2

(***************************************************************************)
(* put changes no position; get returns the contents of a slot.            *)
(***************************************************************************)
LEMMA FilledOK ==
  ASSUME NEW V, NEW b \in Buffers(V), Consistent(b), NEW v \in V
  PROVE  /\ Filled(b, v) \in Buffers(V)
         /\ Consistent(Filled(b, v))
         /\ Oldest(b) \in V
  BY DEF Buffers, Filled, Consistent, Oldest

(***************************************************************************)
(* A buffer just made is one, with agreeing positions.                     *)
(***************************************************************************)
LEMMA FreshOK ==
  ASSUME NEW V, NEW v \in V
  PROVE  Fresh(v) \in Buffers(V) /\ Consistent(Fresh(v))
<1>1. 0 % Length = 0
  BY LengthAssumption, Wrap
<1>. QED BY <1>1, LengthAssumption DEF Fresh, Buffers, Slots, Consistent

(***************************************************************************)
(* The slot read next is not the one written next unless the buffer is     *)
(* empty or full.                                                          *)
(***************************************************************************)
LEMMA Apart ==
  ASSUME NEW V, NEW b \in Buffers(V), Consistent(b),
         b.fill > 0, b.fill < Length
  PROVE  b.rpos # b.wpos
<1>1. /\ b.rpos \in 0 .. Length - 1 /\ b.fill \in 1 .. Length - 1
      /\ b.rpos + b.fill \in 0 .. (3 * Length - 1)
      /\ b.rpos + b.fill < 2 * Length
  BY LengthAssumption DEF Buffers, Slots
<1>2. b.wpos = b.rpos + b.fill \/ b.wpos = b.rpos + b.fill - Length
  BY <1>1, Wrap, LengthAssumption DEF Consistent
<1>. QED BY <1>1, <1>2, LengthAssumption

-----------------------------------------------------------------------------
(* Slots counted backwards from the write position *)

(***************************************************************************)
(* The slot of the value written j values before the last one.             *)
(***************************************************************************)
Behind(pos, j) == (pos + Length - 1 - j) % Length

(***************************************************************************)
(* It is a slot, and not the next one to be written unless it is the       *)
(* oldest of all.                                                          *)
(***************************************************************************)
LEMMA BehindSlot ==
  ASSUME NEW pos \in Slots, NEW j \in 0 .. Length - 1
  PROVE  /\ Behind(pos, j) \in Slots
         /\ j < Length - 1 => Behind(pos, j) # pos
<1>. USE LengthAssumption
<1>. DEFINE x == pos + Length - 1 - j
<1>1. x \in 0 .. (3 * Length - 1) /\ x < 2 * Length /\ x - Length = pos - 1 - j
  BY DEF Slots
<1>2. x % Length = x \/ x % Length = x - Length
  <2>. HIDE DEF x
  <2>. QED BY <1>1, Wrap
<1>3. x % Length \in 0 .. Length - 1
  <2>. HIDE DEF x
  <2>. QED BY <1>1, Wrap
<1>. QED BY <1>1, <1>2, <1>3 DEF Behind, Slots

(***************************************************************************)
(* When the write position advances every value is one further behind.     *)
(***************************************************************************)
LEMMA BehindAdvanced ==
  ASSUME NEW pos \in Slots
  PROVE  /\ Behind(Ahead(pos, 1), 0) = pos
         /\ \A j \in 1 .. Length - 1 :
              Behind(Ahead(pos, 1), j) = Behind(pos, j - 1)
<1>. USE LengthAssumption
<1>1. pos \in 0 .. Length - 1
  BY DEF Slots
<1>2. \/ pos < Length - 1 /\ Ahead(pos, 1) = pos + 1
      \/ pos = Length - 1 /\ Ahead(pos, 1) = 0
  <2>. DEFINE x == pos + 1 + Length
  <2>1. x \in 0 .. (3 * Length - 1) /\ x >= Length
    BY <1>1
  <2>2. \/ x < 2 * Length /\ x % Length = x - Length
        \/ x >= 2 * Length /\ x % Length = x - 2 * Length
    <3>. HIDE DEF x
    <3>. QED BY <2>1, Wrap
  <2>. QED BY <1>1, <2>2 DEF Ahead
<1>3. ASSUME NEW j \in 0 .. Length - 1
      PROVE  LET x == Ahead(pos, 1) + Length - 1 - j
                 y == pos + Length - j
             IN  x % Length = y % Length
  <2>. DEFINE x == Ahead(pos, 1) + Length - 1 - j
              y == pos + Length - j
  <2>1. /\ x \in 0 .. (3 * Length - 1) /\ y \in 0 .. (3 * Length - 1)
        /\ x = y \/ x = y - Length
    BY <1>1, <1>2
  <2>2. x % Length = y % Length
    <3>. HIDE DEF x, y
    <3>. QED BY <2>1, Wrap
  <2>. QED BY <2>2
<1>4. Behind(Ahead(pos, 1), 0) = pos
  <2>. DEFINE y == pos + Length
  <2>1. Behind(Ahead(pos, 1), 0) = y % Length
    BY <1>1, <1>2, <1>3, SMTT(40) DEF Behind
  <2>2. y \in 0 .. (3 * Length - 1) /\ y >= Length /\ y < 2 * Length
    BY <1>1
  <2>3. y % Length = y - Length
    <3>. HIDE DEF y
    <3>. QED BY <2>2, Wrap
  <2>. QED BY <1>1, <2>1, <2>3
<1>5. ASSUME NEW j \in 1 .. Length - 1
      PROVE  Behind(Ahead(pos, 1), j) = Behind(pos, j - 1)
  <2>1. pos + Length - 1 - (j - 1) = pos + Length - j
    BY <1>1
  <2>. QED BY <1>3, <2>1 DEF Behind
<1>. QED BY <1>4, <1>5

(***************************************************************************)
(* The unread values are the last ones before the write position.          *)
(***************************************************************************)
LEMMA BehindStored ==
  ASSUME NEW V, NEW b \in Buffers(V), Consistent(b),
         NEW j \in 0 .. b.fill - 1
  PROVE  Behind(b.wpos, j) = (b.rpos + (b.fill - j) - 1) % Length
<1>. USE LengthAssumption
<1>1. /\ b.wpos \in 0 .. (Length - 1) /\ b.rpos \in 0 .. (Length - 1)
      /\ b.fill \in 0 .. Length
  BY DEF Buffers, Slots
<1>2. b.wpos = b.rpos + b.fill \/ b.wpos = b.rpos + b.fill - Length
  BY <1>1, Wrap, SMTT(40) DEF Consistent
<1>. DEFINE x == b.wpos + Length - 1 - j
            y == b.rpos + (b.fill - j) - 1
<1>3. /\ x \in 0 .. (3 * Length - 1) /\ y \in 0 .. (3 * Length - 1)
      /\ x = y \/ x = y + Length
  BY <1>1, <1>2
<1>4. x % Length = y % Length
  <2>. HIDE DEF x, y
  <2>. QED BY <1>3, Wrap
<1>. QED BY <1>4 DEF Behind

-----------------------------------------------------------------------------
(* The values stored *)

(***************************************************************************)
(* What appending adds to the elements of a sequence.                      *)
(***************************************************************************)
LEMMA RangeAppended ==
  ASSUME NEW V, NEW s \in Seq(V), NEW v \in V
  PROVE  Range(Append(s, v)) = Range(s) \cup {v}
<1>. DEFINE t == Append(s, v)
<1>1. /\ DOMAIN s = 1 .. Len(s) /\ DOMAIN t = 1 .. Len(s) + 1
      /\ Len(s) \in Nat /\ t[Len(s) + 1] = v
      /\ \A k \in 1 .. Len(s) : t[k] = s[k]
  OBVIOUS
<1>2. \A x : x \in Range(t) <=> \E k \in 1 .. Len(s) + 1 : t[k] = x
  BY <1>1 DEF Range
<1>3. \A x : x \in Range(s) <=> \E k \in 1 .. Len(s) : s[k] = x
  BY <1>1 DEF Range
<1>4. \A k : k \in 1 .. Len(s) + 1 <=> k \in 1 .. Len(s) \/ k = Len(s) + 1
  BY <1>1
<1>. HIDE DEF t
<1>5. \A x : x \in Range(t) <=> x \in Range(s) \cup {v}
  BY <1>1, <1>2, <1>3, <1>4
<1>6. Range(t) = Range(s) \cup {v}
  BY <1>5
<1>. QED BY <1>6 DEF t

(***************************************************************************)
(* They are a sequence as long as the count says.                          *)
(***************************************************************************)
LEMMA StoredIsSeq ==
  ASSUME NEW V, NEW b \in Buffers(V)
  PROVE  /\ Stored(b) \in Seq(V)
         /\ Len(Stored(b)) = b.fill
         /\ \A k \in 1 .. b.fill :
              Stored(b)[k] = b.data[(b.rpos + k - 1) % Length]
<1>. USE LengthAssumption
<1>1. /\ b.fill \in Nat /\ b.rpos \in Nat /\ b.fill <= Length
      /\ b.rpos < Length
      /\ b.data \in [Slots -> V]
  BY DEF Buffers, Slots
<1>2. ASSUME NEW k \in 1 .. b.fill
      PROVE  b.data[(b.rpos + k - 1) % Length] \in V
  <2>1. b.rpos + k - 1 \in Nat
    BY <1>1
  <2>2. (b.rpos + k - 1) % Length \in Slots
    BY <1>1, <2>1 DEF Slots
  <2>. QED BY <1>1, <2>2
<1>3. Stored(b) \in [1 .. b.fill -> V]
  BY <1>2 DEF Stored
<1>4. Stored(b) \in Seq(V)
  BY <1>1, <1>3
<1>5. Len(Stored(b)) = b.fill
  BY <1>1, <1>3, <1>4, LenProperties
<1>. QED BY <1>4, <1>5 DEF Stored

(***************************************************************************)
(* put does not touch them as long as there is room.                       *)
(***************************************************************************)
LEMMA StoredFilled ==
  ASSUME NEW V, NEW b \in Buffers(V), Consistent(b), b.fill < Length,
         NEW v \in V
  PROVE  Stored(Filled(b, v)) = Stored(b)
<1>. USE LengthAssumption
<1>. DEFINE c == Filled(b, v)
<1>1. /\ c.fill = b.fill /\ c.rpos = b.rpos
      /\ \A s \in Slots \ {b.wpos} : c.data[s] = b.data[s]
  BY DEF Filled, Buffers
<1>2. /\ b.wpos \in 0 .. (Length - 1) /\ b.rpos \in 0 .. (Length - 1)
      /\ b.fill \in 0 .. Length
  BY DEF Buffers, Slots
<1>3. b.wpos = b.rpos + b.fill \/ b.wpos = b.rpos + b.fill - Length
  BY <1>2, Wrap DEF Consistent
<1>4. ASSUME NEW k \in 1 .. b.fill
      PROVE  (b.rpos + k - 1) % Length \in Slots \ {b.wpos}
  <2>. DEFINE x == b.rpos + k - 1
  <2>1. x \in 0 .. (3 * Length - 1) /\ x < 2 * Length
    BY <1>2
  <2>2. \/ x < Length /\ x % Length = x
        \/ x >= Length /\ x % Length = x - Length
    <3>. HIDE DEF x
    <3>. QED BY <2>1, Wrap
  <2>. QED BY <1>2, <1>3, <2>2 DEF Slots
<1>. QED BY <1>1, <1>4 DEF Stored

(***************************************************************************)
(* advanceWptr(1) adds the value of the slot at the write position.        *)
(***************************************************************************)
LEMMA StoredAppended ==
  ASSUME NEW V, NEW b \in Buffers(V), Consistent(b), b.fill < Length
  PROVE  Stored(WptrAdvanced(b, 1)) = Append(Stored(b), b.data[b.wpos])
<1>. USE LengthAssumption
<1>. DEFINE c == WptrAdvanced(b, 1)
            d == Append(Stored(b), b.data[b.wpos])
<1>1. /\ b.wpos \in Slots /\ b.fill \in 0 .. Length /\ b.data \in [Slots -> V]
  BY DEF Buffers
<1>2. c \in Buffers(V)
  BY WptrAdvancedOK
<1>3. c.fill = b.fill + 1 /\ c.rpos = b.rpos /\ c.data = b.data
  BY <1>1 DEF WptrAdvanced, MayAdvanceWptr, Buffers
<1>4. /\ Stored(b) \in Seq(V) /\ Len(Stored(b)) = b.fill
      /\ \A k \in 1 .. b.fill :
           Stored(b)[k] = b.data[(b.rpos + k - 1) % Length]
  BY StoredIsSeq
<1>5. /\ Stored(c) \in Seq(V) /\ Len(Stored(c)) = c.fill
      /\ \A k \in 1 .. c.fill :
           Stored(c)[k] = c.data[(c.rpos + k - 1) % Length]
  BY <1>2, StoredIsSeq
<1>6. /\ d \in Seq(V) /\ Len(d) = b.fill + 1
      /\ \A k \in 1 .. b.fill : d[k] = Stored(b)[k]
      /\ d[b.fill + 1] = b.data[b.wpos]
  BY <1>1, <1>4
<1>7. (b.rpos + (b.fill + 1) - 1) % Length = b.wpos
  BY <1>1 DEF Consistent, Buffers, Slots
<1>8. ASSUME NEW k \in 1 .. Len(Stored(c)) PROVE Stored(c)[k] = d[k]
  <2>1. CASE k = b.fill + 1
    BY <2>1, <1>1, <1>3, <1>5, <1>6, <1>7
  <2>2. CASE k \in 1 .. b.fill
    BY <2>2, <1>1, <1>3, <1>4, <1>5, <1>6, SMTT(40)
  <2>3. k \in 1 .. b.fill + 1 /\ b.fill \in Nat
    BY <1>1, <1>3, <1>5
  <2>. HIDE DEF c, d
  <2>. QED BY <2>1, <2>2, <2>3
<1>. HIDE DEF c, d
<1>9. Len(Stored(c)) = Len(d)
  BY <1>3, <1>5, <1>6
<1>10. Stored(c) = d
  BY <1>5, <1>6, <1>8, <1>9, SeqEqual
<1>. QED BY <1>10 DEF c, d

(***************************************************************************)
(* advanceRptr(n) takes the n oldest ones away.                            *)
(***************************************************************************)
LEMMA StoredSkipped ==
  ASSUME NEW V, NEW b \in Buffers(V), Consistent(b), NEW n \in 0 .. b.fill
  PROVE  /\ RptrAdvanced(b, n).fill = b.fill - n
         /\ \A k \in 1 .. b.fill - n :
              Stored(RptrAdvanced(b, n))[k] = Stored(b)[k + n]
<1>. USE LengthAssumption
<1>. DEFINE c == RptrAdvanced(b, n)
<1>1. /\ b.rpos \in 0 .. Length - 1 /\ b.fill \in 0 .. Length /\ n \in 0 .. Length
  BY DEF Buffers, Slots
<1>2. c \in Buffers(V)
  BY <1>1, RptrAdvancedOK
<1>3. c.fill = b.fill - n /\ c.rpos = Ahead(b.rpos, n) /\ c.data = b.data
  BY <1>1 DEF RptrAdvanced, MayAdvanceRptr, Buffers
<1>4. ASSUME NEW k \in 1 .. b.fill - n
      PROVE  (c.rpos + k - 1) % Length = (b.rpos + (k + n) - 1) % Length
  <2>1. c.rpos = b.rpos + n \/ c.rpos = b.rpos + n - Length
    <3>. DEFINE x == b.rpos + n + Length
    <3>1. x \in 0 .. (3 * Length - 1) /\ x >= Length
      BY <1>1
    <3>2. x % Length = x - Length \/ x % Length = x - 2 * Length
      <4>. HIDE DEF x
      <4>. QED BY <3>1, Wrap
    <3>. QED BY <1>1, <1>3, <3>2 DEF Ahead
  <2>. DEFINE y == c.rpos + k - 1
              z == b.rpos + (k + n) - 1
  <2>2. c.rpos \in 0 .. Length - 1
    BY <1>2 DEF Buffers, Slots
  <2>3. y = z \/ y = z - Length
    BY <1>1, <2>1, <2>2
  <2>4. y \in 0 .. (3 * Length - 1) /\ z \in 0 .. (3 * Length - 1)
    BY <1>1, <2>2
  <2>5. y % Length = z % Length
    <3>. HIDE DEF y, z
    <3>. QED BY <2>3, <2>4, Wrap
  <2>. QED BY <2>5
<1>5. ASSUME NEW k \in 1 .. b.fill - n
      PROVE  Stored(c)[k] = Stored(b)[k + n]
  <2>1. k \in 1 .. c.fill /\ k + n \in 1 .. b.fill
    BY <1>1, <1>3
  <2>2. Stored(c)[k] = c.data[(c.rpos + k - 1) % Length]
    BY <1>2, <2>1, StoredIsSeq
  <2>3. Stored(b)[k + n] = b.data[(b.rpos + (k + n) - 1) % Length]
    BY <2>1, StoredIsSeq
  <2>. QED BY <1>3, <1>4, <2>2, <2>3
<1>. QED BY <1>3, <1>5

(***************************************************************************)
(* get returns the oldest of them, and advanceRptr(1) leaves the rest.     *)
(***************************************************************************)
LEMMA StoredTail ==
  ASSUME NEW V, NEW b \in Buffers(V), Consistent(b), b.fill > 0
  PROVE  /\ Stored(b) # << >>
         /\ Head(Stored(b)) = Oldest(b)
         /\ Stored(RptrAdvanced(b, 1)) = Tail(Stored(b))
<1>. USE LengthAssumption
<1>. DEFINE c == RptrAdvanced(b, 1)
            s == Stored(b)
<1>1. b.fill \in 1 .. Length /\ 1 \in 0 .. b.fill /\ b.rpos \in 0 .. Length - 1
  BY DEF Buffers, Slots
<1>2. s \in Seq(V) /\ Len(s) = b.fill /\ s[1] = b.data[(b.rpos + 1 - 1) % Length]
  BY <1>1, StoredIsSeq
<1>3. b.rpos + 1 - 1 = b.rpos /\ b.rpos % Length = b.rpos
  BY <1>1, Wrap
<1>4. s # << >> /\ Head(s) = Oldest(b)
  <2>1. s[1] = Oldest(b)
    BY <1>2, <1>3 DEF Oldest
  <2>. HIDE DEF s
  <2>2. s # << >>
    BY <1>1, <1>2
  <2>3. Head(s) = s[1]
    BY <1>2, <2>2
  <2>. QED BY <2>1, <2>2, <2>3
<1>5. c \in Buffers(V)
  BY RptrAdvancedOK
<1>6. /\ c.fill = b.fill - 1
      /\ \A k \in 1 .. b.fill - 1 : Stored(c)[k] = s[k + 1]
  BY <1>1, StoredSkipped
<1>7. Stored(c) \in Seq(V) /\ Len(Stored(c)) = b.fill - 1
  BY <1>5, <1>6, StoredIsSeq
<1>8. /\ Tail(s) \in Seq(V) /\ Len(Tail(s)) = b.fill - 1
      /\ \A k \in 1 .. b.fill - 1 : Tail(s)[k] = s[k + 1]
  <2>. HIDE DEF s
  <2>. QED BY <1>1, <1>2, <1>4, HeadTailProperties
<1>9. Stored(c) = Tail(s)
  <2>. HIDE DEF s, c
  <2>. QED BY <1>6, <1>7, <1>8, SeqEqual
<1>. QED BY <1>4, <1>9
=============================================================================
