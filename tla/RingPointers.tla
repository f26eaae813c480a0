---------------------------- MODULE RingPointers ----------------------------
(***************************************************************************)
(* The contents of a RTC::RingBuffer and the operations that take its      *)
(* m_posmutex: src/src/lib/rtm/RingBuffer.h.  A buffer is a record; each   *)
(* operator below is one critical section of that mutex, so an action of a *)
(* module that uses a buffer applies one of them to it.                    *)
(*                                                                         *)
(*   data       m_buffer, the slots                                        *)
(*   wpos rpos  m_wpos and m_rpos, the slots next written and next read    *)
(*   fill       m_fillcount, how many values have not been read            *)
(*   wcount     m_wcount, how many values were ever written                *)
(***************************************************************************)
EXTENDS Integers

CONSTANT Length     \* m_length

ASSUME LengthAssumption == Length \in Nat \ {0}

Slots == 0 .. (Length - 1)

Buffers(V) ==
  [data : [Slots -> V], wpos : Slots, rpos : Slots, fill : 0 .. Length,
   wcount : Nat]

(***************************************************************************)
(* What the constructor, length(n) and reset() leave.                      *)
(***************************************************************************)
Fresh(blank) ==
  [data |-> [s \in Slots |-> blank],
   wpos |-> 0, rpos |-> 0, fill |-> 0, wcount |-> 0]

\* A faulty variant: the buffer is full one value later.
FullTooLate(b) == b.fill > Length

Full(b) == b.fill = Length
Empty(b) == b.fill = 0

Ahead(pos, n) == (pos + n + Length) % Length

(***************************************************************************)
(* advanceWptr(n) and advanceRptr(n).  A step that the buffer has no room  *)
(* for is refused, with PRECONDITION_NOT_MET, and changes nothing.         *)
(***************************************************************************)
MayAdvanceWptr(b, n) == ~ \/ n > 0 /\ n > Length - b.fill
                          \/ n < 0 /\ n < -b.fill

MayAdvanceRptr(b, n) == ~ \/ n > 0 /\ n > b.fill
                          \/ n < 0 /\ n < b.fill - Length

\* A faulty variant: a refused advance moves the position.
MovedThoughRefused(b, n) ==
  LET b2 == [b EXCEPT !.wpos = Ahead(@, n), !.wcount = @ + n] IN
    IF MayAdvanceWptr(b, n) THEN [b2 EXCEPT !.fill = @ + n] ELSE b2

WptrAdvanced(b, n) ==
  IF MayAdvanceWptr(b, n)
    THEN [b EXCEPT !.wpos = Ahead(@, n), !.fill = @ + n, !.wcount = @ + n]
    ELSE b

RptrAdvanced(b, n) ==
  IF MayAdvanceRptr(b, n)
    THEN [b EXCEPT !.rpos = Ahead(@, n), !.fill = @ - n]
    ELSE b

Filled(b, v) == [b EXCEPT !.data[b.wpos] = v]     \* put(v)

Oldest(b) == b.data[b.rpos]                       \* get()

(***************************************************************************)
(* A caller that passes a timeout makes the call block, whatever the       *)
(* policy.                                                                 *)
(***************************************************************************)
Mode(policy, timeoutGiven) == IF timeoutGiven THEN "block" ELSE policy

(***************************************************************************)
(* The two positions and the count tell the same story: the unread values  *)
(* are those of the slots from rpos up to wpos, and there are no more of   *)
(* them than slots.                                                        *)
(***************************************************************************)
Consistent(b) ==
  /\ b.fill \in 0 .. Length
  /\ b.wpos = (b.rpos + b.fill) % Length

(***************************************************************************)
(* The unread values, oldest first.                                        *)
(***************************************************************************)
Stored(b) == [k \in 1 .. b.fill |-> b.data[(b.rpos + k - 1) % Length]]
=============================================================================
