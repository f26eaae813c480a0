----------------------------- MODULE BufferFifo -----------------------------
(***************************************************************************)
(* What a buffer promises when it never drops nor repeats data, that is,   *)
(* when it is written under "do_nothing" or "block" and read under         *)
(* "do_nothing" or "block": a bounded queue.                               *)
(*                                                                         *)
(* A call to write is invoked with a value; at one moment of the call the  *)
(* value joins the queue, and the call returns OK, or the call gives up.   *)
(* FULL is an answer of a full queue only and EMPTY of an empty one; a     *)
(* call that waited may give up at any time.                               *)
(***************************************************************************)
EXTENDS Integers, Sequences

CONSTANTS Writers, Readers, Length, Values, NoValue

VARIABLES
  queue,      \* the values stored, oldest first
  received,   \* the values that calls to read returned, in order
  offered,    \* the value each writer's call is to store
  answer      \* what each thread's last call returned

vars == <<queue, received, offered, answer>>

Init ==
  /\ queue = << >>
  /\ received = << >>
  /\ offered = [w \in Writers |-> NoValue]
  /\ answer = [t \in Writers \cup Readers |-> "none"]

Offer(w, v) ==
  /\ offered[w] = NoValue
  /\ offered' = [offered EXCEPT ![w] = v]
  /\ UNCHANGED <<queue, received, answer>>

Accept(w) ==
  /\ offered[w] # NoValue
  /\ Len(queue) < Length
  /\ queue' = Append(queue, offered[w])
  /\ offered' = [offered EXCEPT ![w] = NoValue]
  /\ answer' = [answer EXCEPT ![w] = "OK"]
  /\ UNCHANGED received

\* A write that finds the queue full when it is invoked.
Refuse(w) ==
  /\ offered[w] = NoValue
  /\ Len(queue) = Length
  /\ answer' = [answer EXCEPT ![w] = "FULL"]
  /\ UNCHANGED <<queue, received, offered>>

WriteTimesOut(w) ==
  /\ offered[w] # NoValue
  /\ offered' = [offered EXCEPT ![w] = NoValue]
  /\ answer' = [answer EXCEPT ![w] = "TIMEOUT"]
  /\ UNCHANGED <<queue, received>>

Deliver(r) ==
  /\ queue # << >>
  /\ received' = Append(received, Head(queue))
  /\ queue' = Tail(queue)
  /\ answer' = [answer EXCEPT ![r] = "OK"]
  /\ UNCHANGED offered

Nothing(r) ==
  /\ queue = << >>
  /\ answer' = [answer EXCEPT ![r] = "EMPTY"]
  /\ UNCHANGED <<queue, received, offered>>

ReadTimesOut(r) ==
  /\ answer' = [answer EXCEPT ![r] = "TIMEOUT"]
  /\ UNCHANGED <<queue, received, offered>>

Next ==
  \/ \E w \in Writers : \/ \E v \in Values : Offer(w, v)
                        \/ Accept(w) \/ Refuse(w) \/ WriteTimesOut(w)
  \/ \E r \in Readers : Deliver(r) \/ Nothing(r) \/ ReadTimesOut(r)

Spec == Init /\ [][Next]_vars
=============================================================================
