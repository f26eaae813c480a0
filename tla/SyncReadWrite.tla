---------------------------- MODULE SyncReadWrite ----------------------------
(***************************************************************************)
(* The synchronous hand-over of a connector with sync_readwrite:           *)
(* src/src/lib/rtm/InPortPushConnector.cpp, read() and write();            *)
(* OutPortPullConnector.cpp has the same statements.                       *)
(*                                                                         *)
(* One thread reads, the one of the component, and one writes, the one     *)
(* that serves the other port.  They share the buffer and three flags,     *)
(* each with its own mutex and condition variable.  The buffer has its     *)
(* default policies, so that neither call on it waits; of its content only *)
(* the number of values matters here.  A module that checks this one says  *)
(* what is fair.                                                           *)
(***************************************************************************)
EXTENDS Naturals

CONSTANT Room        \* the length of m_buffer

ASSUME RoomAssumption == Room \in Nat \ {0}

VARIABLES
  readready, writecompleted, readcompleted,   \* the flags completed_
  inBuffer,      \* how many values m_buffer holds unread
  reader,        \* where the call of read() is
  writer,        \* where the call of write() is
  unhurried,     \* history: was the writer idle when read() was called, and
                 \* the reader when write() was?
  taken          \* history: has the buffer been read since it was written?

flagVars == <<readready, writecompleted, readcompleted>>
syncVars == <<flagVars, inBuffer, reader, writer, unhurried, taken>>

SyncTypeOK ==
  /\ {readready, writecompleted, readcompleted, taken} \subseteq BOOLEAN
  /\ inBuffer \in 0 .. Room
  /\ reader \in {"idle", "ready", "wait", "read", "complete", "leave"}
  /\ writer \in {"idle", "wait", "write", "complete", "await", "clear"}
  /\ unhurried \in [{"read", "write"} -> BOOLEAN]

SyncInit ==
  /\ readready = FALSE /\ writecompleted = FALSE /\ readcompleted = FALSE
  /\ inBuffer = 0 /\ taken = FALSE
  /\ reader = "idle" /\ writer = "idle"
  /\ unhurried = [call \in {"read", "write"} |-> FALSE]

-----------------------------------------------------------------------------
(* read() *)

\* A faulty variant: the answer to the last write stays.
EnterWithOldAnswer ==
  /\ reader = "idle"
  /\ reader' = "ready"
  /\ unhurried' = [unhurried EXCEPT !["read"] = writer = "idle"]
  /\ UNCHANGED <<flagVars, inBuffer, writer, taken>>

EnterRead ==
  /\ reader = "idle"
  /\ readcompleted' = FALSE
  /\ reader' = "ready"
  /\ unhurried' = [unhurried EXCEPT !["read"] = writer = "idle"]
  /\ UNCHANGED <<readready, writecompleted, inBuffer, writer, taken>>

Ready ==
  /\ reader = "ready"
  /\ readready' = TRUE
  /\ reader' = "wait"
  /\ UNCHANGED <<writecompleted, readcompleted, inBuffer, writer, unhurried,
                 taken>>

SeeWritten ==
  /\ reader = "wait" /\ writecompleted
  /\ reader' = "read"
  /\ UNCHANGED <<flagVars, inBuffer, writer, unhurried, taken>>

Read ==
  /\ reader = "read"
  /\ inBuffer' = IF inBuffer > 0 THEN inBuffer - 1 ELSE 0
  /\ taken' = TRUE
  /\ reader' = "complete"
  /\ UNCHANGED <<flagVars, writer, unhurried>>

CompleteRead ==
  /\ reader = "complete"
  /\ readcompleted' = TRUE
  /\ reader' = "leave"
  /\ UNCHANGED <<readready, writecompleted, inBuffer, writer, unhurried, taken>>

LeaveRead ==
  /\ reader = "leave"
  /\ readready' = FALSE
  /\ reader' = "idle"
  /\ UNCHANGED <<writecompleted, readcompleted, inBuffer, writer, unhurried,
                 taken>>

ReadStep == Ready \/ SeeWritten \/ Read \/ CompleteRead \/ LeaveRead

-----------------------------------------------------------------------------
(* write() *)

EnterWrite ==
  /\ writer = "idle"
  /\ writer' = "wait"
  /\ unhurried' = [unhurried EXCEPT !["write"] = reader = "idle"]
  /\ UNCHANGED <<flagVars, inBuffer, reader, taken>>

SeeReady ==
  /\ writer = "wait" /\ readready
  /\ writer' = "write"
  /\ UNCHANGED <<flagVars, inBuffer, reader, unhurried, taken>>

\* A faulty variant: a full buffer takes one more.
WriteUnbounded ==
  /\ writer = "write"
  /\ inBuffer' = inBuffer + 1
  /\ taken' = FALSE
  /\ writer' = "complete"
  /\ UNCHANGED <<flagVars, reader, unhurried>>

WriteBuffer ==
  /\ writer = "write"
  /\ inBuffer' = IF inBuffer < Room THEN inBuffer + 1 ELSE Room
  /\ taken' = FALSE
  /\ writer' = "complete"
  /\ UNCHANGED <<flagVars, reader, unhurried>>

\* A faulty variant: the flag is cleared when the wait begins.
AwaitClears ==
  /\ writer = "complete"
  /\ writecompleted' = FALSE
  /\ writer' = "await"
  /\ UNCHANGED <<readready, readcompleted, inBuffer, reader, unhurried, taken>>

CompleteWrite ==
  /\ writer = "complete"
  /\ writecompleted' = TRUE
  /\ writer' = "await"
  /\ UNCHANGED <<readready, readcompleted, inBuffer, reader, unhurried, taken>>

SeeRead ==
  /\ writer = "await" /\ readcompleted
  /\ writer' = "clear"
  /\ UNCHANGED <<flagVars, inBuffer, reader, unhurried, taken>>

LeaveWrite ==
  /\ writer = "clear"
  /\ writecompleted' = FALSE
  /\ writer' = "idle"
  /\ UNCHANGED <<readready, readcompleted, inBuffer, reader, unhurried, taken>>

WriteStep == SeeReady \/ WriteBuffer \/ CompleteWrite \/ SeeRead \/ LeaveWrite

SyncNext == EnterRead \/ ReadStep \/ EnterWrite \/ WriteStep

SyncSpec == SyncInit /\ [][SyncNext]_syncVars

-----------------------------------------------------------------------------
(***************************************************************************)
(* Properties.                                                             *)
(***************************************************************************)

(***************************************************************************)
(* The reader and the writer never wait for each other, in whatever state  *)
(* the previous exchange has left the flags (InPortPushConnector.cpp:107,  *)
(* 240, 259).                                                              *)
(***************************************************************************)
ReaderStuck == reader = "wait" /\ ~writecompleted
WriterStuck ==
  (writer = "wait" /\ ~readready) \/ (writer = "await" /\ ~readcompleted)

NeverBothStuck == ~(ReaderStuck /\ WriterStuck)

(***************************************************************************)
(* A read() that is called while no write() is under way finds a value:    *)
(* it waits for one to be written (InPortPushConnector.cpp:109).  Called   *)
(* earlier, it may see the flag of the exchange before and find nothing.   *)
(***************************************************************************)
ReadFindsData == (reader = "read" /\ unhurried["read"]) => inBuffer > 0

(***************************************************************************)
(* A write() that is called while no read() is under way returns after the *)
(* buffer was read (InPortPushConnector.cpp:262).  Called earlier, it may  *)
(* see both flags of the exchange before, and return at once.              *)
(***************************************************************************)
WriteWaitsForRead == (writer = "clear" /\ unhurried["write"]) => taken

(***************************************************************************)
(* Both together: what "synchronous" promises to calls that do not come    *)
(* early.                                                                  *)
(***************************************************************************)
HandedOver == ReadFindsData /\ WriteWaitsForRead
=============================================================================
