---------------------------- MODULE StreamWrites ----------------------------
(***************************************************************************)
(* _dmi_stream_writes of espjtag/transport.py: the calling thread encodes  *)
(* a list of DMI writes into bursts and puts them on a bounded queue, a    *)
(* writer thread takes them off and ships them over USB; a None on the     *)
(* queue ends the writer.  After joining it the caller reads the sticky    *)
(* dmistat once and clears it if an operation was dropped.                 *)
(***************************************************************************)
EXTENDS Naturals, Sequences

CONSTANTS
  Bursts,      \* bursts of the stream, the one packed after the loop included
  QueueSize,   \* queue.Queue(maxsize=4)
  JoinTicks,   \* join(timeout=10), in units of the 1 s a USB write may take
  UsbMayFail,  \* whether a USB write may raise
  None         \* what ends the writer

ASSUME StreamAssumption ==
  /\ Bursts \in Nat \ {0}
  /\ QueueSize \in Nat \ {0}
  /\ JoinTicks \in Nat \ {0}
  /\ UsbMayFail \in BOOLEAN
  /\ None \notin Nat

VARIABLES
  caller,    \* the calling thread: "put", "end", "join", "status", "reset", "returned", "raised"
  next,      \* the burst being encoded
  q,         \* the queue
  writer,    \* the writer: "get", "write", "ended", "failed"
  inHand,    \* the burst the writer is shipping, or None
  waited,    \* ticks spent in join
  failList,  \* whether the `fail` list has an entry
  dmistat,   \* what the call returns: 0, 2 or 3
  usbError,  \* history: a USB transfer has failed
  shipped,   \* device: bursts received, in order
  sticky     \* device: the sticky op-status: 0, 2 or 3

streamVars == <<caller, next, q, writer, inHand, waited, failList, dmistat, usbError, shipped, sticky>>

StreamTypeOK ==
  /\ caller \in {"put", "end", "join", "status", "reset", "returned", "raised"}
  /\ next \in 1..Bursts + 1
  /\ q \in Seq(1..Bursts \cup {None}) /\ Len(q) <= QueueSize
  /\ writer \in {"get", "write", "ended", "failed"}
  /\ inHand \in 1..Bursts \cup {None}
  /\ waited \in 0..JoinTicks
  /\ failList \in BOOLEAN /\ usbError \in BOOLEAN
  /\ dmistat \in {0, 2, 3} /\ sticky \in {0, 2, 3}
  /\ shipped \in Seq(1..Bursts)

StreamInit ==
  /\ caller = "put" /\ next = 1 /\ q = <<>>
  /\ writer = "get" /\ inHand = None
  /\ waited = 0 /\ failList = FALSE /\ dmistat = 0 /\ usbError = FALSE
  /\ shipped = <<>>
  /\ sticky = 0

(***************************************************************************)
(* The calling thread                                                      *)
(***************************************************************************)

\* q.put without a timeout: blocks while the queue is full.
Put(item) ==
  /\ Len(q) < QueueSize
  /\ q' = Append(q, item)

PutBurst ==
  /\ caller = "put" /\ next <= Bursts
  /\ Put(next)
  /\ next' = next + 1
  /\ caller' = IF next = Bursts THEN "end" ELSE "put"
  /\ UNCHANGED <<writer, inHand, waited, failList, dmistat, usbError, shipped, sticky>>

PutNone ==
  /\ caller = "end"
  /\ Put(None)
  /\ caller' = "join"
  /\ UNCHANGED <<next, writer, inHand, waited, failList, dmistat, usbError, shipped, sticky>>

Alive == writer \in {"get", "write"}

\* Mutant of JoinWriter: does not look at `fail`.
JoinIgnoresFail ==
  /\ caller = "join"
  /\ ~Alive \/ waited = JoinTicks
  /\ caller' = IF Alive THEN "raised" ELSE "status"
  /\ UNCHANGED <<next, q, writer, inHand, waited, failList, dmistat, usbError, shipped, sticky>>

\* Mutant of JoinWriter: no time for the writer to finish.
JoinAtOnce ==
  /\ caller = "join"
  /\ caller' = IF Alive \/ failList THEN "raised" ELSE "status"
  /\ UNCHANGED <<next, q, writer, inHand, waited, failList, dmistat, usbError, shipped, sticky>>

\* join returns when the writer has ended or the timeout is over.
JoinWriter ==
  /\ caller = "join"
  /\ ~Alive \/ waited = JoinTicks
  /\ caller' = IF Alive \/ failList THEN "raised" ELSE "status"
  /\ UNCHANGED <<next, q, writer, inHand, waited, failList, dmistat, usbError, shipped, sticky>>

\* The DTMCS scan that reads the sticky status, on the same OUT endpoint.
ReadStatus ==
  /\ caller = "status"
  /\ \/ /\ dmistat' = sticky
        /\ caller' = IF sticky = 0 THEN "returned" ELSE "reset"
        /\ UNCHANGED usbError
     \/ UsbMayFail /\ caller' = "raised" /\ usbError' = TRUE /\ UNCHANGED dmistat
  /\ UNCHANGED <<next, q, writer, inHand, waited, failList, shipped, sticky>>

ResetStatus ==
  /\ caller = "reset"
  /\ \/ caller' = "returned" /\ sticky' = 0 /\ UNCHANGED usbError
     \/ UsbMayFail /\ caller' = "raised" /\ sticky' \in {0, sticky} /\ usbError' = TRUE
  /\ UNCHANGED <<next, q, writer, inHand, waited, failList, dmistat, shipped>>

(***************************************************************************)
(* The writer thread                                                       *)
(***************************************************************************)
\* Mutant of Get: the queue hands out the newest burst first.
GetNewest ==
  /\ writer = "get" /\ q # <<>>
  /\ q' = SubSeq(q, 1, Len(q) - 1)
  /\ IF q[Len(q)] = None
     THEN writer' = "ended" /\ UNCHANGED inHand
     ELSE writer' = "write" /\ inHand' = q[Len(q)]
  /\ UNCHANGED <<caller, next, waited, failList, dmistat, usbError, shipped, sticky>>

Get ==
  /\ writer = "get" /\ q # <<>>
  /\ q' = Tail(q)
  /\ IF Head(q) = None
     THEN writer' = "ended" /\ UNCHANGED inHand
     ELSE writer' = "write" /\ inHand' = Head(q)
  /\ UNCHANGED <<caller, next, waited, failList, dmistat, usbError, shipped, sticky>>

\* Mutant of Ship: the writer ships one burst and ends.
ShipOnce ==
  /\ writer = "write"
  /\ writer' = "ended"
  /\ shipped' = Append(shipped, inHand)
  /\ inHand' = None
  /\ UNCHANGED <<caller, next, q, waited, failList, dmistat, usbError, sticky>>

\* The write completes within its USB timeout, which is a tick of the join at
\* most; the device may drop an operation of the burst and remember it.
Ship ==
  /\ writer = "write"
  /\ writer' = "get"
  /\ shipped' = Append(shipped, inHand)
  /\ sticky' \in IF sticky = 0 THEN {0, 2, 3} ELSE {sticky}
  /\ inHand' = None
  /\ waited' \in IF caller = "join" /\ waited < JoinTicks THEN {waited, waited + 1} ELSE {waited}
  /\ UNCHANGED <<caller, next, q, failList, dmistat, usbError>>

\* The write raises: the exception goes to `fail` and the thread is over.
ShipFails ==
  /\ UsbMayFail
  /\ writer = "write"
  /\ writer' = "failed"
  /\ failList' = TRUE /\ usbError' = TRUE
  /\ inHand' = None
  /\ UNCHANGED <<caller, next, q, waited, dmistat, shipped, sticky>>

Main == PutBurst \/ PutNone \/ JoinWriter \/ ReadStatus \/ ResetStatus
Writer == Get \/ Ship \/ ShipFails

StreamNext == Main \/ Writer

\* Both threads are scheduled; a USB write ends, one way or the other.
StreamSpec == StreamInit /\ [][StreamNext]_streamVars /\ WF_streamVars(Main) /\ WF_streamVars(Writer)

-----------------------------------------------------------------------------
\* The status scan never shares the OUT endpoint with the writer: when it goes
\* out, every burst has gone out and the writer is over.
StatusAfterStream ==
  caller \in {"status", "reset", "returned"} => writer = "ended" /\ Len(shipped) = Bursts

\* What has been shipped is a prefix of the stream, and what the queue still
\* holds continues it, with the None behind it once everything is queued: no burst
\* is lost or overtaken between the threads.
InOrder ==
  LET pending == IF inHand = None THEN <<>> ELSE <<inHand>>
      ended   == q # <<>> /\ q[Len(q)] = None
      data    == IF ended THEN SubSeq(q, 1, Len(q) - 1) ELSE q
  IN  writer # "failed" =>
        shipped \o pending \o data = [i \in 1..next - 1 |-> i]

\* 10 s are enough: a call raises because a USB transfer failed, never with
\* "writer stalled" over a stream that was still going through.
RaisesOnlyOnUsbError == caller = "raised" => usbError

\* "OUT only NAK-pauses; 10 s = wedged device": the call ends, with a result or
\* an exception.
CallEnds == <>(caller \in {"returned", "raised"})

\* The call ends, or it is the one case in which it does not: the caller blocks in
\* q.put on a full queue nobody empties any more, because the writer has failed.
EndsOrBlocked ==
  <>(\/ caller \in {"returned", "raised"}
     \/ caller \in {"put", "end"} /\ writer = "failed" /\ Len(q) = QueueSize)
=============================================================================
