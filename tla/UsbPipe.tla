------------------------------- MODULE UsbPipe -------------------------------
(***************************************************************************)
(* The two bulk endpoints under every DMI access of transport.py: the      *)
(* one-chunk exchange of _dmi_batch (_send, then _recv), the streamed one  *)
(* of _dmi_batch_async (a reader thread drains IN while the caller writes  *)
(* OUT) and _drain_in between operations.  A unit is one captured DR scan: *)
(* a unit sent makes the device produce a unit of TDO.  The device takes   *)
(* no more OUT while its IN buffers are full.                              *)
(***************************************************************************)
EXTENDS Naturals, Sequences

CONSTANTS
  Sizes,       \* bound: the operations of a behaviour, as scans per operation
  Chunk,       \* FIFO_CHUNK_BITS, in scans: more than that is streamed
  InSize,      \* units the device's IN buffers hold
  OutSize,     \* units of OUT the device has taken and not yet executed
  DrainModes,  \* the values of drain_mode to consider
  MaxFails,    \* bound: OUT transfers that raise
  Raised       \* the result of an operation that has raised

ASSUME PipeAssumption ==
  /\ Sizes \in Seq(Nat \ {0}) /\ Sizes # <<>>
  /\ Chunk \in Nat \ {0} /\ InSize \in Nat \ {0} /\ OutSize \in Nat \ {0}
  /\ DrainModes \subseteq {"off", "validate", "always"}
  /\ MaxFails \in Nat

VARIABLES
  op,       \* number of the current operation
  main,     \* the caller: "drain", "write", "recv", "join" or "over"
  sent,     \* units of the operation written to OUT
  got,      \* units of the operation the caller has read
  mode,     \* self.drain_mode
  alive,    \* operations whose reader thread is alive
  buffer,   \* the `got` of each operation's reader
  fail,     \* operations whose reader has put an entry in its `fail`
  results,  \* what each finished operation returned: its units, or Raised
  outq,     \* device: units taken and not yet executed
  inq,      \* device: units of TDO not yet read
  fails     \* OUT transfers that have raised

threads == <<alive, buffer, fail>>
vars == <<op, main, sent, got, mode, threads, results, outq, inq, fails>>

Ops == 1..Len(Sizes)
Unit == Ops \X Nat
Streamed(o) == Sizes[o] > Chunk

ASSUME RaisedAssumption == Raised \notin Seq(Unit)

TypeOK ==
  /\ op \in 1..Len(Sizes) + 1
  /\ main \in {"drain", "write", "recv", "join", "over"}
  /\ sent \in Nat
  /\ got \in Seq(Unit) /\ buffer \in [Ops -> Seq(Unit)]
  /\ mode \in DrainModes
  /\ alive \subseteq Ops /\ fail \subseteq Ops
  /\ Len(results) = op - 1
  /\ outq \in Seq(Unit) /\ Len(outq) <= OutSize
  /\ inq \in Seq(Unit) /\ Len(inq) <= InSize
  /\ fails \in 0..MaxFails

Init ==
  /\ op = 1 /\ main = "drain" /\ sent = 0 /\ got = <<>>
  /\ mode \in DrainModes
  /\ alive = {} /\ buffer = [o \in Ops |-> <<>>] /\ fail = {}
  /\ results = <<>>
  /\ outq = <<>> /\ inq = <<>> /\ fails = 0

(***************************************************************************)
(* The calling thread                                                      *)
(***************************************************************************)
Finish(result) ==
  /\ results' = Append(results, result)
  /\ op' = op + 1
  /\ main' = IF op = Len(Sizes) THEN "over" ELSE "drain"
  /\ sent' = 0 /\ got' = <<>>

\* A streamed operation starts its reader, with a buffer of its own, before the
\* first write.
Open ==
  /\ main' = "write"
  /\ alive' = IF Streamed(op) THEN alive \cup {op} ELSE alive
  /\ UNCHANGED <<buffer, fail>>

\* _drain_in: nothing when off; when validating, residue raises at the calls that
\* check, with the packet that was read gone; when always, whatever is there is
\* thrown away.
Drain ==
  /\ main = "drain"
  /\ \/ mode # "always" /\ Open /\ UNCHANGED <<op, sent, got, results, inq>>
     \/ /\ mode = "validate"
        /\ \E n \in 1..Len(inq) : inq' = SubSeq(inq, n + 1, Len(inq))
        /\ Finish(Raised) /\ UNCHANGED threads
     \/ mode = "always" /\ inq' = <<>> /\ Open /\ UNCHANGED <<op, sent, got, results>>
  /\ UNCHANGED <<mode, outq, fails>>

Send ==
  /\ main = "write" /\ sent < Sizes[op]
  /\ Len(outq) < OutSize
  /\ outq' = Append(outq, <<op, sent + 1>>)
  /\ sent' = sent + 1
  /\ UNCHANGED <<op, main, got, mode, threads, results, inq, fails>>

\* The OUT transfer returns: read the answer, or join the reader.
Written ==
  /\ main = "write" /\ sent = Sizes[op]
  /\ main' = IF Streamed(op) THEN "join" ELSE "recv"
  /\ UNCHANGED <<op, sent, got, mode, threads, results, outq, inq, fails>>

\* The OUT transfer raises; a reader that was started stays alive.
SendFails ==
  /\ main = "write" /\ sent > 0
  /\ fails < MaxFails
  /\ fails' = fails + 1
  /\ Finish(Raised)
  /\ UNCHANGED <<mode, threads, outq, inq>>

\* Nobody empties the IN buffers, so the device refuses OUT until the write times out.
SendTimesOut ==
  /\ main = "write" /\ sent < Sizes[op]
  /\ Len(outq) = OutSize /\ Len(inq) = InSize /\ alive = {}
  /\ Finish(Raised)
  /\ UNCHANGED <<mode, threads, outq, inq, fails>>

\* _recv reads on until the accounted units are there.
Recv ==
  /\ main = "recv" /\ Len(got) < sent
  /\ inq # <<>>
  /\ got' = Append(got, Head(inq))
  /\ inq' = Tail(inq)
  /\ UNCHANGED <<op, main, sent, mode, threads, results, outq, fails>>

Received ==
  /\ main = "recv" /\ Len(got) = sent
  /\ Finish(got)
  /\ UNCHANGED <<mode, threads, outq, inq, fails>>

Silent == inq = <<>> /\ outq = <<>>

\* Mutant of RecvFails: an empty read is taken for silence.
RecvImpatient ==
  /\ main = "recv" /\ Len(got) < sent /\ inq = <<>>
  /\ Finish(Raised)
  /\ UNCHANGED <<mode, threads, outq, inq, fails>>

\* Mutant of RecvFails: reads on for ever.
RecvForever ==
  /\ main = "recv" /\ Len(got) < sent /\ Silent
  /\ UNCHANGED vars

\* The device has nothing more to say: the read times out.
RecvFails ==
  /\ main = "recv" /\ Len(got) < sent /\ Silent
  /\ Finish(Raised)
  /\ UNCHANGED <<mode, threads, outq, inq, fails>>

\* Mutant of Join: takes the buffer while its reader is still filling it.
JoinEarly ==
  /\ main = "join"
  /\ Finish(IF op \in fail THEN Raised ELSE buffer[op])
  /\ UNCHANGED <<mode, threads, outq, inq, fails>>

\* join(timeout=10) outlasts the reader, which bounds itself at 5 s of silence.
Join ==
  /\ main = "join" /\ op \notin alive
  /\ Finish(IF op \in fail THEN Raised ELSE buffer[op])
  /\ UNCHANGED <<mode, threads, outq, inq, fails>>

(***************************************************************************)
(* The reader thread                                                       *)
(***************************************************************************)
Read(o) ==
  /\ o \in alive /\ Len(buffer[o]) < Sizes[o]
  /\ inq # <<>>
  /\ buffer' = [buffer EXCEPT ![o] = Append(@, Head(inq))]
  /\ inq' = Tail(inq)
  /\ UNCHANGED <<op, main, sent, got, mode, alive, fail, results, outq, fails>>

ReadAll(o) ==
  /\ o \in alive /\ Len(buffer[o]) = Sizes[o]
  /\ alive' = alive \ {o}
  /\ UNCHANGED <<op, main, sent, got, mode, buffer, fail, results, outq, inq, fails>>

\* Mutant of ReadGivesUp: no limit on empty reads.
ReadForever(o) ==
  /\ o \in alive /\ Len(buffer[o]) < Sizes[o]
  /\ Silent /\ main # "write"
  /\ UNCHANGED vars

\* 25 empty reads in a row: the device stopped producing TDO.
ReadGivesUp(o) ==
  /\ o \in alive /\ Len(buffer[o]) < Sizes[o]
  /\ Silent /\ main # "write"
  /\ alive' = alive \ {o}
  /\ fail' = fail \cup {o}
  /\ UNCHANGED <<op, main, sent, got, mode, buffer, results, outq, inq, fails>>

(***************************************************************************)
(* The device executes a unit when its TDO fits the IN buffers             *)
(***************************************************************************)
Execute ==
  /\ outq # <<>> /\ Len(inq) < InSize
  /\ inq' = Append(inq, Head(outq))
  /\ outq' = Tail(outq)
  /\ UNCHANGED <<op, main, sent, got, mode, threads, results, fails>>

Caller == Drain \/ Send \/ SendTimesOut \/ Written \/ Recv \/ Received \/ RecvFails \/ Join
Reader(o) == Read(o) \/ ReadAll(o) \/ ReadGivesUp(o)
Next == Caller \/ SendFails \/ (\E o \in Ops : Reader(o)) \/ Execute

Spec == Init /\ [][Next]_vars
        /\ WF_vars(Caller) /\ (\A o \in Ops : WF_vars(Reader(o))) /\ WF_vars(Execute)

-----------------------------------------------------------------------------
\* "_recv reads exactly the captured byte count, so the endpoint is already empty
\* afterward": an operation that returns has its own captures and no others.  Not so
\* with the drain off after a transfer that failed.
OwnCaptures ==
  \A o \in 1..Len(results) :
    results[o] # Raised => results[o] = [i \in 1..Sizes[o] |-> <<o, i>>]

\* While no transfer fails that holds in every drain mode: the reader thread, the
\* caller's reads and the device's buffers lose, share and reorder nothing, and
\* nothing is left waiting for the next operation.
CleanCaptures == fails = 0 => OwnCaptures /\ (main = "drain" => Silent /\ alive = {})

\* As long as no transfer fails, no operation raises: the reader's patience and
\* the chunk size never mistake a device that is merely full for a dead one.
NothingRaises == fails = 0 => \A o \in 1..Len(results) : results[o] # Raised

\* All operations end, also those that meet the leftovers of one that failed: no
\* read, write or join waits for ever.
AllOver == <>(main = "over")

\* Also the reader of an operation that has raised ends: no thread is left behind
\* to eat the captures of the rest of the session.
ReadersEnd == \A o \in Ops : o \in alive ~> o \notin alive
=============================================================================
