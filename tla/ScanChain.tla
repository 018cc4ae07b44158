------------------------------ MODULE ScanChain ------------------------------
(***************************************************************************)
(* Scans through a chain of TAPs: reset_tap, _scan, _scan_ir, _scan_dr and *)
(* _detect_chain of transport.py on the host side, the chain of TAPs on    *)
(* the device side, and the USB OUT stream of nibbles between them, which  *)
(* may break off.  Bits are 0 and 1, words are sequences of bits with the  *)
(* least significant first, TAPs are numbered from TDO.                    *)
(***************************************************************************)
EXTENDS Tap, SequencesExt

CONSTANTS
  IrLen,        \* length of one TAP's instruction register
  IdLen,        \* length of an IDCODE (32 on the device)
  DmiLen,       \* length of the DMI register
  Boards,       \* [idcodes, override]: a chain and the `tap` argument, or NoOverride
  ChainTable,   \* chips.chain_by_idcode(): first IDCODE -> position of the target
  MaxSessions,  \* bound: sessions in a behaviour
  MaxBreaks     \* bound: broken OUT streams in a behaviour

NoOverride == 99
Bits(n) == [1..n -> {0, 1}]
Zeros(n) == [i \in 1..n |-> 0]
Ones(n) == [i \in 1..n |-> 1]

\* Instructions: BYPASS is all ones, the other two are any two other codes.
BYPASS == Ones(IrLen)
IDCODE == [Zeros(IrLen) EXCEPT ![1] = 1]
DMI == [Zeros(IrLen) EXCEPT ![IrLen] = 1]

ASSUME ChainAssumption ==
  /\ IrLen \in Nat \ {0, 1} /\ IdLen \in Nat \ {0} /\ DmiLen \in Nat \ {0}
  /\ \A b \in Boards : /\ b.idcodes \in Seq(Bits(IdLen) \ {Zeros(IdLen)})
                       /\ Len(b.idcodes) \in 1..3 /\ b.override \in Nat
  /\ \A code \in DOMAIN ChainTable : ChainTable[code] \in 0..2
  /\ MaxSessions \in Nat /\ MaxBreaks \in Nat

VARIABLES
  state,     \* self.state: the TAP state the host believes in
  after,     \* self.taps_after
  before,    \* self.taps_before
  index,     \* self.idcode_index
  detected,  \* self._chain_detected
  session,   \* "none", "detect", "idcode", "dmi", or "failed"
  value,     \* the word a dmi session shifts into the target
  wire,      \* nibbles on their way to the device
  captured,  \* TDO bits the device has sent back
  result,    \* what the session sliced out of the captured bits
  sessions,  \* sessions begun
  breaks,    \* OUT streams broken so far
  board,     \* the chain this is, and the `tap` argument
  tap,       \* device: the state of every TAP on the chain
  ir,        \* device: instruction of each TAP
  chain,     \* device: the bits between TDI and TDO, the next one out first
  response,  \* device: what the target's DMI register captures
  dmi        \* device: what the target's DMI register was last updated with

hostVars == <<state, after, before, index, detected, session, value, result, sessions, breaks>>
deviceVars == <<board, tap, ir, chain, response, dmi>>
vars == <<hostVars, wire, captured, deviceVars>>

NTaps == Len(board.idcodes)
TapNo == 0..NTaps - 1
IdCode(t) == board.idcodes[t + 1]
Override == board.override

(***************************************************************************)
(* What the host emits.  A nibble is [tms, tdi, cap].                      *)
(***************************************************************************)

Clk(tms, tdi, cap) == [tms |-> tms, tdi |-> tdi, cap |-> cap]
Steps(tms) == [i \in 1..Len(tms) |-> Clk(tms[i], 0, FALSE)]

\* reset_tap: five TMS=1 force Test-Logic-Reset from any state, then to Idle.
ResetTap == Steps(ResetWalk \o Path("reset", "idle"))

\* Mutant of ScanBits: leaves from the shift state, which its last bit has left.
ScanBitsOneTooMany(shift, word, lo, hi) ==
  Steps(Path("idle", shift))
  \o [i \in 1..Len(word) |->
        Clk(IF i = Len(word) THEN 1 ELSE 0, word[i], lo <= i - 1 /\ i - 1 < hi)]
  \o Steps(Path(shift, "idle"))

\* _scan from Idle: bits lo..hi-1 (from 0) captured, the last bit with TMS=1.
ScanBits(shift, word, lo, hi) ==
  Steps(Path("idle", shift))
  \o [i \in 1..Len(word) |->
        Clk(IF i = Len(word) THEN 1 ELSE 0, word[i], lo <= i - 1 /\ i - 1 < hi)]
  \o Steps(Path(Clocked(shift, 1), "idle"))

\* _scan_ir: the instruction for the target, BYPASS for every other TAP.
ScanIr(instr) ==
  LET word == Ones(after * IrLen) \o instr \o Ones(before * IrLen)
  IN  ScanBits("shiftir", word, 0, 0)

\* Mutant of ScanDrResp: the capture window ignores the bypass bits.
ScanDrRespFromZero(word, n) ==
  ScanBits("shiftdr", Zeros(after) \o word \o Zeros(before), 0, n)

\* Mutant of ScanDrResp: the word is not moved above the bypass bits.
ScanDrRespUnshifted(word, n) ==
  ScanBits("shiftdr", word \o Zeros(after + before), after, after + n)

\* _scan_dr_resp: the word above `after` bypass bits, its low n bits captured.
ScanDrResp(word, n) ==
  ScanBits("shiftdr", Zeros(after) \o word \o Zeros(before), after, after + n)

Idle(n) == Steps([i \in 1..n |-> 0])

(***************************************************************************)
(* Host                                                                    *)
(***************************************************************************)
Begin(kind, nibbles) ==
  /\ session \in {"none", "failed"}
  /\ sessions < MaxSessions
  /\ sessions' = sessions + 1
  /\ session' = kind
  /\ wire' = nibbles
  /\ captured' = <<>>
  /\ result' = <<>>
  /\ state' = "idle"          \* every session opens with reset_tap and ends in Idle
  /\ UNCHANGED <<after, before, index, detected, breaks, deviceVars>>

\* _detect_chain: shift out three IDCODEs.
Detect ==
  /\ ~detected
  /\ Begin("detect", ResetTap \o ScanBits("shiftdr", Zeros(3 * IdLen), 0, 3 * IdLen))
  /\ UNCHANGED value

\* Mutant of Detected: off by one, on either side of the target.
DetectedOffByOne ==
  LET ids    == [k \in 0..2 |-> SubSeq(captured, k * IdLen + 1, (k + 1) * IdLen)]
      n      == Cardinality({k \in 0..2 : ids[k] # Zeros(IdLen)})
      tabled == ids[0] \in DOMAIN ChainTable
      out    == Override # NoOverride /\ Override >= n
      picks  == Override # NoOverride /\ ~out
      pos(v) == IF picks THEN Override ELSE IF tabled THEN ChainTable[ids[0]] ELSE v
  IN
  /\ session = "detect" /\ wire = <<>>
  /\ after' = pos(after)
  /\ before' = IF picks THEN n - Override ELSE IF tabled THEN 0 ELSE before
  /\ index' = pos(index)
  /\ session' = IF out THEN "failed" ELSE "none"
  /\ detected' = ~out
  /\ UNCHANGED <<state, value, result, sessions, breaks, wire, captured, deviceVars>>

\* _detect_chain, once the bits are back: the layout of the table, if it knows
\* the first IDCODE, then an explicit override.  The IDCODE-bearing TAPs are
\* counted from what was shifted out; a tap out of their range is a ValueError.
Detected ==
  LET ids    == [k \in 0..2 |-> SubSeq(captured, k * IdLen + 1, (k + 1) * IdLen)]
      n      == Cardinality({k \in 0..2 : ids[k] # Zeros(IdLen)})
      tabled == ids[0] \in DOMAIN ChainTable
      out    == Override # NoOverride /\ Override >= n
      picks  == Override # NoOverride /\ ~out
      pos(v) == IF picks THEN Override ELSE IF tabled THEN ChainTable[ids[0]] ELSE v
  IN
  /\ session = "detect" /\ wire = <<>>
  /\ after' = pos(after)
  /\ before' = IF picks THEN n - 1 - Override ELSE IF tabled THEN 0 ELSE before
  /\ index' = pos(index)
  /\ session' = IF out THEN "failed" ELSE "none"
  /\ detected' = ~out
  /\ UNCHANGED <<state, value, result, sessions, breaks, wire, captured, deviceVars>>

\* read_idcode: reset loads IDCODE everywhere, shift up to the target's.
ReadIdcode ==
  /\ detected
  /\ Begin("idcode", ResetTap \o ScanBits("shiftdr", Zeros((index + 1) * IdLen),
                                          0, (index + 1) * IdLen))
  /\ UNCHANGED value

\* A scan of the DMI as the slow path of dmi_read makes it, twice in a row: DMI
\* selected, the capture narrowed to the DMI word of the target, settled.
Access(word) ==
  /\ detected
  /\ value' = word
  /\ Begin("dmi", ResetTap \o ScanIr(DMI) \o ScanDrResp(word, DmiLen) \o Idle(1))

\* _recv: the captured bits are there, the field is sliced out.
Collect ==
  /\ session \in {"idcode", "dmi"} /\ wire = <<>>
  /\ session' = "none"
  /\ result' = IF session = "idcode"
               THEN SubSeq(captured, index * IdLen + 1, (index + 1) * IdLen)
               ELSE captured
  /\ UNCHANGED <<state, after, before, index, detected, value, sessions, breaks,
                 wire, captured, deviceVars>>

\* The bulk OUT transfer fails: the rest of the stream never reaches the device
\* and the call raises.  The host still believes the TAP is in Idle.
Break ==
  /\ wire # <<>>
  /\ breaks < MaxBreaks
  /\ breaks' = breaks + 1
  /\ wire' = <<>>
  /\ session' = "failed"
  /\ UNCHANGED <<state, after, before, index, detected, value, result, sessions,
                 captured, deviceVars>>

(***************************************************************************)
(* Device: one TCK                                                         *)
(***************************************************************************)
DrOf(t) ==
  CASE ir[t] = IDCODE -> IdCode(t)
    [] ir[t] = DMI    -> response
    [] OTHER          -> <<0>>

IrCapture(t) == [Zeros(IrLen) EXCEPT ![1] = 1]

\* Concatenation over the chain, TDO side first.
OverChain(parts) == FlattenSeq([i \in 1..NTaps |-> parts[i - 1]])

\* The part of the chain register that belongs to the DMI register of TAP t.
DmiPart(t, register) ==
  LET start == Len(FlattenSeq([i \in 1..t |-> DrOf(i - 1)]))
  IN  SubSeq(register, start + 1, start + DmiLen)

IrStates == {"capir", "shiftir", "e1ir", "pauseir", "e2ir", "upir"}

Tick ==
  LET nib == Head(wire)
      nxt == Clocked(tap, nib.tms)
  IN
  /\ wire # <<>>
  /\ wire' = Tail(wire)
  /\ tap' = nxt
  /\ chain' = CASE tap = "capdr" -> OverChain([t \in TapNo |-> DrOf(t)])
                [] tap = "capir" -> OverChain([t \in TapNo |-> IrCapture(t)])
                [] tap \in {"shiftdr", "shiftir"} -> Append(Tail(chain), nib.tdi)
                [] OTHER -> chain
  /\ captured' = IF nib.cap THEN Append(captured, chain[1]) ELSE captured
  /\ ir' = CASE nxt = "reset" -> [t \in TapNo |-> IDCODE]
             [] nxt = "upir" -> [t \in TapNo |-> SubSeq(chain', t * IrLen + 1, (t + 1) * IrLen)]
             [] OTHER -> ir
  /\ dmi' = [t \in TapNo |-> IF nxt = "updr" /\ ir[t] = DMI
                             THEN DmiPart(t, chain') ELSE dmi[t]]
  /\ UNCHANGED <<hostVars, board, response>>

Init ==
  /\ state = "reset" /\ after = 0 /\ before = 0 /\ index = 0 /\ detected = FALSE
  /\ session = "none" /\ value = Zeros(DmiLen) /\ wire = <<>>
  /\ captured = <<>> /\ result = <<>> /\ sessions = 0 /\ breaks = 0
  /\ board \in Boards
  /\ tap \in TapState
  /\ \E instr \in {BYPASS, IDCODE, DMI} : ir = [t \in TapNo |-> instr]
  /\ response \in Bits(DmiLen)
  /\ chain = IF tap \in IrStates THEN Zeros(NTaps * IrLen) ELSE OverChain([t \in TapNo |-> DrOf(t)])
  /\ dmi = [t \in TapNo |-> Zeros(DmiLen)]

Host == Detect \/ Detected \/ ReadIdcode \/ (\E w \in Bits(DmiLen) : Access(w)) \/ Collect

Next == Host \/ Break \/ Tick

Spec == Init /\ [][Next]_vars
-----------------------------------------------------------------------------
(***************************************************************************)
(* Properties                                                              *)
(***************************************************************************)
TypeOK ==
  /\ board \in Boards /\ state \in TapState /\ tap \in TapState
  /\ after \in 0..2 /\ before \in 0..2 /\ index \in 0..2
  /\ detected \in BOOLEAN
  /\ session \in {"none", "detect", "idcode", "dmi", "failed"}
  /\ value \in Bits(DmiLen) /\ response \in Bits(DmiLen)
  /\ wire \in Seq([tms : {0, 1}, tdi : {0, 1}, cap : BOOLEAN])
  /\ captured \in Seq({0, 1}) /\ chain \in Seq({0, 1})
  /\ ir \in [TapNo -> Bits(IrLen)]
  /\ dmi \in [TapNo -> Bits(DmiLen)]
  /\ sessions \in 0..MaxSessions /\ breaks \in 0..MaxBreaks

\* The chain the constants describe is one chips.py knows, or one the caller
\* selected a TAP of.
Known == Override # NoOverride
         \/ (NTaps = 1 /\ (IdCode(0) \in DOMAIN ChainTable => ChainTable[IdCode(0)] = 0))
         \/ (NTaps = 2 /\ IdCode(0) \in DOMAIN ChainTable /\ ChainTable[IdCode(0)] = 1)

Target == IF Override # NoOverride THEN Override
          ELSE IF NTaps = 1 THEN 0 ELSE ChainTable[IdCode(0)]

\* The tracked TAP state is the device's once a stream has been delivered, also
\* when the stream before it broke off in the middle of a scan: every session
\* opens with a walk that ends in Idle from any state.
TracksDevice == wire = <<>> /\ session \in {"detect", "idcode", "dmi"} => state = tap

\* Detection leaves exactly the target between the two groups of bypassed TAPs.
LayoutMatchesChain ==
  Known /\ detected => after + before + 1 = NTaps /\ after = Target /\ index = Target

\* A DMI access delivers its word to the target and brings back the target's
\* register, wherever the target sits on the chain; read_idcode brings back the
\* target's IDCODE, not the one of a TAP in front of it.
FieldIsTargets ==
  /\ Known /\ session = "dmi" /\ wire = <<>> => dmi[Target] = value /\ captured = response
  /\ Known /\ session = "idcode" /\ wire = <<>> =>
       SubSeq(captured, index * IdLen + 1, (index + 1) * IdLen) = IdCode(Target)

\* Unless a stream broke off, the DMI registers are only ever updated in the
\* target and with the word of the access in progress.  (The reset walk passes
\* through Update-DR: after a break it can update a half-shifted word.)
OnlyWholeWords ==
  [][Known /\ breaks = 0 /\ sessions > 0 /\ detected =>
       \A t \in TapNo : dmi'[t] # dmi[t] => t = Target /\ dmi'[t] = value]_vars
=============================================================================
