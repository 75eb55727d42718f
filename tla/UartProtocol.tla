---------------------------- MODULE UartProtocol ----------------------------
(***************************************************************************)
(* uart_protocol.c and convert.c: frames between 0x7E and 0x7F, with 0x7D  *)
(* escapes and a CRC, encoded whole and decoded byte by byte, over a       *)
(* serial line that loses, garbles and makes up bytes.                     *)
(*                                                                         *)
(* Bytes are 0 .. ByteMod - 1.  The CRC is table driven as in crc16.c; the *)
(* exclusive or is replaced by addition and subtraction modulo ByteMod,    *)
(* which keep what the protocol relies on: a message followed by its own   *)
(* CRC has CRC zero.                                                       *)
(***************************************************************************)
EXTENDS Integers, Sequences, SequencesExt

CONSTANTS ByteMod,           \* 256 in the code
          FRAME_HEAD, FRAME_TAIL, Esc,      \* 0x7E, 0x7F, 0x7D
          SubHead, SubTail, SubEsc,   \* what follows an Esc: 0x5E, 0x5F, 0x5D
          TableLo, TableHi,  \* CRC16_TABLE_CCITT, its low and high bytes
          BuffLen,           \* 2 * MAX_PROTOCOL_LEN
          Message,           \* what the sender encodes
          MaxFaults          \* bound on the faults of the line

Byte == 0 .. ByteMod - 1

\* What an instance has to respect.
UartAssumption ==
  /\ ByteMod \in Nat \ {0}
  /\ {FRAME_HEAD, FRAME_TAIL, Esc, SubHead, SubTail, SubEsc} \subseteq Byte
  /\ FRAME_HEAD # FRAME_TAIL /\ {Esc, SubHead, SubTail, SubEsc} \cap {FRAME_HEAD, FRAME_TAIL} = {}
  /\ SubHead # SubTail /\ SubHead # SubEsc /\ SubTail # SubEsc
  /\ TableLo \in [Byte -> Byte] /\ TableHi \in [Byte -> Byte]
  /\ TableLo[0] = 0 /\ TableHi[0] = 0
  /\ BuffLen \in Nat \ {0} /\ MaxFaults \in Nat
  /\ Message \subseteq Seq(Byte) \ {<<>>}

VARIABLES e_status, recv,    \* s_uart_recv: its status, and the bytes in its buffer
          decoded, u32_len,  \* s_uart_recv_decoded: the buffer, stale bytes and all, and its length
          ret,               \* what the last call of ..._decode returned
          wire,              \* what is still to come of the frame under way
          current,           \* the message of that frame, <<>> before the first
          intact,            \* no fault since the frame began
          full,              \* the frame began with the receive buffer exactly full
          faults

decoder == <<e_status, recv, decoded, u32_len, ret>>
vars == <<decoder, wire, current, intact, full, faults>>

Init ==
  /\ e_status = "INIT" /\ recv = <<>>
  /\ decoded = [i \in 1 .. BuffLen |-> 0] /\ u32_len = 0 /\ ret = 0
  /\ wire = <<>> /\ current = <<>> /\ intact = FALSE /\ full = FALSE /\ faults = 0

-----------------------------------------------------------------------------
(* crc16_cal_ccitt_table: result is <<low byte, high byte>> *)

CrcStep(r, b) ==
  LET t == (b - r[1]) % ByteMod IN <<(r[2] + TableLo[t]) % ByteMod, TableHi[t]>>

Crc(s) ==
  LET crc[i \in 0 .. Len(s)] == IF i = 0 THEN <<0, 0>> ELSE CrcStep(crc[i - 1], s[i])
  IN crc[Len(s)]

(* convert.c *)

EscapeOne(b) ==
  IF b = FRAME_HEAD THEN <<Esc, SubHead>>
  ELSE IF b = FRAME_TAIL THEN <<Esc, SubTail>>
  ELSE IF b = Esc THEN <<Esc, SubEsc>>
  ELSE <<b>>

Escape_frame_data(s) == FlattenSeq([i \in DOMAIN s |-> EscapeOne(s[i])])

\* out with byte b after an escape undone at place i; no known byte, no store.
Unescaped(out, i, b) ==
  IF b = SubHead THEN [out EXCEPT ![i] = FRAME_HEAD]
  ELSE IF b = SubTail THEN [out EXCEPT ![i] = FRAME_TAIL]
  ELSE IF b = SubEsc THEN [out EXCEPT ![i] = Esc]
  ELSE out

\* The turn of the loop for byte i of s: r.len bytes are in r.out, and r.skip if i is a code.
Reduced(s, r, i) ==
  IF r.skip THEN [r EXCEPT !.skip = FALSE]
  ELSE IF s[i] = Esc
    THEN [skip |-> TRUE, len |-> r.len + 1, out |-> Unescaped(r.out, r.len + 1, s[i + 1])]
    ELSE [skip |-> FALSE, len |-> r.len + 1, out |-> [r.out EXCEPT ![r.len + 1] = s[i]]]

\* The first ilen bytes of s, which goes on after them, un-escaped into the buffer out.
Reduction_frame_data(s, ilen, out) ==
  LET turn[i \in 0 .. ilen] ==
        IF i = 0 THEN [skip |-> FALSE, len |-> 0, out |-> out] ELSE Reduced(s, turn[i - 1], i)
  IN turn[ilen]

(* ingeek_uart_protocol_encode *)
Encode(m) == <<FRAME_HEAD>> \o Escape_frame_data(m \o Crc(m)) \o <<FRAME_TAIL>>

\* The frames sent have room in the receive buffer.
FramesFit == \A m \in Message : Len(Encode(m)) <= BuffLen

-----------------------------------------------------------------------------
(* ingeek_uart_protocol_decode, called for every byte received *)

\* A tail: un-escape, then check.  (ilen - 2) <= 0 is unsigned: only a length of 2 is refused.
Complete(bytes) ==
  LET ilen == Len(bytes) - 2
      r    == Reduction_frame_data(SubSeq(bytes, 2, Len(bytes)), ilen, decoded)
  IN /\ e_status' = "INIT" /\ recv' = <<>>
     /\ \/ ilen = 2 /\ ret' = 3 /\ UNCHANGED <<decoded, u32_len>>
        \/ /\ ilen # 2
           /\ decoded' = r.out /\ u32_len' = r.len
           /\ ret' = IF Crc(SubSeq(r.out, 1, r.len)) = <<0, 0>> THEN 1 ELSE 0

\* Mutant: a second head does not start the frame anew.
StoreKeeps(b) ==
  IF b = FRAME_TAIL THEN Complete(Append(recv, b))
  ELSE /\ recv' = Append(recv, b)
       /\ ret' = 0
       /\ UNCHANGED <<e_status, decoded, u32_len>>

Store(b) ==
  IF b = FRAME_TAIL THEN Complete(Append(recv, b))
  ELSE /\ recv' = IF b = FRAME_HEAD THEN <<FRAME_HEAD>> ELSE Append(recv, b)
       /\ ret' = 0
       /\ UNCHANGED <<e_status, decoded, u32_len>>

Room == Len(recv) < BuffLen

Decode(b) ==
  \/ /\ e_status = "INIT"
     /\ e_status' = IF b = FRAME_HEAD THEN "HEAD" ELSE "INIT"
     /\ recv' = IF b = FRAME_HEAD THEN <<FRAME_HEAD>> ELSE recv
     /\ ret' = 0
     /\ UNCHANGED <<decoded, u32_len>>
  \/ e_status = "HEAD" /\ Room /\ Store(b)
  \/ /\ e_status = "HEAD" /\ ~Room
     /\ e_status' = "INIT" /\ recv' = <<>> /\ ret' = 0   \* b is dropped, whatever it is
     /\ UNCHANGED <<decoded, u32_len>>

-----------------------------------------------------------------------------
(* The sender and the line *)

SendFrame(m) ==
  /\ wire = <<>>
  /\ wire' = Encode(m) /\ current' = m /\ intact' = TRUE
  /\ full' = (Len(recv) = BuffLen)
  /\ UNCHANGED <<decoder, faults>>

Arrive ==
  /\ wire # <<>>
  /\ Decode(wire[1])
  /\ wire' = SubSeq(wire, 2, Len(wire))
  /\ UNCHANGED <<current, intact, full, faults>>

Fault ==
  /\ faults < MaxFaults /\ faults' = faults + 1
  /\ intact' = FALSE
  /\ UNCHANGED <<current, full>>

Lose ==
  /\ Fault /\ wire # <<>>
  /\ wire' = SubSeq(wire, 2, Len(wire))
  /\ UNCHANGED decoder

Garble(b) ==
  /\ Fault /\ wire # <<>>
  /\ Decode(b)
  /\ wire' = SubSeq(wire, 2, Len(wire))

Noise(b) ==
  /\ Fault
  /\ Decode(b)
  /\ UNCHANGED wire

Next ==
  \/ \E m \in Message : SendFrame(m)
  \/ Arrive \/ Lose
  \/ \E b \in Byte : Garble(b) \/ Noise(b)

Spec == Init /\ [][Next]_vars

-----------------------------------------------------------------------------
TypeOK ==
  /\ e_status \in {"INIT", "HEAD"}
  /\ recv \in Seq(Byte) /\ Len(recv) <= BuffLen
  /\ e_status = "HEAD" => recv # <<>> /\ recv[1] = FRAME_HEAD
  /\ decoded \in [1 .. BuffLen -> Byte] /\ u32_len \in 0 .. BuffLen
  /\ ret \in 0 .. 3
  /\ wire \in Seq(Byte) /\ intact \in BOOLEAN /\ full \in BOOLEAN /\ faults \in 0 .. MaxFaults

Output == SubSeq(decoded, 1, u32_len)

Arrived == ret = 1 /\ Output = current \o Crc(current)

(* A frame whose own bytes all arrive is decoded, to its message and CRC,    *)
(* whatever the line did before it: the decoder always finds its way back.   *)
(* The one exception is a frame that begins when the buffer is exactly full. *)
IntactFrameRecovers == intact /\ wire = <<>> /\ ~full => Arrived
=============================================================================
