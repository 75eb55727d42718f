------------------------------ MODULE MCFrames ------------------------------
(* One of the three decoders of frames is driven, each with variables of     *)
(* its own.                                                                  *)
(*   "uart"  Eight bytes: 0 and 1 are ordinary, 2 to 4 are 0x5D to 0x5F, 5   *)
(*           to 7 are 0x7D to 0x7F.  The frames of the two messages fill the *)
(*           receive buffer and leave room in it.                            *)
(*   "at"    One byte that is no letter of the header; digits 1 and 2.       *)
(*           Frames: too short; with half a header in it; with a "-" in it;  *)
(*           as long as the length byte allows, with half a header.          *)
(*   "ble"   Packets with and without bytes to escape, sent whole or in two. *)
EXTENDS AtFrame

MCDigits == [d \in {"1", "2"} |-> IF d = "1" THEN 1 ELSE 2]
MCFrame == {<<"A", "T", "-", ",", ",">>,
            <<"A", "T", "-", "x", ",", "2", ",", "x", "A">>,
            <<"A", "T", "-", ",", "2", ",", "-", ",">>,
            <<"A", "T", "-", "x", "x", "x", "x", ",", "2", ",", "A", "T">>}

CONSTANTS ByteMod, FRAME_HEAD, FRAME_TAIL, uart_Esc, SubHead, SubTail, uart_SubEsc, TableLo, TableHi,
          BuffLen, Message,
          Flag, Esc, SubFlag, SubEsc, HeadLen, AttrAt, SingleBytes, TempLen, Packet

MCTableLo == [t \in 0 .. 7 |-> (3 * t) % 8]
MCTableHi == [t \in 0 .. 7 |-> (5 * t) % 8]
MCMessage == {<<1>>, <<5, 6>>}
MCPacket == {<<1, 1, 3>>, <<0, 6, 7, 1, 2>>}

VARIABLES kind,
  e_status, recv, decoded, u32_len, uart_ret, uart_wire, uart_current, uart_intact, full, uart_faults,
  index, tempbuf, dk_ret, output, wild, packet, dk_wire, risky, dk_faults

Uart == INSTANCE UartProtocol WITH
  Esc <- uart_Esc, SubEsc <- uart_SubEsc,
  ret <- uart_ret, wire <- uart_wire, current <- uart_current, intact <- uart_intact,
  faults <- uart_faults

ASSUME UartFits == Uart!UartAssumption /\ Uart!FramesFit

Ble == INSTANCE DkProtocol WITH ret <- dk_ret, wire <- dk_wire, faults <- dk_faults

ASSUME BleFits == Ble!DkAssumption

uart == <<e_status, recv, decoded, u32_len, uart_ret, uart_wire, uart_current, uart_intact, full,
          uart_faults>>
ble == <<index, tempbuf, dk_ret, output, wild, packet, dk_wire, risky, dk_faults>>

MCInit == kind \in {"uart", "at", "ble"} /\ Uart!Init /\ Init /\ Ble!Init

UartDriven == kind = "uart" /\ Uart!Next /\ UNCHANGED <<kind, vars, ble>>
AtDriven == kind = "at" /\ Next /\ UNCHANGED <<kind, uart, ble>>
BleDriven == kind = "ble" /\ Ble!Next /\ UNCHANGED <<kind, uart, vars>>

MCNext == UartDriven \/ AtDriven \/ BleDriven

ASSUME AtFits == FramesAreFrames

MCSpec == MCInit /\ [][MCNext]_<<kind, uart, vars, ble>>

-----------------------------------------------------------------------------
(* UART: a frame whose bytes all arrive is decoded (uart_protocol.c:75).     *)
IntactFrameRecovers == Uart!IntactFrameRecovers

(* BLE: the buffer is overrun only after a fault, or a packet in one piece   *)
(* or too long (dk_protocol.c:198).                                         *)
OverrunHasACause == Ble!OverrunHasACause

(* BLE: "If there is no fragmentation, parse directly; if there is, several  *)
(* calls assemble the whole packet" (dk_protocol.c:153-154).                 *)
PacketIsAssembled == Ble!PacketIsAssembled
=============================================================================
