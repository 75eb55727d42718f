----------------------------- MODULE DkProtocol -----------------------------
(***************************************************************************)
(* dk_protocol.c: packets between two 0x7E flags, with 0x7D escapes and an *)
(* exclusive-or check code, that arrive over BLE in fragments.             *)
(*                                                                         *)
(* ingeek_combine_ble_msg keeps a fill level and a buffer from one call to *)
(* the next.  The level is a uint8_t and the buffer has 256 bytes; both    *)
(* are TempLen here.  A fragment is copied at the level it brings about,   *)
(* not at the one it finds, which leaves a gap of its length before it.    *)
(***************************************************************************)
EXTENDS Naturals, Sequences, SequencesExt

CONSTANTS Flag, Esc, SubFlag, SubEsc,   \* 0x7E, 0x7D, 0x5E, 0x5D
          HeadLen,     \* sizeof(MSG_HEAD), 6 in the code
          AttrAt,      \* where the first HeadLen bytes of a fragment hold bit 10 of msg_attr
          SingleBytes, \* the bytes there that have it set
          TempLen,     \* BUFF_MAXLEN
          Packet,      \* header and body of the packets the application sends
          MaxFaults    \* bound on the fragments lost or repeated

\* What an instance has to respect.
DkAssumption ==
  /\ HeadLen \in Nat /\ TempLen \in Nat \ {0}
  /\ Flag \notin {Esc, SubFlag, SubEsc}
  /\ Packet \subseteq Seq(0 .. 255)

VARIABLES index, tempbuf,   \* the static variables of the file; tempbuf[1] is tempbuf[0]
          ret, output,      \* what the last call returned and wrote
          wild,             \* a call went out of bounds: nothing is known from then on
          packet, wire,     \* the packet under way, and its fragments still to come
          risky,            \* history: since power-up a packet was sent in one piece, or too long
          faults            \* history: fragments lost or repeated

decoder == <<index, tempbuf, ret, output, wild>>
vars == <<decoder, packet, wire, risky, faults>>

Place == 1 .. TempLen

Init ==
  /\ index = 0 /\ tempbuf = [i \in Place |-> 0]
  /\ ret = "none" /\ output = <<>> /\ wild = FALSE
  /\ packet = <<>> /\ wire = <<>> /\ risky = FALSE /\ faults = 0

-----------------------------------------------------------------------------
(* Escapes; code.c has a copy of both functions *)

\* Exclusive or: a bit of the sum is set if an odd number of the bytes have it.
check_sum(s) ==
  LET Odd(i) == Cardinality({k \in DOMAIN s : (s[k] \div 2^i) % 2 = 1}) % 2 = 1
  IN SumSet({2^i : i \in {j \in 0 .. 7 : Odd(j)}})

EscapeOne(b) ==
  IF b = Flag THEN <<Esc, SubFlag>> ELSE IF b = Esc THEN <<Esc, SubEsc>> ELSE <<b>>

Escape_frame_data(s) ==
  <<Flag>> \o FlattenSeq([i \in DOMAIN s |-> EscapeOne(s[i])]) \o <<Flag>>

\* An unknown escape stores nothing; the caller's buffer is taken to hold 0.
Unescaped(b) == IF b = SubFlag THEN Flag ELSE IF b = SubEsc THEN Esc ELSE 0

\* Between the flags of s, whatever they are; a last Esc takes the closing flag for its code.
Reduction_frame_data(s) ==
  LET Step(r, i) ==
        IF r.skip THEN [r EXCEPT !.skip = FALSE]
        ELSE IF s[i] = Esc THEN [skip |-> TRUE, out |-> Append(r.out, Unescaped(s[i + 1]))]
        ELSE [r EXCEPT !.out = Append(@, s[i])]
  IN FoldLeft(Step, [skip |-> FALSE, out |-> <<>>], [i \in 1 .. Len(s) - 2 |-> i + 1]).out

\* A wrapped index of 0 or 1 has no two flags: input[-1] is read, or (ilen-2) runs through 2^32.
Get_frame_msg(s) ==
  IF Len(s) = 0 \/ s = <<Flag>> THEN [ret |-> "wild", out |-> <<>>]
  ELSE IF s[1] # Flag \/ s[Len(s)] # Flag THEN [ret |-> "Flag_error", out |-> <<>>]
  ELSE IF Len(s) = 2 THEN [ret |-> "InvalidArgument", out |-> <<>>]
  ELSE LET all  == Reduction_frame_data(s)
           body == Front(all)
       IN [ret |-> IF Last(all) = check_sum(body) THEN "Success" ELSE "Checkcode_error",
           out |-> body]

-----------------------------------------------------------------------------
(* ingeek_combine_ble_msg *)

\* GET_MSG_BIT(msg_attr, 10) masks the bit and leaves it in its place.
GET_MSG_BIT(f) == IF f[AttrAt] \in SingleBytes THEN 1024 ELSE 0

\* memcpy(tempbuf + at, f)
Store(at, f) ==
  LET places == (at + 1) .. (at + Len(f))
  IN /\ tempbuf' = [i \in Place |-> IF i \in places THEN f[i - at] ELSE tempbuf[i]]
     /\ wild' = (at + Len(f) > TempLen)

\* Mutant: only a packet that is accepted resets the index.
IndexKeptOnError(r, n) == IF r.ret = "Success" THEN 0 ELSE n

\* Success and errors alike.
IndexAfter(r, n) == 0

Parsed(s) ==
  LET r == Get_frame_msg(s)
  IN ret' = r.ret /\ output' = r.out /\ index' = IndexAfter(r, Len(s))

TooShort(f) ==
  /\ Len(f) <= HeadLen + 1
  /\ ret' = "Invalidlen"
  /\ UNCHANGED <<index, tempbuf, output, wild>>

\* A fragment that begins with a flag is parsed at once, or stored at the level found.
HeadFragment(f) ==
  /\ Len(f) > HeadLen + 1 /\ f[1] = Flag
  /\ IF GET_MSG_BIT(f) = 1
     THEN Parsed(f) /\ UNCHANGED <<tempbuf, wild>>
     ELSE /\ Store(index, f)
          /\ index' = (index + Len(f)) % TempLen
          /\ ret' = "More_data"
          /\ UNCHANGED output

Level(f) == (index + Len(f)) % TempLen

\* Any other.  The level is a uint8_t and never exceeds sizeof(tempbuf): no Overflow.
NextFragment(f) ==
  /\ Len(f) > HeadLen + 1 /\ f[1] # Flag
  /\ Store(Level(f), f)
  /\ LET n == (index + Len(f)) % TempLen
     IN IF Last(f) = Flag
        THEN Parsed(SubSeq(tempbuf', 1, n))
        ELSE index' = n /\ ret' = "More_data" /\ UNCHANGED output

Combine(f) == ~wild /\ (TooShort(f) \/ HeadFragment(f) \/ NextFragment(f))

-----------------------------------------------------------------------------
(* The application, and the BLE link.  A packet goes out whole or in two.    *)

Framed(p) == Escape_frame_data(Append(p, check_sum(p)))

Cuts(s) ==
  {<<s>>} \cup {<<SubSeq(s, 1, n), SubSeq(s, n + 1, Len(s))>> : n \in (HeadLen + 2) .. (Len(s) - HeadLen - 2)}

\* There is room for the second fragment behind the packet, where it is copied.
Fits(w) == Len(w) = 2 /\ Len(w[1]) + 2 * Len(w[2]) <= TempLen

Send(p) ==
  /\ wire = <<>>
  /\ packet' = p
  /\ wire' \in Cuts(Framed(p))
  /\ risky' = (risky \/ ~Fits(wire'))
  /\ UNCHANGED <<decoder, faults>>

Arrive ==
  /\ wire # <<>>
  /\ Combine(wire[1])
  /\ wire' = Tail(wire)
  /\ UNCHANGED <<packet, risky, faults>>

Lose ==
  /\ wire # <<>> /\ faults < MaxFaults
  /\ faults' = faults + 1
  /\ wire' = Tail(wire)
  /\ UNCHANGED <<decoder, packet, risky>>

Repeat ==
  /\ wire # <<>> /\ faults < MaxFaults
  /\ faults' = faults + 1
  /\ Combine(wire[1])
  /\ UNCHANGED <<packet, wire, risky>>

\* A caller's NULL pointer gives up what was collected.
Abandon ==
  /\ index > 0 /\ ~wild
  /\ index' = 0 /\ ret' = "InvalidArgument"
  /\ UNCHANGED <<tempbuf, output, wild, packet, wire, risky, faults>>

\* Power off and on again, in the middle of a packet or not.
Restart ==
  /\ index' = 0 /\ tempbuf' = [i \in Place |-> 0]
  /\ ret' = "none" /\ output' = <<>> /\ wild' = FALSE
  /\ packet' = <<>> /\ wire' = <<>> /\ risky' = FALSE
  /\ UNCHANGED faults

Next == (\E p \in Packet : Send(p)) \/ Arrive \/ Lose \/ Repeat \/ Abandon \/ Restart

Spec == Init /\ [][Next]_vars

-----------------------------------------------------------------------------
TypeOK ==
  /\ index \in 0 .. TempLen - 1
  /\ DOMAIN tempbuf = Place
  /\ ret \in {"none", "More_data", "Success", "Flag_error", "Checkcode_error", "InvalidArgument",
               "Invalidlen", "wild"}

(* Packets sent in two fragments that both arrive once never make a copy run *)
(* past the end of the buffer, however many there are, as long as there is   *)
(* room for the second once more behind the packet: the call with it brings  *)
(* the index back to 0, although it delivers nothing.                        *)
OverrunHasACause == wild => risky \/ faults > 0

(* "If there is no fragmentation, parse directly; if there is, several calls *)
(* assemble the whole packet" (153-154): when nothing was lost or repeated,  *)
(* the call with the last fragment of the first packet delivers it.          *)
PacketIsAssembled ==
  faults = 0 /\ packet # <<>> /\ wire = <<>> /\ ret # "InvalidArgument" =>
    ret = "Success" /\ output = packet
=============================================================================
