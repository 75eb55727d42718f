------------------------------ MODULE AtFrame -------------------------------
(***************************************************************************)
(* at_code.c: AT frames, "AT-...,<length>,<data>", taken byte by byte from *)
(* a FIFO.                                                                 *)
(*                                                                         *)
(* MslFrameCapture looks for the header in every byte, those of a frame    *)
(* under way included.  It takes the length between the first two commas,  *)
(* and gives a frame up when a byte finds it older than two ticks of the   *)
(* clock, but only after that byte has been stored.                        *)
(***************************************************************************)
EXTENDS AtPacket

CONSTANTS Text,        \* the bytes that are neither digits nor one of A T - ,
          MinCnt,      \* 16: no frame is complete before it has more bytes
          MaxCnt,      \* 240: a frame with more bytes is given up
          Frame,       \* what is sent
          MaxFaults    \* bound on the bytes lost or made up by the line

Byte == {"A", "T", "-", Comma} \cup Text \cup DOMAIN Digits

\* A frame has room in its buffer, and its length in a byte.
ASSUME FrameAssumption ==
  /\ CntMod \in Nat /\ NUM_LENTH \in Nat /\ MinCnt \in Nat
  /\ MaxCnt \in 3 .. CntMod - 2
  /\ Comma \notin DOMAIN Digits
  /\ Frame \subseteq Seq(Byte)

Nul == "nul"                        \* a cleared byte
FrameSize == CntMod - 1             \* of gUartFrame
MaxAge == 3                         \* older frames are treated alike; the wrap of the clock is left out

VARIABLES sFlagHeader, sRxCnt, sUartRecStartFlg, sCommaCount, pFristComma,  \* static variables
          age,                      \* OSIF_GetMilliseconds() - sLastReceiT, up to MaxAge
          gUartFrame, gUartFrameLen,
          FlagResult,               \* what the last call returned
          wire, current, intact,    \* the frame under way: its bytes to come, all, no fault since it began
          late,                     \* history: bytes that found the frame too old since its header
          faults

capture == <<sFlagHeader, sRxCnt, sUartRecStartFlg, sCommaCount, pFristComma, gUartFrame,
             gUartFrameLen, FlagResult, late>>
line == <<wire, current, intact, faults>>
vars == <<capture, age, line>>

Cleared == [i \in 1 .. FrameSize |-> Nul]

Init ==
  /\ sFlagHeader = 0 /\ sRxCnt = 0 /\ sUartRecStartFlg = FALSE
  /\ sCommaCount = 0 /\ pFristComma = 0
  /\ age = 0 /\ gUartFrame = Cleared /\ gUartFrameLen = 0 /\ FlagResult = FALSE
  /\ wire = <<>> /\ current = <<>> /\ intact = FALSE /\ late = 0 /\ faults = 0

-----------------------------------------------------------------------------
(* MslFrameCapture *)

\* Mutants: the length leaves out the comma; a new header keeps the commas counted.
LengthShort(s, cnt) == {(cnt - 1 + v) % CntMod : v \in Values(s, 0)}
CommasKept(n) == n

\* gUartFrameLen once the second comma is the byte number cnt.
Length(s, cnt) == {(cnt + v) % CntMod : v \in Values(s, 0)}
CommasAtHeader(n) == 0

\* Mutant: every byte restarts the clock.
AgeOfFrame == 0

Age == age

\* A byte of a frame under way is stored, and counted if it is a comma.
Stored(b) ==
  LET cnt   == sRxCnt + 1
      frame == [gUartFrame EXCEPT ![cnt] = b]
      comma == sCommaCount + 1
  IN [frame : {frame}, cnt : {cnt},
      commas : {IF b = Comma THEN comma ELSE sCommaCount},
      first  : {IF b = Comma /\ comma = 1 THEN cnt ELSE pFristComma},
      len    : IF b = Comma /\ comma = 2
               THEN Length(SubSeq(frame, pFristComma + 1, FrameSize), cnt)
               ELSE {gUartFrameLen}]

Kept == [frame |-> gUartFrame, cnt |-> sRxCnt, commas |-> sCommaCount, first |-> pFristComma,
         len |-> gUartFrameLen]

\* r is the frame with the byte b: done if its length is reached, anew if b ends a header.
Header(b) == b = "-" /\ sFlagHeader = 2

Taken(b, r) ==
  LET done == sUartRecStartFlg /\ r.cnt > MinCnt /\ r.cnt = r.len
      aged == IF Header(b) THEN 0 ELSE Age
      cnt  == IF Header(b) THEN 3 ELSE r.cnt
  IN /\ FlagResult' = done
     /\ sFlagHeader' = CASE b = "A" -> 1
                         [] b = "T" -> IF sFlagHeader = 1 THEN 2 ELSE 0
                         [] b = "-" -> 0
                         [] OTHER   -> sFlagHeader
     /\ gUartFrame' = IF Header(b) THEN [Cleared EXCEPT ![1] = "A", ![2] = "T", ![3] = "-"]
                      ELSE r.frame
     /\ gUartFrameLen' = IF Header(b) THEN 0 ELSE r.len
     /\ sCommaCount' = IF Header(b) THEN CommasAtHeader(r.commas) ELSE r.commas
     /\ pFristComma' = r.first
     /\ sRxCnt' = cnt /\ age' = IF Header(b) THEN 0 ELSE age
     /\ sUartRecStartFlg' = /\ Header(b) \/ (sUartRecStartFlg /\ ~done)
                            /\ cnt <= MaxCnt /\ aged <= 2
     /\ late' = IF Header(b) THEN 0
                ELSE IF sUartRecStartFlg /\ age > 2 THEN late + 1 ELSE late

MslFrameCapture(b) ==
  \/ sUartRecStartFlg /\ \E r \in Stored(b) : Taken(b, r)
  \/ ~sUartRecStartFlg /\ Taken(b, Kept)

-----------------------------------------------------------------------------
(* The other end, the line and the clock *)

Send(f) ==
  /\ wire = <<>>
  /\ wire' = f /\ current' = f /\ intact' = TRUE
  /\ UNCHANGED <<capture, age, faults>>

Arrive ==
  /\ wire # <<>>
  /\ MslFrameCapture(wire[1])
  /\ wire' = Tail(wire)
  /\ UNCHANGED <<current, intact, faults>>

Lose ==
  /\ wire # <<>> /\ faults < MaxFaults
  /\ faults' = faults + 1 /\ intact' = FALSE
  /\ wire' = Tail(wire)
  /\ UNCHANGED <<capture, age, current>>

Noise(b) ==
  /\ faults < MaxFaults
  /\ faults' = faults + 1 /\ intact' = FALSE
  /\ MslFrameCapture(b)
  /\ UNCHANGED <<wire, current>>

Tick ==
  /\ age < MaxAge
  /\ age' = age + 1
  /\ UNCHANGED <<capture, line>>

Next ==
  \/ \E f \in Frame : Send(f)
  \/ Arrive \/ Lose \/ Tick
  \/ \E b \in Byte : Noise(b)

Spec == Init /\ [][Next]_vars

-----------------------------------------------------------------------------
TypeOK ==
  /\ sFlagHeader \in 0 .. 2 /\ sRxCnt \in 0 .. MaxCnt + 1
  /\ sUartRecStartFlg \in BOOLEAN /\ FlagResult \in BOOLEAN
  /\ sCommaCount \in 0 .. MaxCnt /\ pFristComma \in 0 .. MaxCnt + 1
  /\ sUartRecStartFlg => sRxCnt <= MaxCnt
  /\ gUartFrame \in [1 .. FrameSize -> Byte \cup {Nul}] /\ gUartFrameLen \in 0 .. CntMod - 1
  /\ age \in 0 .. MaxAge

\* A frame: the number between its first two commas counts the bytes behind the second one.
IsFrame(f) ==
  /\ Len(f) \in 3 .. MaxCnt + 1
  /\ f[1] = "A" /\ f[2] = "T" /\ f[3] = "-"
  /\ \E i, j \in 4 .. Len(f) :
       /\ i < j /\ f[i] = Comma /\ f[j] = Comma
       /\ \A k \in 4 .. j - 1 : f[k] = Comma => k = i
       /\ Values(SubSeq(f, i + 1, j), 0) = {Len(f) - j}

FramesAreFrames == \A f \in Frame : IsFrame(f)

\* The matcher looks at these only, and expects them in this order.
HeaderBytes == {"A", "T", "-"}

\* After its header, f has no A, T and - with others than these between them.
NoHeaderInside(f) ==
  ~ \E i, j, k \in 4 .. Len(f) :
      /\ i < j /\ j < k
      /\ f[i] = "A" /\ f[j] = "T" /\ f[k] = "-"
      /\ \A l \in i .. k : f[l] \in HeaderBytes => l \in {i, j, k}

(* A frame whose bytes all arrive, in time, is captured as it was sent,      *)
(* whatever came before it: half a frame, a header, noise.  Not so if it is  *)
(* too short, or holds a header itself.                                      *)
IntactFrameIsCaptured ==
  intact /\ wire = <<>> /\ late = 0 /\ NoHeaderInside(current) /\ Len(current) > MinCnt =>
    /\ FlagResult
    /\ SubSeq(gUartFrame, 1, gUartFrameLen) = current

(* A frame is given up once it is older than two ticks (109).  The byte that *)
(* finds it so is still taken, and may complete it: of a frame that is       *)
(* delivered, the last byte may be late, whatever its delay, and no other.   *)
OnlyTheLastIsLate == FlagResult => late <= 1

(* What is reported as a frame is one: the bytes counted are those the       *)
(* length announces after the second comma.  A last byte that ends a header  *)
(* is reported too, but has cleared the frame it completes.                  *)
ReportedIsWellFormed ==
  FlagResult /\ ~sUartRecStartFlg =>
    LET commas == {i \in 1 .. gUartFrameLen : gUartFrame[i] = Comma}
    IN \E i, j \in commas :
         /\ i < j /\ \A k \in commas : k = i \/ k >= j
         /\ \E v \in Values(SubSeq(gUartFrame, i + 1, j), 0) : gUartFrameLen = j + v
=============================================================================
