------------------------------ MODULE T1Reader ------------------------------
(***************************************************************************)
(* proto-t1.c: the reader's half of the ISO 7816-3 block protocol T=1,     *)
(* against a card that may answer anything.                                *)
(*                                                                         *)
(* A call of t1_transceive sends the APDU of snd_buf as a chain of         *)
(* I-blocks, each acknowledged by an R-block, and collects the chain the   *)
(* card answers with.  Reader and card alternate: line holds the block     *)
(* under way, turn says who reads it next.  Every "continue" and "break"   *)
(* of the loop is one action, from the block received to the block built.  *)
(*                                                                         *)
(* Lengths count units of data, not bytes.  The NAD, the checksum value    *)
(* and the PCB's bits are replaced by what the code decodes from them.     *)
(***************************************************************************)
EXTENDS Integers, Sequences

CONSTANTS Unit,        \* units of data in the I-blocks of the card
          Apdu,        \* the non-empty commands the host may send
          RcvLen,      \* rcv_len: room for the answer
          MaxLen,      \* longest I-block the card sends
          MaxIfs,      \* largest information field size a card asks for
          DefaultIfsc, \* 32 in the code
          RcBytes,     \* length of the checksum: 1 (LRC) or 2 (CRC)
          UIntMod      \* 2^32 in C: retries is an unsigned int

ASSUME ReaderAssumption ==
  /\ RcvLen \in Nat /\ MaxLen \in Nat
  /\ MaxIfs \in Nat \ {0}
  /\ DefaultIfsc \in 1 .. MaxIfs
  /\ RcBytes \in {1, 2}
  /\ UIntMod \in Nat /\ UIntMod > 3
  /\ Apdu \subseteq Seq(Unit) \ {<<>>}

MaxRetries == 3
MaxResyncs == 3

\* t1_set_defaults, for what the model keeps
Bit == {0, 1}
\* Mutant: the toggle without its mask.
FlipUnmasked(b) == b + 1
Flip(b) == 1 - b

(* Blocks.  ok is FALSE for what the handler of the block's type calls       *)
(* illegal: an R-block with data or bit 6, an S-request of the wrong length. *)
IBlock == [type : {"I"}, seq : Bit, more : BOOLEAN, data : UNION {[1 .. n -> Unit] : n \in 0 .. MaxLen}]
RBlock == [type : {"R"}, seq : Bit, err : {"none", "edc", "other"}, ok : BOOLEAN]
SKind == {"resync", "ifs", "abort", "wtx", "unknown"}
SBlock == [type : {"S"}, kind : SKind, resp : BOOLEAN, val : 0 .. MaxIfs, ok : BOOLEAN]

(* What t1_xcv can come back with instead of a block: the CCID layer fails   *)
(* (-1), a parity error (-2), a bad NAD or length, a bad checksum.           *)
Fault == [type : {"failure", "parity", "header", "checksum"}]

R(seq, err) == [type |-> "R", seq |-> seq, err |-> err, ok |-> TRUE]
S(kind, resp, val) == [type |-> "S", kind |-> kind, resp |-> resp, val |-> val, ok |-> TRUE]
Truncated == [type |-> "truncated"]   \* a block sent without its last checksum byte

VARIABLES state, ns, nr, ifsc, more, previous,   \* t1_state_t
          snd, head, last_send,                  \* sbuf: the APDU, sbuf.head, the last I-block's length
          rbuf,                                  \* rbuf, as the units stored
          retries, resyncs,
          result,                                \* of the last call of t1_transceive
          turn, line

t1 == <<state, ns, nr, ifsc, more, previous>>
vars == <<t1, snd, head, last_send, rbuf, retries, resyncs, result, turn, line>>

NoBlock == [type |-> "none"]

Init ==   \* t1_init
  /\ state = "SENDING" /\ ns = 0 /\ nr = 0 /\ more = FALSE
  /\ ifsc = DefaultIfsc
  /\ previous = NoBlock
  /\ snd = <<>> /\ head = 0 /\ last_send = 0
  /\ rbuf = <<>>
  /\ retries = MaxRetries /\ resyncs = MaxResyncs
  /\ result = "none"
  /\ turn = "host" /\ line = NoBlock

-----------------------------------------------------------------------------
(* t1_build and t1_rebuild: the block to send, and what is kept of it *)

Transmit(b) == line' = b /\ turn' = "card"

\* Mutant: an R-block is remembered across the blocks of other types.
BuildRemembers(b) == Transmit(b) /\ previous' = IF b.type = "R" THEN b ELSE previous

\* previous_block is only ever looked at for an R-block.
Build(b) == Transmit(b) /\ previous' = IF b.type = "R" THEN b ELSE NoBlock

\* Mutants: the more bit also on a block that ends the APDU; the acknowledged units sent again.
BuildIMore(a, h, n) ==
  LET left == Len(a) - h
      len  == IF left > ifsc THEN ifsc ELSE left
  IN /\ Build([type |-> "I", seq |-> n, more |-> left >= ifsc, data |-> SubSeq(a, h + 1, h + len)])
     /\ more' = (left >= ifsc)
     /\ last_send' = len

BuildIFromStart(a, h, n) ==
  LET left == Len(a) - h
      len  == IF left > ifsc THEN ifsc ELSE left
  IN /\ Build([type |-> "I", seq |-> n, more |-> left > ifsc, data |-> SubSeq(a, 1, len)])
     /\ more' = (left > ifsc)
     /\ last_send' = len

\* An I-block numbered n with as much of the APDU a after its first h units as ifsc allows.
BuildI(a, h, n) ==
  LET left == Len(a) - h
      len  == IF left > ifsc THEN ifsc ELSE left
  IN /\ Build([type |-> "I", seq |-> n, more |-> left > ifsc, data |-> SubSeq(a, h + 1, h + len)])
     /\ more' = (left > ifsc)
     /\ last_send' = len

\* previous_block keeps four bytes of the block: with a CRC it lacks the fifth.
Rebuild == Transmit(IF RcBytes = 1 THEN previous ELSE Truncated) /\ UNCHANGED previous

-----------------------------------------------------------------------------
(* How a turn of the loop ends *)

Left == (retries - 1) % UIntMod   \* retries-- at the head of the loop

Splendid == retries' = MaxRetries

Return(r) == result' = r /\ turn' = "host" /\ line' = NoBlock

\* label error, with ns at n
Error(n) ==
  /\ state' = "DEAD" /\ ns' = n
  /\ retries' = Left
  /\ Return("error")
  /\ UNCHANGED <<nr, ifsc, more, previous, resyncs>>

\* Mutant: the reader keeps its send number.
ResyncKeepsNs(n) ==
  \/ resyncs = 0 /\ Error(n)
  \/ /\ resyncs > 0
     /\ resyncs' = resyncs - 1
     /\ ns' = n /\ nr' = 0
     /\ Build(S("resync", FALSE, 0))
     /\ state' = "RESYNCH" /\ more' = FALSE /\ retries' = 1
     /\ UNCHANGED <<ifsc, result>>

\* label resync, with ns at n
Resync(n) ==
  \/ resyncs = 0 /\ Error(n)
  \/ /\ resyncs > 0
     /\ resyncs' = resyncs - 1
     /\ ns' = 0 /\ nr' = 0
     /\ Build(S("resync", FALSE, 0))
     /\ state' = "RESYNCH"
     /\ more' = FALSE
     /\ retries' = 1
     /\ UNCHANGED <<ifsc, result>>

\* Mutant: retries is tested before it is decremented.
ComplainLate(err) ==
  \/ retries = 0 /\ Resync(ns)
  \/ /\ retries > 0
     /\ IF previous.type = "R" THEN Rebuild ELSE Build(R(nr, err))
     /\ retries' = Left
     /\ UNCHANGED <<state, ns, nr, ifsc, more, resyncs, result>>

\* Rule 7.4.2, then rule 7.2, then an R-block that names the error.
Complain(err) ==
  \/ Left = 0 /\ Resync(ns)
  \/ /\ Left > 0
     /\ IF previous.type = "R" THEN Rebuild ELSE Build(R(nr, err))
     /\ retries' = Left
     /\ UNCHANGED <<state, ns, nr, ifsc, more, resyncs, result>>

Buffers == <<snd, head, last_send, rbuf>>

-----------------------------------------------------------------------------
(* The turns of the loop, by what t1_xcv brought back *)

Receives(type) == turn = "reader" /\ line.type = type

XcvFails ==
  /\ Receives("failure")
  /\ Error(ns)
  /\ UNCHANGED Buffers

GarbledBlock ==
  /\ turn = "reader" /\ line.type \in {"parity", "header", "checksum"}
  /\ Complain(IF line.type = "header" THEN "other" ELSE "edc")
  /\ UNCHANGED Buffers

(* R-blocks *)

IllegalR ==
  /\ Receives("R") /\ ~line.ok
  /\ Complain("other")
  /\ UNCHANGED Buffers

WrongR ==
  /\ Receives("R") /\ line.ok
  /\ line.seq # ns /\ ~more
  /\ Complain("other")
  /\ UNCHANGED Buffers

ExpectedR == Receives("R") /\ line.ok /\ (line.seq = ns \/ more)

RWhileReceiving ==
  /\ ExpectedR /\ state = "RECEIVING"
  /\ \/ previous.type = "R" /\ Complain("none")
     \/ /\ previous.type # "R"
        /\ Build(R(nr, "none"))
        /\ Splendid
        /\ UNCHANGED <<state, ns, nr, ifsc, more, resyncs, result>>
  /\ UNCHANGED Buffers

\* Mutant: every R-block is taken for a request to repeat.
RWhileSendingRepeats ==
  /\ ExpectedR /\ state # "RECEIVING"
  /\ BuildI(snd, head, ns)
  /\ Splendid
  /\ UNCHANGED <<state, ns, nr, ifsc, resyncs, result, snd, head, rbuf>>

\* The card asks for block ns again, or acknowledges it and asks for the next.
RWhileSending ==
  /\ ExpectedR /\ state # "RECEIVING"
  /\ LET acked == line.seq # ns
         h     == IF acked THEN head + last_send ELSE head
         n     == IF acked THEN Flip(ns) ELSE ns
     IN /\ head' = h
        /\ \/ /\ h = Len(snd)
              /\ Resync(n)
              /\ last_send' = IF acked THEN 0 ELSE last_send
           \/ /\ h < Len(snd)
              /\ BuildI(snd, h, n)
              /\ ns' = n
              /\ Splendid
              /\ UNCHANGED <<state, nr, ifsc, resyncs, result>>
  /\ UNCHANGED <<snd, rbuf>>

(* I-blocks: the first one acknowledges the last block sent *)

\* Mutant: last_send outlives the acknowledgement.
ReceivesIKeepsLast ==
  /\ Receives("I")
  /\ head' = IF state = "SENDING" THEN head + last_send ELSE head
  /\ UNCHANGED <<snd, last_send>>

ReceivesI ==
  /\ Receives("I")
  /\ head' = IF state = "SENDING" THEN head + last_send ELSE head
  /\ last_send' = IF state = "SENDING" THEN 0 ELSE last_send
  /\ UNCHANGED snd

\* Mutant: the answer does not acknowledge the block that asked for it.
NsAfterIKept == ns

NsAfterI == IF state = "SENDING" THEN Flip(ns) ELSE ns

WrongI ==
  /\ ReceivesI /\ line.seq # nr
  /\ \/ Left = 0 /\ Resync(NsAfterI)
     \/ /\ Left > 0
        /\ Build(R(nr, "other"))
        /\ retries' = Left
        /\ state' = "RECEIVING" /\ ns' = NsAfterI
        /\ UNCHANGED <<nr, ifsc, more, resyncs, result>>
  /\ UNCHANGED rbuf

OverlongI ==
  /\ ReceivesI /\ line.seq = nr
  /\ Len(rbuf) + Len(line.data) > RcvLen
  /\ state' = "DEAD" /\ ns' = NsAfterI /\ nr' = Flip(nr)
  /\ retries' = Left
  /\ Return("error")
  /\ UNCHANGED <<ifsc, more, previous, resyncs, rbuf>>

RightI ==
  /\ ReceivesI /\ line.seq = nr
  /\ Len(rbuf) + Len(line.data) <= RcvLen
  /\ rbuf' = rbuf \o line.data
  /\ state' = "RECEIVING" /\ ns' = NsAfterI /\ nr' = Flip(nr)
  /\ \/ /\ line.more
        /\ Build(R(Flip(nr), "none"))
        /\ Splendid
        /\ UNCHANGED result
     \/ /\ ~line.more
        /\ Return("done")
        /\ retries' = Left
        /\ UNCHANGED previous
  /\ UNCHANGED <<ifsc, more, resyncs>>

(* S-blocks *)

\* Any response ends a resynchronisation.  sbuf is not rewound.
ResyncAnswered ==
  /\ Receives("S") /\ line.resp /\ state = "RESYNCH"
  /\ state' = "SENDING"
  /\ resyncs' = MaxResyncs /\ retries' = MaxRetries
  /\ rbuf' = <<>>
  /\ BuildI(snd, head, ns)
  /\ UNCHANGED <<snd, head, ns, nr, ifsc, result>>

StrayResponse ==
  /\ Receives("S") /\ line.resp /\ state # "RESYNCH"
  /\ Complain("other")
  /\ UNCHANGED Buffers

Requests(kind) == Receives("S") /\ ~line.resp /\ line.kind = kind

\* The only error that is answered without a look at retries.
WrongLengthS ==
  /\ \E kind \in SKind \ {"unknown"} : Requests(kind)
  /\ ~line.ok
  /\ Build(R(nr, "other"))
  /\ retries' = Left
  /\ UNCHANGED <<state, ns, nr, ifsc, more, resyncs, result, Buffers>>

\* Requests that the code answers with a resynchronisation.
RefusedS ==
  /\ \/ Requests("unknown")
     \/ Requests("resync") /\ line.ok
     \/ Requests("ifs") /\ line.ok /\ line.val = 0
  /\ Resync(ns)
  /\ UNCHANGED Buffers

\* An abort is answered like a waiting time extension: the transfer goes on.
GrantedS ==
  /\ \E kind \in {"ifs", "abort", "wtx"} : Requests(kind)
  /\ line.ok
  /\ line.kind = "ifs" => line.val > 0
  /\ Build(S(line.kind, TRUE, line.val))
  /\ ifsc' = IF line.kind = "ifs" THEN line.val ELSE ifsc
  /\ Splendid
  /\ UNCHANGED <<state, ns, nr, more, resyncs, result, Buffers>>

-----------------------------------------------------------------------------
(* The host *)

\* Mutant: every APDU starts at number 0.
TransceiveRestarts(a) ==
  /\ turn = "host" /\ state # "DEAD"
  /\ state' = "SENDING"
  /\ snd' = a /\ head' = 0 /\ rbuf' = <<>>
  /\ retries' = MaxRetries /\ resyncs' = MaxResyncs
  /\ ns' = 0 /\ BuildI(a, 0, 0)
  /\ result' = "none"
  /\ UNCHANGED <<nr, ifsc>>

Transceive(a) ==
  /\ turn = "host" /\ state # "DEAD"
  /\ state' = "SENDING"
  /\ snd' = a /\ head' = 0 /\ rbuf' = <<>>
  /\ retries' = MaxRetries /\ resyncs' = MaxResyncs
  /\ BuildI(a, 0, ns)
  /\ result' = "none"
  /\ UNCHANGED <<ns, nr, ifsc>>

\* "Reset the card first": t1_init on a fresh card
Reset ==
  /\ turn = "host" /\ state = "DEAD"
  /\ state' = "SENDING" /\ ns' = 0 /\ nr' = 0 /\ ifsc' = DefaultIfsc /\ more' = FALSE
  /\ UNCHANGED <<previous, Buffers, retries, resyncs, result, turn, line>>

\* Any card on any line
AnyAnswer ==
  /\ turn = "card"
  /\ line' \in IBlock \cup RBlock \cup SBlock \cup Fault
  /\ turn' = "reader"
  /\ UNCHANGED <<t1, Buffers, retries, resyncs, result>>

Loop ==
  \/ XcvFails \/ GarbledBlock
  \/ IllegalR \/ WrongR \/ RWhileReceiving \/ RWhileSending
  \/ WrongI \/ OverlongI \/ RightI
  \/ ResyncAnswered \/ StrayResponse \/ WrongLengthS \/ RefusedS \/ GrantedS

Host == Reset \/ \E a \in Apdu : Transceive(a)

Next == Host \/ Loop \/ AnyAnswer

Spec == Init /\ [][Next]_vars

-----------------------------------------------------------------------------
(* What holds whatever the card answers *)

ReaderBlock ==
  [type : {"I"}, seq : Bit, more : BOOLEAN, data : Seq(Unit)]
    \cup RBlock \cup SBlock \cup {Truncated}

TypeOK ==
  /\ state \in {"SENDING", "RECEIVING", "RESYNCH", "DEAD"}
  /\ ns \in Bit /\ nr \in Bit
  /\ ifsc \in 1 .. MaxIfs
  /\ more \in BOOLEAN
  /\ previous \in RBlock \cup {NoBlock}
  /\ snd \in Seq(Unit)
  /\ head \in Nat /\ last_send \in Nat
  /\ rbuf \in Seq(Unit) /\ Len(rbuf) <= RcvLen
  /\ retries \in 0 .. UIntMod - 1
  /\ resyncs \in 0 .. MaxResyncs
  /\ result \in {"none", "done", "error"}
  /\ \/ turn = "host" /\ line = NoBlock
     \/ turn = "card" /\ line \in ReaderBlock
     \/ turn = "reader" /\ line \in IBlock \cup RBlock \cup SBlock \cup Fault

(* An acknowledgement never takes more than the APDU has left: the result of *)
(* ct_buf_get, which t1_transceive ignores (338, 357), is never -1.          *)
AckInBounds == head + last_send <= Len(snd)

(* The I-block on its way carries the units right after the acknowledged     *)
(* ones, and its more bit is set exactly when units remain after it: also    *)
(* when it is a repetition after errors, S-requests or a new ifsc.           *)
ChainIsContiguous ==
  turn = "card" /\ line.type = "I" =>
    /\ line.data = SubSeq(snd, head + 1, head + last_send)
    /\ line.more = (head + last_send < Len(snd))
    /\ line.more = more
    /\ line.seq = ns

(* A block that rule 7.2 sends again asks for the I-block the reader now     *)
(* waits for: no acknowledgement is repeated after nr has moved on.          *)
RepeatsAreFresh ==
  turn # "host" /\ previous.type = "R" => previous.seq = nr

(* Rule 7.4.2: the reader does not go on with its retries used up, except    *)
(* after an S-request of the wrong length, the one error the code answers    *)
(* without testing them (435, 449, 463, 480); retries then wraps below zero. *)
RetriesAreTested ==
  [][turn = "reader" /\ turn' = "card" /\ retries' = 0
       => line.type = "S" /\ ~line.resp /\ ~line.ok]_vars
=============================================================================
