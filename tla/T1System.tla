------------------------------ MODULE T1System ------------------------------
(***************************************************************************)
(* The reader of T1Reader, an ISO 7816-3 card and the line between them.   *)
(*                                                                         *)
(* The card is not in the repository: CardStep is what the reader's code   *)
(* takes it for.  It answers every block, repeats its last block when it   *)
(* is asked to or reads garbage, resets itself on S(RESYNCH) and, when it  *)
(* holds the right to transmit, may first ask for time or another ifsc.    *)
(* The line garbles blocks in both directions and the CCID layer fails, at *)
(* most MaxFaults times in all.                                            *)
(***************************************************************************)
EXTENDS T1Reader

CONSTANTS Reply,      \* Reply[a]: what the card answers to APDU a
          Refusal,    \* what it answers to anything else
          CardIfs,    \* longest I-block it sends (the reader's ifsd)
          MaxFaults,  \* bound on garbled blocks and transmission failures
          MaxAsks,    \* bound on the card's own S-requests
          MaxCalls    \* bound on APDUs between two resets

\* An answer has at least its two status bytes (ISO 7816-4).
ASSUME SystemAssumption ==
  /\ Reply \in [Apdu -> Seq(Unit) \ {<<>>}]
  /\ Refusal \in Seq(Unit) \ {<<>>}
  /\ CardIfs \in 1 .. MaxLen

VARIABLES cnr,       \* number of the I-block the card expects
          cns,       \* number of the I-block it has sent, or sends next if cout is empty
          cin,       \* the command received so far
          cout,      \* the answer not yet acknowledged
          clast,     \* the last block it sent
          cheld,     \* the block it holds back while it asks for something
          executed,  \* the commands it has executed since power-up
          calls,     \* the APDUs the host has handed to t1_transceive
          resynced,  \* the worst resynchronisation since power-up: "no", "clean", "lossy"
          faults, asks

card == <<cnr, cns, cin, cout, clast, cheld, executed, asks>>
svars == <<vars, card, calls, resynced, faults>>

SysInit ==
  /\ Init
  /\ cnr = 0 /\ cns = 0 /\ cin = <<>> /\ cout = <<>>
  /\ clast = NoBlock /\ cheld = NoBlock
  /\ executed = <<>> /\ calls = <<>> /\ resynced = "no"
  /\ faults = 0 /\ asks = 0

-----------------------------------------------------------------------------
(* The card *)

Say(b) == clast' = b

\* Answer b at once, or ask for something first.
Answer(b) ==
  \/ Say(b) /\ cheld' = NoBlock /\ UNCHANGED asks
  \/ /\ asks < MaxAsks
     /\ asks' = asks + 1
     /\ cheld' = b
     /\ Say(S("wtx", FALSE, 1)) \/ \E v \in 1 .. MaxIfs : Say(S("ifs", FALSE, v))

\* The next I-block of answer a, numbered n.
Chunk(a, n) ==
  LET len == IF Len(a) > CardIfs THEN CardIfs ELSE Len(a)
  IN [type |-> "I", seq |-> n, more |-> Len(a) > CardIfs, data |-> SubSeq(a, 1, len)]

CardBuffers == <<cnr, cns, cin, cout, executed>>

Repeat(b) == Say(b) /\ UNCHANGED <<CardBuffers, cheld, asks>>

ReadsGarbage ==
  LET waits == clast.type = "R" \/ (clast.type = "S" /\ ~clast.resp)
  IN Repeat(IF waits THEN clast ELSE R(cnr, "edc"))

ReadsI ==
  /\ line.type = "I"
  /\ IF line.seq # cnr
       THEN Repeat(R(cnr, "other"))
       ELSE LET command == cin \o line.data
                n       == IF cout # <<>> THEN Flip(cns) ELSE cns
                reply   == IF command \in Apdu THEN Reply[command] ELSE Refusal
            IN /\ cnr' = Flip(cnr)
               /\ cns' = n   \* a new command acknowledges the last answer
               /\ IF line.more
                    THEN /\ cin' = command /\ cout' = <<>>
                         /\ Answer(R(Flip(cnr), "none"))
                         /\ UNCHANGED executed
                    ELSE /\ cin' = <<>> /\ cout' = reply
                         /\ executed' = Append(executed, command)
                         /\ Answer(Chunk(reply, n))

ReadsR ==
  /\ line.type = "R"
  /\ IF cout = <<>> \/ cheld # NoBlock
       THEN Repeat(IF clast = NoBlock THEN R(cnr, "other") ELSE clast)
     ELSE IF line.seq = cns
       THEN Repeat(Chunk(cout, cns))
     ELSE IF Len(cout) <= CardIfs
       THEN Repeat(R(cnr, "other"))
     ELSE LET rest == SubSeq(cout, CardIfs + 1, Len(cout))
          IN /\ cns' = Flip(cns) /\ cout' = rest
             /\ Answer(Chunk(rest, Flip(cns)))
             /\ UNCHANGED <<cnr, cin, executed>>

ReadsS ==
  /\ line.type = "S"
  /\ \/ /\ ~line.resp   \* only S(RESYNCH) among the reader's requests
        /\ cnr' = 0 /\ cns' = 0 /\ cin' = <<>> /\ cout' = <<>> /\ cheld' = NoBlock
        /\ Say(S("resync", TRUE, 0))
        /\ UNCHANGED <<executed, asks>>
     \/ /\ line.resp /\ cheld # NoBlock
        /\ Answer(cheld)
        /\ UNCHANGED CardBuffers
     \/ /\ line.resp /\ cheld = NoBlock
        /\ Repeat(R(cnr, "other"))

(* The card reads the block on the line, or garbage in its place, and the    *)
(* reader gets the card's block, or a fault in its place.                    *)
CardStep ==
  /\ turn = "card"
  /\ \E lost, garbled \in {0, 1} :
       /\ faults + lost + garbled <= MaxFaults
       /\ faults' = faults + lost + garbled
       /\ IF lost = 1 \/ line = Truncated THEN ReadsGarbage
          ELSE ReadsI \/ ReadsR \/ ReadsS
       /\ line' \in IF garbled = 1 THEN Fault ELSE {clast'}
  /\ turn' = "reader"
  /\ UNCHANGED <<t1, Buffers, retries, resyncs, result, calls, resynced>>

-----------------------------------------------------------------------------
(* The host *)

(* A resynchronisation is lossy if some of the APDU was acknowledged, for    *)
(* sbuf is not rewound, or if the reader drops it and goes on at an I-block  *)
(* or an R-block the card sent in place of the response.                     *)
Lossy ==
  \/ state' = "RESYNCH" /\ head' > 0
  \/ state = "RESYNCH" /\ line.type \in {"I", "R"} /\ line'.type # "S"

ReaderStep ==
  /\ Loop
  /\ resynced' = IF Lossy THEN "lossy"
                  ELSE IF state' = "RESYNCH" /\ resynced = "no" THEN "clean"
                  ELSE resynced
  /\ UNCHANGED <<card, calls, faults>>

HostCalls ==
  /\ Len(calls) < MaxCalls
  /\ \E a \in Apdu : Transceive(a) /\ calls' = Append(calls, a)
  /\ UNCHANGED <<card, resynced, faults>>

\* The host powers the card down and up and attaches the protocol anew.
PowerCycle ==
  /\ Reset
  /\ cnr' = 0 /\ cns' = 0 /\ cin' = <<>> /\ cout' = <<>>
  /\ clast' = NoBlock /\ cheld' = NoBlock
  /\ executed' = <<>> /\ calls' = <<>> /\ resynced' = "no"
  /\ UNCHANGED <<asks, faults>>

SysNext == HostCalls \/ PowerCycle \/ ReaderStep \/ CardStep

(* The loop of t1_transceive runs until it returns, and the card answers     *)
(* every block: CCID_Receive otherwise times out, which is a failure.        *)
Fairness == WF_svars(ReaderStep) /\ WF_svars(CardStep)

SysSpec == SysInit /\ [][SysNext]_svars /\ Fairness

-----------------------------------------------------------------------------
(* As long as no resynchronisation was needed, a call that returns an answer *)
(* has had its APDU executed exactly once and returns the card's answer to   *)
(* it, whole: whatever was garbled, repeated or asked for on the way.        *)
ExactlyOnce ==
  turn = "host" /\ result = "done" /\ resynced = "no" =>
    /\ executed = calls
    /\ rbuf = Reply[snd]

(* The card never executes a command the host did not send, before a         *)
(* resynchronisation.                                                        *)
OnlyWhatWasSent ==
  resynced = "no" =>
    \/ executed = calls
    \/ calls # <<>> /\ executed = SubSeq(calls, 1, Len(calls) - 1)

(* A resynchronisation that the card answers, and that finds none of the     *)
(* APDU acknowledged, does no harm to the answer: the APDU may be executed   *)
(* again, but what is returned is the whole answer to it.                    *)
CleanResyncIsHarmless ==
  turn = "host" /\ result = "done" /\ resynced = "clean" =>
    /\ executed # <<>> /\ executed[Len(executed)] = snd
    /\ rbuf = Reply[snd]

(* Both sides keep their numbers from one call to the next, and nothing tells *)
(* one the other's.  Whenever the host may call, they agree: the card waits  *)
(* for the block the reader sends next, the reader's is what follows the     *)
(* card's last, and nothing of the call before is left half done: not after  *)
(* errors, a resynchronisation that lost nothing, or a new card.             *)
StartsInStep ==
  turn = "host" /\ state # "DEAD" /\ resynced # "lossy" =>
    /\ ns = cnr
    /\ nr = IF cout = <<>> THEN cns ELSE Flip(cns)
    /\ cin = <<>> /\ cheld = NoBlock /\ Len(cout) <= CardIfs

(* A call of t1_transceive returns, however the faults fall.                 *)
CallsReturn == turn # "host" ~> turn = "host"

(* "Send an APDU through T=1" (154): a call that returns an answer has had   *)
(* the card execute that APDU.                                               *)
AnswersAreToTheApdu ==
  turn = "host" /\ result = "done" =>
    executed # <<>> /\ executed[Len(executed)] = snd
=============================================================================
