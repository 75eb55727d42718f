------------------------------- MODULE T1Xcv --------------------------------
(***************************************************************************)
(* proto-t1.c, t1_xcv and t1_negotiate_ifsd: one exchange of blocks with   *)
(* the card, under the CCID driver's read timeout.                         *)
(*                                                                         *)
(* A card that asks for more time (S(WTX), multiplier val) has the timeout *)
(* multiplied for the next exchange.  t1_xcv multiplies it in place, in a  *)
(* record that the whole driver shares.                                    *)
(***************************************************************************)
EXTENDS T1Reader

CONSTANTS BaseTimeout,  \* readTimeout when the card was attached
          MaxTimeout,   \* bound: no fault once readTimeout could pass it; the code has no cap
          CharLevel     \* isCharLevel: the reader exchanges single characters

ASSUME XcvAssumption ==
  /\ BaseTimeout \in Nat \ {0}
  /\ MaxTimeout \in Nat
  /\ CharLevel \in BOOLEAN

VARIABLES wtx,           \* the multiplier the card asked for last; 0 for none
          readTimeout,   \* ccid_desc->readTimeout
          asked          \* the ifsd under negotiation, or 0

xvars == <<vars, wtx, readTimeout, asked>>

XInit == Init /\ wtx = 0 /\ readTimeout = BaseTimeout /\ asked = 0

Extended == IF wtx > 1 THEN readTimeout * wtx ELSE readTimeout

\* Mutants: the timeout is never put back; wtx is never reset.
TimeoutAfterForgets(type) == Extended
WtxAfterKept == wtx

(* A failure or a parity error leaves t1_xcv by a return of its own, past    *)
(* the line that restores the timeout; wtx is only reset at block level.     *)
TimeoutAfter(type) == IF type \in {"failure", "parity"} THEN Extended ELSE readTimeout
WtxAfter == IF CharLevel THEN wtx ELSE 0

Xcv ==
  /\ AnyAnswer
  /\ line'.type \in {"failure", "parity"} => Extended * MaxIfs <= MaxTimeout
  /\ readTimeout' = TimeoutAfter(line'.type)
  /\ wtx' = WtxAfter
  /\ UNCHANGED asked

\* A turn of t1_transceive notes the extension it grants.
Turn ==
  /\ asked = 0
  /\ Loop
  /\ wtx' = IF GrantedS /\ line.kind = "wtx" THEN line.val ELSE wtx
  /\ UNCHANGED <<readTimeout, asked>>

\* t1_init resets wtx; the driver computes its timeout anew when a card is attached.
Attach ==
  /\ Reset
  /\ wtx' = 0 /\ readTimeout' = BaseTimeout
  /\ UNCHANGED asked

Call ==
  /\ \E a \in Apdu : Transceive(a)
  /\ UNCHANGED <<wtx, readTimeout, asked>>

-----------------------------------------------------------------------------
(* t1_negotiate_ifsd: S(IFS) requests until the card confirms one *)

NegotiateIfsd(ifsd) ==
  /\ turn = "host"
  /\ asked' = ifsd
  /\ retries' = MaxRetries
  /\ Build(S("ifs", FALSE, ifsd))
  /\ result' = "none"
  /\ UNCHANGED <<state, ns, nr, ifsc, more, resyncs, Buffers, wtx, readTimeout>>

\* Mutant: the retries are not tested.
GivesUpNever == line.type = "failure"

\* The third answer is not looked at any more.
GivesUp == Left = 0 \/ line.type = "failure"

Confirmed == line = S("ifs", TRUE, asked)

IfsdAnswered ==
  /\ asked > 0 /\ turn = "reader"
  /\ retries' = Left
  /\ \/ /\ GivesUp
        /\ state' = "DEAD"
        /\ Return("error") /\ asked' = 0
        /\ UNCHANGED previous
     \/ /\ ~GivesUp /\ Confirmed
        /\ Return("done") /\ asked' = 0
        /\ UNCHANGED <<state, previous>>
     \/ /\ ~GivesUp /\ ~Confirmed
        /\ Build(S("ifs", FALSE, asked))
        /\ UNCHANGED <<state, result, asked>>
  /\ UNCHANGED <<ns, nr, ifsc, more, resyncs, Buffers, wtx, readTimeout>>

XNext ==
  \/ Call \/ Attach \/ Turn \/ Xcv
  \/ \E ifsd \in 1 .. MaxIfs : NegotiateIfsd(ifsd)
  \/ IfsdAnswered

(* Both loops run until they return; CCID_Receive answers or times out.      *)
XSpec == XInit /\ [][XNext]_xvars /\ WF_xvars(IfsdAnswered) /\ WF_xvars(Xcv)

-----------------------------------------------------------------------------
(* The timeout only grows when an exchange that had been granted more time   *)
(* fails or comes back with a parity error: every other way out restores it. *)
TimeoutGrowsOnFaults ==
  [][readTimeout' > readTimeout => wtx > 1 /\ line'.type \in {"failure", "parity"}]_xvars

(* "set the new temporary timeout at WTX card request" (665): an exchange is *)
(* extended only if the block it sends grants an extension.  So it is at     *)
(* block level; at character level wtx is never reset.                       *)
ExtensionIsTemporary ==
  turn = "card" /\ Extended > readTimeout =>
    line.type = "S" /\ line.resp /\ line.kind = "wtx"

(* The negotiation of the ifsd ends, whatever the card answers to it.        *)
NegotiationEnds == asked > 0 ~> asked = 0
=============================================================================
