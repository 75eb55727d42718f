----------------------------- MODULE MCT1System -----------------------------
(* Two APDUs: one that fits in an I-block, one that is chained while ifsc is *)
(* 1; answers of one and of two I-blocks.                                    *)
EXTENDS T1System

short == <<1>>
long == <<2, 3, 4>>

MCApdu == {short, long}
MCReply == [a \in MCApdu |-> IF a = short THEN <<11, 12>> ELSE <<21>>]
MCRefusal == <<99>>
MCUnit == {1, 2, 3, 4, 11, 12, 21, 99}
=============================================================================
