----------------------------- MODULE HashStream -----------------------------
(***************************************************************************)
(* A message given to SHA-256, HMAC or MD5 in pieces, one message after    *)
(* the other with the same context.                                        *)
(***************************************************************************)
EXTENDS Md5

CONSTANTS MaxPiece,    \* bound on the length of a piece
          MaxLength,   \* bound on the length of a message
          KeyLength    \* the lengths of the keys

ASSUME StreamAssumption ==
  MaxPiece \in 1 .. WordMod - 1 /\ MaxLength \in Nat /\ KeyLength \subseteq 0 .. LenMod - 1

VARIABLES algo,    \* whose turn it is; "none" between messages
          key,     \* the key, if it is HMAC
          sha, md5,  \* the contexts, as the last calls left them
          fed,     \* bytes given since the start
          ret      \* whether the last update took all it was given

vars == <<algo, key, sha, md5, fed, ret>>

Message(n) == [i \in 1 .. n |-> <<"message", i>>]
Key(n) == [i \in 1 .. n |-> <<"key", i>>]

Init ==
  /\ algo = "none" /\ key = <<>> /\ fed = 0 /\ ret = TRUE
  /\ sha = core_algo_sha256Initial /\ md5 = algo_md5_init

StartSha ==
  /\ algo = "none" /\ algo' = "sha"
  /\ sha' = core_algo_sha256Initial
  /\ fed' = 0 /\ ret' = TRUE
  /\ UNCHANGED <<key, md5>>

StartHmac ==
  /\ algo = "none" /\ algo' = "hmac"
  /\ \E n \in KeyLength : key' = Key(n)
  /\ sha' = core_algo_hmacInitial(key')
  /\ fed' = 0 /\ ret' = TRUE
  /\ UNCHANGED md5

StartMd5 ==
  /\ algo = "none" /\ algo' = "md5"
  /\ md5' = algo_md5_starts_ret(md5)
  /\ fed' = 0 /\ ret' = TRUE
  /\ UNCHANGED <<key, sha>>

\* The next piece; a caller stops when one was refused.
Feed ==
  /\ algo \in {"sha", "hmac", "md5"} /\ ret
  /\ \E n \in 0 .. MaxPiece :
       LET piece == SubSeq(Message(fed + n), fed + 1, fed + n) IN
       /\ fed + n <= MaxLength
       /\ fed' = fed + n
       /\ \/ /\ algo = "sha"
             /\ sha' = core_algo_sha256Update(sha, piece)
             /\ ret' = sha'.ok /\ UNCHANGED md5
          \/ /\ algo = "hmac"
             /\ sha' = core_algo_hmacUpdate(sha, piece)
             /\ ret' = sha'.ok /\ UNCHANGED md5
          \/ /\ algo = "md5"
             /\ md5' = algo_md5_update_ret(md5, piece)
             /\ UNCHANGED <<sha, ret>>
  /\ UNCHANGED <<algo, key>>

Finish ==
  /\ \/ /\ algo = "sha" /\ algo' = "sha done"
        /\ sha' = core_algo_sha256Final(sha) /\ UNCHANGED md5
     \/ /\ algo = "hmac" /\ algo' = "hmac done"
        /\ sha' = core_algo_hmacFinal(sha, k_pad1(key)) /\ UNCHANGED md5
     \/ /\ algo = "md5" /\ algo' = "md5 done"
        /\ md5' = algo_md5_finish_ret(md5) /\ UNCHANGED sha
  /\ UNCHANGED <<key, fed, ret>>

\* The caller has taken the digest, and leaves the context as it is.
Taken ==
  /\ algo \in {"sha done", "hmac done", "md5 done"} /\ algo' = "none"
  /\ UNCHANGED <<key, sha, md5, fed, ret>>

Next == StartSha \/ StartHmac \/ StartMd5 \/ Feed \/ Finish \/ Taken

Spec == Init /\ [][Next]_vars

-----------------------------------------------------------------------------
(* However a message is cut into pieces, and whatever the context was used   *)
(* for before, the digest is the one of the whole message, padded at once    *)
(* (algo_sha256.c:223, algo_md5.c:255, algo_hmac.c:51); counts that have     *)
(* carried into their upper word included.                                   *)
DigestIsOfTheWhole ==
  ret =>
    /\ algo = "sha done"  => sha.digest = Sha(Message(fed))
    /\ algo = "hmac done" => sha.digest = Hmac(key, Message(fed))
    /\ algo = "md5 done"  => md5.digest = Md(Message(fed))

(* An update is refused exactly if its message, with the padded key of HMAC, *)
(* has more bits than two words can count (algo_sha256.c:202).               *)
RefusedIfUncountable ==
  algo \in {"sha", "hmac"} =>
    (ret <=> (fed + (IF algo = "hmac" THEN BlockLen ELSE 0)) * Bits < WordMod * WordMod)
=============================================================================
