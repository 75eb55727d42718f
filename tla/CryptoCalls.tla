---------------------------- MODULE CryptoCalls -----------------------------
(***************************************************************************)
(* The calls of algo_api.c, algo_sha256.c and algo_hmac.c that take a      *)
(* whole message, run by contexts that interrupt each other.  They work on *)
(* static variables: the hash calls share one context, the AES calls the   *)
(* copy of the input, the round keys and the pointer to what is chained.   *)
(* A context switch is modelled between their steps, not within the        *)
(* update of a hash or the cipher of a block.                              *)
(*                                                                         *)
(* The copy of an AES input to temp_buff has no bound.  What a longer one  *)
(* overwrites is not known, be it the round keys, a hash or another        *)
(* module's data, and so neither is what happens from then on: the model   *)
(* ends there, with wild set.                                              *)
(*                                                                         *)
(* A block of AES and its cipher are terms.  Iv is what the pointer leads  *)
(* to: it is set and read within a call, and what it leads to only changes *)
(* between calls.                                                          *)
(***************************************************************************)
EXTENDS Sha256

CONSTANTS Context,
          Priority,    \* a context runs while no context of higher priority is in a call
          Data,        \* bytes and blocks
          Request,     \* the calls: records of kind, key, iv and input
          TempBlocks,  \* blocks that fit into temp_buff, 18 in the code
          MaxCalls     \* bound on their number

HashKind == {"sha", "hmac"}
CbcKind == {"cbc encrypt", "cbc decrypt"}
EcbKind == {"ecb encrypt", "ecb decrypt"}

Countable(n) == n * Bits < WordMod * WordMod

\* What is hashed can be counted: a length is u2, and 64 + 65535 bytes have fewer than 2^64 bits.
ASSUME RequestsAreCountable ==
  \A r \in Request :
    /\ r.kind \in HashKind \cup CbcKind \cup EcbKind /\ r.input \in Seq(Data)
    /\ r.kind = "sha" => Countable(Len(r.input))
    /\ r.kind = "hmac" => /\ r.key \in Seq(Data) /\ Countable(Len(r.key))
                          /\ Countable(BlockLen + Len(r.input))

ASSUME TempAssumption == TempBlocks \in Nat

VARIABLES hash,                       \* digest, state, count of algo_sha256.c
          temp_buff, RoundKey, Iv,    \* algo_api.c, aes_base.c
          wild,                       \* a copy has run past the end of temp_buff
          request, todo,      \* of each context: its call, and the steps still to do
          c_key, inner, out,  \* of each context: local variables of the call, and its output
          stained,            \* history, of each context: another one used the same variables
          made                \* the number of calls

statics == <<hash, temp_buff, RoundKey, Iv, wild>>
locals == <<c_key, inner, out>>
callsVars == <<statics, locals, request, todo, stained, made>>

NoRequest == [kind |-> "none", key |-> <<>>, iv |-> <<>>, input |-> <<>>]

CallsInit ==
  /\ hash = core_algo_sha256Initial
  /\ temp_buff = <<>> /\ RoundKey = <<>> /\ Iv = <<>> /\ wild = FALSE
  /\ request = [c \in Context |-> NoRequest] /\ todo = [c \in Context |-> <<>>]
  /\ c_key = [c \in Context |-> <<>>] /\ inner = [c \in Context |-> <<>>]
  /\ out = [c \in Context |-> <<>>] /\ stained = [c \in Context |-> FALSE]
  /\ made = 0

\* Which static variables a kind of call uses.
Group(kind) == CASE kind \in HashKind -> "hash" [] kind = "none" -> "none" [] OTHER -> "aes"

\* The steps of the calls, in the order of the code.
HashSteps == <<"initial", "input", "final", "copy">>
LongKeySteps == <<"initial", "key", "final", "key is digest">>
HmacSteps ==
  <<"initial", "ipad", "input", "final", "inner", "initial", "opad", "update inner", "final", "copy">>
CbcSteps(n) == <<"temp", "keys", "iv">> \o [i \in 1 .. n |-> "chained block"]
EcbSteps(n) == <<"temp">> \o FlattenSeq([i \in 1 .. n |-> <<"keys", "block">>])

StepsOf(r) ==
  CASE r.kind = "sha"  -> HashSteps
    [] r.kind = "hmac" -> (IF KeyIsLong(r.key) THEN LongKeySteps ELSE <<>>) \o HmacSteps
    [] r.kind \in CbcKind -> CbcSteps(Len(r.input))
    [] r.kind \in EcbKind -> EcbSteps(Len(r.input))

Runs(c) == \A o \in Context : request[o] # NoRequest => Priority[o] <= Priority[c]

Begin(c, r) ==
  /\ request[c] = NoRequest /\ Runs(c)
  /\ made < MaxCalls /\ made' = made + 1
  /\ request' = [request EXCEPT ![c] = r] /\ todo' = [todo EXCEPT ![c] = StepsOf(r)]
  /\ c_key' = [c_key EXCEPT ![c] = r.key]
  /\ UNCHANGED <<statics, inner, out, stained>>

\* The call returns: its local variables are gone, and the caller takes the output.
Return(c) ==
  /\ request[c] # NoRequest /\ todo[c] = <<>> /\ Runs(c)
  /\ request' = [request EXCEPT ![c] = NoRequest]
  /\ c_key' = [c_key EXCEPT ![c] = <<>>] /\ inner' = [inner EXCEPT ![c] = <<>>]
  /\ out' = [out EXCEPT ![c] = <<>>] /\ stained' = [stained EXCEPT ![c] = FALSE]
  /\ UNCHANGED <<statics, todo, made>>

\* The next step of c, called name.
Does(c, name) ==
  /\ todo[c] # <<>> /\ todo[c][1] = name /\ Runs(c)
  /\ todo' = [todo EXCEPT ![c] = Tail(@)]
  /\ stained' = [o \in Context |->
       stained[o] \/ (o # c /\ todo[o] # <<>> /\ Group(request[o].kind) = Group(request[c].kind))]
  /\ UNCHANGED <<request, made>>

-----------------------------------------------------------------------------
(* Hashes *)

Hashes(c, name, next) ==
  /\ Does(c, name) /\ hash' = next
  /\ UNCHANGED <<temp_buff, RoundKey, Iv, wild, locals>>

\* Mutant: what waits is left from the last call.
InitialKept == [core_algo_sha256Initial EXCEPT !.state = hash.state]

Initialized == core_algo_sha256Initial

HashStep(c) ==
  \/ Hashes(c, "initial", Initialized)
  \/ Hashes(c, "input", core_algo_sha256Update(hash, request[c].input))
  \/ Hashes(c, "key", core_algo_sha256Update(hash, c_key[c]))
  \/ Hashes(c, "ipad", core_algo_sha256Update(hash, core_algo_xor(c_key[c], "ipad")))
  \/ Hashes(c, "opad", core_algo_sha256Update(hash, core_algo_xor(c_key[c], "opad")))
  \/ Hashes(c, "update inner", core_algo_sha256Update(hash, inner[c]))
  \/ Hashes(c, "final", core_algo_sha256Final(hash))

\* The digest is read: as the key, into the stack, or into the caller's buffer.
ReadDigest(c) ==
  \/ /\ Does(c, "key is digest") /\ c_key' = [c_key EXCEPT ![c] = Bytes(hash.digest)]
     /\ UNCHANGED <<statics, inner, out>>
  \/ /\ Does(c, "inner") /\ inner' = [inner EXCEPT ![c] = Bytes(hash.digest)]
     /\ UNCHANGED <<statics, c_key, out>>
  \/ /\ Does(c, "copy") /\ out' = [out EXCEPT ![c] = hash.digest]
     /\ UNCHANGED <<statics, c_key, inner>>

-----------------------------------------------------------------------------
(* AES *)

Encrypted(k, x) == <<"encrypted", k, x>>
Decrypted(k, x) == <<"decrypted", k, x>>
Xored(x, y) == <<"xor", x, y>>

\* memcpy(temp_buff, in, length), whatever the length; the key schedule; the pointer.
Prepare(c) ==
  \/ /\ Does(c, "temp") /\ temp_buff' = request[c].input
     /\ wild' = (Len(request[c].input) > TempBlocks)
     /\ UNCHANGED <<hash, RoundKey, Iv, locals>>
  \/ /\ Does(c, "keys") /\ RoundKey' = request[c].key
     /\ UNCHANGED <<hash, temp_buff, Iv, wild, locals>>
  \/ /\ Does(c, "iv") /\ Iv' = request[c].iv
     /\ UNCHANGED <<hash, temp_buff, RoundKey, wild, locals>>

\* The block of temp_buff whose turn it is; it may hold another context's.
Block(c) ==
  LET n == Len(out[c]) + 1 IN IF n <= Len(temp_buff) THEN temp_buff[n] ELSE <<"old">>

ChainedBlock(c) ==
  /\ Does(c, "chained block")
  /\ LET encrypts == request[c].kind = "cbc encrypt"
         result   == IF encrypts THEN Encrypted(RoundKey, Xored(Block(c), Iv))
                     ELSE Xored(Decrypted(RoundKey, Block(c)), Iv)
     IN /\ out' = [out EXCEPT ![c] = Append(@, result)]
        /\ Iv' = IF encrypts THEN result ELSE Block(c)
  /\ UNCHANGED <<hash, temp_buff, RoundKey, wild, c_key, inner>>

EcbBlock(c) ==
  /\ Does(c, "block")
  /\ out' = [out EXCEPT ![c] = Append(@,
       IF request[c].kind = "ecb encrypt" THEN Encrypted(RoundKey, Block(c))
       ELSE Decrypted(RoundKey, Block(c)))]
  /\ UNCHANGED <<statics, c_key, inner>>

CallsNext ==
  ~wild /\ \E c \in Context :
    \/ \E r \in Request : Begin(c, r)
    \/ Return(c)
    \/ HashStep(c) \/ ReadDigest(c) \/ Prepare(c) \/ ChainedBlock(c) \/ EcbBlock(c)

CallsSpec == CallsInit /\ [][CallsNext]_callsVars

-----------------------------------------------------------------------------
\* The results by their definitions; of CBC block n is computed from the ones before it.
Cbc(r) ==
  LET c[n \in 0 .. Len(r.input)] ==
        IF n = 0 THEN r.iv ELSE Encrypted(r.key, Xored(r.input[n], c[n - 1]))
  IN [n \in 1 .. Len(r.input) |-> c[n]]

CbcBack(r) ==
  [n \in 1 .. Len(r.input) |->
    Xored(Decrypted(r.key, r.input[n]), IF n = 1 THEN r.iv ELSE r.input[n - 1])]

Expected(r) ==
  CASE r.kind = "sha"  -> Sha(r.input)
    [] r.kind = "hmac" -> Hmac(r.key, r.input)
    [] r.kind = "cbc encrypt" -> Cbc(r)
    [] r.kind = "cbc decrypt" -> CbcBack(r)
    [] r.kind = "ecb encrypt" -> [n \in DOMAIN r.input |-> Encrypted(r.key, r.input[n])]
    [] r.kind = "ecb decrypt" -> [n \in DOMAIN r.input |-> Decrypted(r.key, r.input[n])]

(* Only calls of the same kind, hashes or ciphers, disturb each other: a     *)
(* call that none of its own kind overlapped has the right result, whatever  *)
(* the calls before it left behind (algo_sha256.c:27, aes_base.c:39).  Not   *)
(* so once an AES input longer than temp_buff has been copied, by a call of  *)
(* any context (algo_api.c:6, 20, 47).                                       *)
OnlyOwnKindDisturbs ==
  ~wild =>
    \A c \in Context :
      todo[c] = <<>> /\ request[c] # NoRequest /\ ~stained[c] => out[c] = Expected(request[c])
=============================================================================
