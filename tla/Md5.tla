-------------------------------- MODULE Md5 ---------------------------------
(***************************************************************************)
(* algo_md5.c: the same for MD5.  Full blocks are taken from the input     *)
(* itself, only the rest of a message waits in the buffer, and the buffer  *)
(* is not cleared.  The length is counted in bytes.                        *)
(***************************************************************************)
EXTENDS Sha256

\* algo_md5_init and algo_md5_free; digest stands for the state of the compression.
algo_md5_init == [digest |-> <<>>, buffer |-> Zeros(BlockLen), total0 |-> 0, total1 |-> 0]

algo_md5_starts_ret(c) == [c EXCEPT !.digest = <<>>, !.total0 = 0, !.total1 = 0]

algo_internal_md5_process(c, block) == [c EXCEPT !.digest = Append(@, block)]

\* The input stored in the buffer from the place after left on.
Filled(c, left, input) ==
  [c EXCEPT !.buffer = [i \in 1 .. BlockLen |->
    IF i \in left + 1 .. left + Len(input) THEN input[i - left] ELSE @[i]]]

Counted(c, n) ==
  LET low == (c.total0 + n) % WordMod
  IN [c EXCEPT !.total0 = low, !.total1 = IF low < n THEN (@ + 1) % WordMod ELSE @]

\* The part of the input after its first n bytes, by blocks, and the rest to the buffer.
Whole(c, input) ==
  LET full == Len(input) \div BlockLen
      done == [c EXCEPT !.digest = @ \o InBlocks(input)]
  IN [block |-> done, rest |-> SubSeq(input, full * BlockLen + 1, Len(input))]

\* Mutant: a buffer that is just filled waits for the next byte.
FillsLate(left, ilen) == left > 0 /\ ilen > BlockLen - left

\* What waits, and the input, make a block.
Fills(left, ilen) == left > 0 /\ ilen >= BlockLen - left

algo_md5_update_ret(c, input) ==
  LET left  == c.total0 % BlockLen
      fill  == BlockLen - left
      count == Counted(c, Len(input))
      first == Filled(count, left, SubSeq(input, 1, fill))
      begun == Fills(left, Len(input))
      r     == IF begun
               THEN Whole(algo_internal_md5_process(first, first.buffer),
                          SubSeq(input, fill + 1, Len(input)))
               ELSE Whole(count, input)
  IN IF input = <<>> THEN c ELSE Filled(r.block, IF begun THEN 0 ELSE left, r.rest)

\* The buffer cleared from the place after from on, up to the length.
Cleared(c, from) == Filled(c, from, Zeros(Room - from))

algo_md5_finish_ret(c) ==
  LET used   == (c.total0 % BlockLen) + 1
      ended  == Filled(c, used - 1, <<End>>)
      full   == Filled(ended, used, Zeros(BlockLen - used))
      last   == IF used <= Room THEN Cleared(ended, used)
                ELSE Cleared(algo_internal_md5_process(full, full.buffer), 0)
      high   == ((c.total0 * Bits) \div WordMod) + ((c.total1 * Bits) % WordMod)
      low    == (c.total0 * Bits) % WordMod
      closed == Filled(last, Room, <<Word(low), Word(high)>>)
  IN algo_internal_md5_process(closed, closed.buffer)

ingeek_md5_md(input) ==
  algo_md5_finish_ret(algo_md5_update_ret(algo_md5_starts_ret(algo_md5_init), input)).digest

-----------------------------------------------------------------------------
(* RFC 1321 *)
Md(m) == Padded(m, <<Word(Low(m)), Word(High(m))>>)
=============================================================================
