# A TLA+ model of my_code_resp

`src/` is a collection of C modules for small embedded systems: queues, framing,
flash drivers, the T=1 smart card protocol, text and cryptographic helpers. The
modules hardly call each other, but they are made to be stacked: interrupt handlers
and tasks exchange bytes over the queues, the framing runs on those bytes, the
protocols run on the frames. There are no tests in the repository. This directory
states what the modules promise, checks it with TLC and proves the core of it with
TLAPS. `PROJECT.json` maps every definition to the lines it models, and lists
components, hazards, runs, mutants, findings and theorems.

## Inventory

| component | state it keeps | operations | what is hard | what makes it correct |
|---|---|---|---|---|
| byte ring queue (`2 环形buff/kit_ring_queue.c`) | head, tail, slots of two static queues | push, pop, volume | tests outside the critical section, two unprotected reads, a volume cut to a char | it is a FIFO; no overrun; "filled" is never wrong for the popper |
| batch queue (`queuefromlhj/queue.c`) | front, rear, lenght, elements | put, get, clear, sizes | the same; a clear is three stores with interrupts on | batches whole and in order; the three counters agree |
| T=1 (`7 T=1协议/openct(适配JD)/proto-t1.c`, `buffer.c`, `checksum.c`) | state, ns, nr, ifsc, more, previous block, retries, resyncs, two buffers, the driver's timeout | init, transceive, build, rebuild, exchange, ifsd negotiation, checksums | lost and garbled blocks, repetitions, resynchronisation, time extensions | an APDU is executed once and answered whole; calls return |
| W25Qxx flash (`5 Flash读写管理`) | the chip; sector buffer | write, erase, read, poll | page and sector boundaries, power loss, restart with a busy chip | a write changes its bytes only; a loss stays in one sector |
| SST25VF flash | the chip; transfer buffer, sector buffer | the same, byte by byte | transfer buffer smaller than a sector, one write enable for many bytes | what a transfer reaches is never garbled |
| UART framing (`4 Uart_拆组包`) | decoder status, receive buffer, decoded buffer | encode, decode a byte, CRC | line faults, full buffer, escapes, stale output | an undamaged frame is always found; errors are detected |
| BLE messages (`3 转义代码`) | static index and buffer over several calls | combine, parse, escape | fragments lost, repeated, too many | one message is made of its own fragments |
| AT frames (`6 AT&透传 封装与解析`) | header match, counters, length, time of the header | capture a byte, fetch, assemble | time-out against arrival, 8-bit counters, headers in the data | a frame is delivered whole or not at all |
| debug print (`1 重定义printf`) | one static text buffer | print, dump | shared by all contexts; a formatter of its own | a line that is sent is a line that was printed, as ISO C prints it |
| string conversion (`10 字符串转换`) | none | bytes to text and back | characters that are no digits | round trip |
| hashes and AES (`8 安全算法`) | hash contexts (partial block, bit count), static copies and keys | init, update, finish; encrypt, decrypt | padding over many updates, 32-bit counters, shared statics | the digest depends on the text and not on how it is cut; decryption undoes encryption |
| elliptic curves (`8 安全算法/easy_ecc.c`) | none | big numbers, points, keys, ECDH, ECDSA | carries, special points and factors, byte order | the numbers' arithmetic; keys agree; signatures verify |
| vendored (`easy-ecc-master`, FatFS archives) | | | | not ours |

How the parts meet in the models: interrupt handlers and tasks share queue memory
and static buffers (RingQueue, BulkQueue, DebugPrint, CryptoCalls); host, reader and
card exchange blocks, and `t1_xcv` shares its timeout with the rest of the driver
(T1System, T1Xcv); driver and chip work at the same time (W25Flash, Sst25Flash); sender
and decoder are joined by a line (UartProtocol, AtFrame, DkProtocol).

## The modules

Definitions whose comment begins with "Mutant" are plausible bugs of the definition
that follows; the specifications do not use them, `PROJECT.json` says which property
each must break. MC modules give constants their values; several of them hold instances
of a few modules side by side, each with variables of its own, of which a variable
chosen in the initial state (`object`, `device`, `kind`, `scene`) lets one move. The
constants of those compositions (MCShared, MCFlash, MCFrames, MCAlgorithms) are declared and
only the .cfg fixes them, so that theorems about `MCSpec` hold for every value; their
assumptions (`BulkFits`, `PrintFits`, `SectorsFit`, `Sst25Fits`, `UartFits`, ...) are those of the
modules they instantiate.

**Fifo, RingQueue.** `UtilRingQueuePush` and `Pop` test the indices with interrupts
on and move one of them with interrupts off. Each call is therefore two actions
(`PushCheck`/`PushCommit`, `PopCheck`/`PopCommit`), and a context with a priority at
least as high as all those in the middle of a call may run between them (`Runs`).
`GetVolume` has no critical section; `VolumeCompare` is its comparison and
`VolumeReturn` its subtraction, each operand of which is the value then read or
read again, since the indices are not volatile. The wrappers return the volume
through a `char`, hence `CharMod`. `Fifo` is the abstract queue with atomic calls;
`ImplementsFifo` is the refinement, the queue being read off the ring.

**BulkFifo, BulkQueue.** The same for `queue.c`: batches go in and out in one
critical section after a test outside it. Indices are counted in elements and
wrap late, as in the code. The loops of put and get have a closed form: turn j of
one that begins at index i is at `At(i, j)`, and n turns leave the index at
`After(i, n)`. `queue_clear_data` is `ClearFront`, `ClearRear`, `ClearLenght`.
`Roles` says who may use the queue: one putter, one getter, and nobody but the
getter clears, whom nothing interrupts.

**MCShared, SharedBulk.** The two queues without any such roles, and a history variable:
whether two calls have overlapped that do not tolerate each other (two pushes or two pops; two
puts, two gets, or a clear and any call). `StaleNeedsOverlap`, `HarmNeedsOverlap` and
`FifoUntilOverlap`, `FifoUntilClash` say that the queues are right until then.

**T1Reader.** One call of `t1_transceive` is the action `Transceive` followed by
turns of the loop. Each turn is one action, from the block received to the block
built, and takes in every state change of that branch; the branches that share code
(the R-block of rule 7.2 / 7.4.2, the label `resync`) share an operator
(`Complain`, `Resync`). `retries` is an unsigned int that wraps (`UIntMod`). The
card and the line are `AnyAnswer`: any block or fault at all. Data is counted in
units; the NAD, the checksum value and the PCB bits are what the code decodes
from them. `previous` only distinguishes an R-block, the only one that is looked at.

**T1System.** The same reader with an ISO 7816-3 card and a line. Neither is in the
repository, so both are external: the card is what the reader's comments and
branches take it for. It repeats, resets itself on S(RESYNCH), and asks for time
or another ifsc. The line garbles at most `MaxFaults` blocks, in either direction.
`executed` and `calls` are history variables; `resynced` records whether a
resynchronisation has happened since power-up and whether it lost something.

**T1Xcv.** T1Reader with the read timeout of the CCID driver and `t1_negotiate_ifsd`.
`Xcv` strengthens `AnyAnswer` by what `t1_xcv` does to `readTimeout` and `wtx` on
each of its ways out.

**FlashMemory, W25Flash.** `W25QXX_Write` is cut where the chip can do something:
read, write enable, erase command, end of the erase, each page program and its
end. A byte is the set of its programmed bits, so programming is a union.
`FlashMemory` says what the caller may rely on: the bytes of a write are stored,
sector by sector, and a power loss spoils only what is `open`. W25Flash implements
it through `View`, the memory the driver is working towards: a sector counts as
written once its erase has begun, and stays open until its last page is done.

**Sst25Flash.** `spi_flash.c` has the sector loop of W25Flash and programs a byte at a
time. A read receives a whole sector into `g_spi_inout_buff`, of which `Transfer` bytes fit; the
build decides what is `behind` it. If that is `g_sector_buff`, which the file declares next and
which has room for the excess, the copy that follows is one between overlapping places, and the
bytes past the transfer are any bytes. If it is other memory, the driver is `wild`: it takes no further
step, and `PowerCycle` starts again with any contents of the chip. The chip clears its write enable
latch with every byte (`ByteProgram`), so that the first of a series is stored and the others are
ignored. `expect` is the history of what the reachable bytes should hold.

**UartProtocol.** `Encode` is the whole encoder, `Decode(b)` a call of the decoder.
The decoded buffer keeps its stale bytes. Bytes are few (`ByteMod`), the CRC is the
code's table walk with addition modulo `ByteMod` in place of exclusive or, which
keeps that a message followed by its CRC has CRC zero.

**Crc16.** The real CRCs of `crc16.c` and `checksum.c` over bytes: the two tables of each
variant and the bitwise computation a macro selects instead.

**DkProtocol.** `ingeek_combine_ble_msg` over a link that loses and repeats fragments. `wild`
records a store past the buffer, `risky` whether a packet was sent in one piece, or one whose second
fragment does not fit once more behind it. The level and the buffer end at `TempLen` together, as
256 does.

**AtPacket, AtFrame.** `MslFrameCapture` is one action per byte, with the byte's
position in the frame that is being sent, the age of the header in ticks and the 8-bit
counters. AtPacket has the packets and the numbers in them as functions.

**DebugPrint, Printf.** DebugPrint is the static buffer: one store per character, then
the callback. Printf is `Debug_Vsprintf` as a function of format and arguments, each part
of a directive (flags, width, precision, qualifier, conversion) mapping what is known so
far to the next.

**FmtTrans.** The conversions of `fmt_trans.c`, with the macro of line 42 as it expands. Line 78 reads
`*p` and `*(++p)` in one expression; `StringToCom` takes the order as an argument.

**Sha256, Md5, HashStream, CryptoCalls.** A digest is the sequence of the blocks that
went into it, a byte is where it comes from: what is modelled is how the pieces of a
message, the padding and the counted length get into blocks. HashStream gives messages in
pieces, one after the other with the same context. CryptoCalls is the one-call interface on
static variables, with context switches between its steps. `temp_buff` has 288 bytes, `TempBlocks`
blocks of 16, and the copies to it (algo_api.c:20, 47) have no bound: one that is longer makes the
model `wild`, and it ends there.

**Aes.** The cipher byte by byte with the code's tables, for keys of 4, 6 and 8 words, and
the ECB and CBC of `algo_api.c`.

**Vli, EasyEcc.** Vli is the arithmetic of `easy_ecc.c` on numbers of four digits, each of
two halves: sums with their carries, both multiplications, the reduction modulo the prime,
remainder and inverse. Digits have 64 bits in the code and 2 or 4 here. This is faithful
because the code only ever moves and compares halves: the prime of secp256r1 is
t^8 - t^7 + t^6 + t^3 - 1 with t = 2^32, and with t = 2 the same reduction is one modulo 199.
EasyEcc is the curve: the ladder, keys and their compressed form, ECDH, ECDSA, on
y² = x³ - 3x + 64 modulo 199, which has the prime order 191; G = (2, 128).

**Loops.** Loops of many turns as TLC can evaluate them, for Crc16, Aes and Vli: what a turn leaves
is computed before the next one begins.

**Texts, Probes.** Every state but the first holds the input of a pure function; the invariants
compare what the code computes with what it stands for. Texts has the functions on texts, and
which inputs there are is a matter of its constants: `TextAssumption` says what a packet, a digit
and a format are. Probes has the functions on numbers: CRCs, AES (FIPS 197), integers and the group.

## The runs

| run | what is asked | bounds, and why they are enough |
|---|---|---|
| ring | FIFO, stale tests, volume; the handler pushes, the task pops | 4 slots, two bytes: all index positions, wrap and full; `CharMod` 4 keeps the volume within a char, as for the 250-byte receive queue. The 500-byte transmit queue, where it does not, is covered by the theorem `FilledIsSound` |
| bulk | batches whole and in order, counters agree | 3 elements, batches of 1 and 2: both wrap positions of a batch. Every size: the theorems |
| shared | harm needs an overlap, for three objects: two pushers and two poppers of the byte queue; all roles of the batch queue in two contexts; two contexts that print and dump | 3 slots or elements; a buffer of 5 characters, rows of 2 |
| t1_reader | types, acknowledgement, chain, repetition, retries against any card | APDUs of 1 and 3 units, ifsc 1 or 2: no chain, chains cut at one length and another; the answer buffer holds one unit, so it overruns; `UIntMod` 8 lets retries wrap |
| t1_system | executed once, answered whole, clean resynchronisation, calls return, numbers in step before each | 5 faults: more than the 3 retries, so resynchronisation and giving up happen; 2 requests of the card; 3 APDUs between resets, for numbers carried over calls and in step before each |
| t1_resync *(violation)* | is an answer the answer to the APDU, also after a resynchronisation | as t1_system |
| t1_xcv | timeout at block level, and negotiation | multipliers 0 to 2, timeouts up to 8 |
| flash | page and erase discipline, refinement with power loss, reachable bytes, writes return | four chips: 2 sectors of 2 pages of 2 bytes with writes of 1 to 3 bytes at every address and every initial content; 3 sectors of 2 bytes with writes of up to 5, for a sector in the middle; 2 sectors with restarts of the processor; an SST25VF of 2 sectors of 3 pages of a byte, of which a transfer reaches 2, with both things behind the buffer, every content and writes of 1 to 4 bytes |
| frames | which frames the UART, AT and BLE decoders find, after 2 faults | UART: messages without and with escapes, a buffer of 9 bytes that the longer frame fills; AT: frames too short, with half a header, with a header byte in the data, of the largest length; BLE: packets with and without escapes, whole or in two, a buffer in which a whole one can wait until the level has wrapped. Two faults suffice to lose a tail and fill a buffer |
| dk_fragments *(violation)* | is a packet delivered when its last fragment has arrived | the packets of frames (module MCFrames) |
| algorithms | digests, refusal, disturbed calls, and the pure functions | words of 3 bits, blocks of 4 bytes of 2 bits: the lower word of a count wraps every four bytes, both words after 32, and messages reach 33; keys shorter than a block, of a block, longer. AES inputs of two blocks, which `temp_buff` holds, and of three. CRCs, text, AES tables: every byte, characters next to every boundary. Formats: every text of up to 4 characters over 9; numbers: 5 bits, every combination of flags, capitals too. Curve: 20 numbers at all boundaries, every factor 0 to 255, every nonce, private keys at the ends and with x = 0 |
| ecc_product *(violation)* | is a product the product | the 20 numbers of algorithms (module MCAlgorithms), digits of 2 bits |

The check for deadlock is off where the system may stop: in the T1System runs the host
stops after `MaxCalls` APDUs, in algorithms after `MaxCalls` calls.

### Where the code does less than its comments say

Three runs exhibit a disagreement.

* t1_resync: after a resynchronisation in the middle of a chain the reader sends the rest
  of the APDU as if it were an APDU (proto-t1.c:405 against 154). `CleanResyncIsHarmless`
  shows that this is the only harm: when nothing had been acknowledged, the answer is the
  right one.
* dk_fragments: `GET_MSG_BIT` does not shift its bit down, so no fragment is ever parsed at
  once (dk_protocol.c:182 against 153), and a later fragment is copied to where it should
  end (206, 214), behind a gap of its own length. `OverrunHasACause` says when the copy nevertheless
  stays within the buffer.
* ecc_product: the multiplication without 128-bit numbers loses a carry when the upper digit
  of the partial sum is all ones (easy_ecc.c:377, and 408 when squaring; `SUPPORTS_INT128`
  is 0 at line 11). With 64-bit digits, lowest first, {2^64-1, 1, 2^63, 0} times
  {1, 2^64-2, 2^64-1, 0} comes out 2^256 too small, and both factors are below p.
  `EccIsRight` shows that a product is exact or short by a multiple of 2^256, and that the
  128-bit multiplication is exact.

The others were met while modelling. The models do what the code does, and the
properties are stated with the exception they need:

* `t1_rebuild` repeats four bytes, one too few for an R-block with a CRC (proto-t1.c:597,
  616); `RcBytes` is 1 in the runs.
* an I-block during a resynchronisation moves `nr` and the answer on, but neither `ns` nor the
  state (355), and the call may return with `ns` 0 while the card waits for 1; `Lossy` takes it in,
  and with it `StartsInStep` has no other exception than the lossy resynchronisations.
* a parity error or failure in an extended exchange leaves the timeout extended (718
  against 737): `TimeoutGrowsOnFaults` names these two ways out and no other.
* at character level the extension is never taken back (671): `ExtensionIsTemporary` is
  stated at block level.
* a restarted processor does not wait for a busy flash before it reads (w25qxx.c:165),
  and its write enable precedes the wait (303): the refinement is checked and proved
  without such restarts, `WriteReturns` is checked with them.
* the SST25VF driver receives 4100 bytes into a buffer of 261 (spi_flash.c:107). What is behind is
  overwritten: with the sector buffer there, the far end of the sector is garbled and written
  back; with anything else there, nothing is known. And the chip it identifies (20) keeps only the
  first byte of a series (150). `NearBytesAreRightOrErased` says what remains true of the
  bytes that fit, in builds of the first kind: each is what was written to it or erased, and the first
  of a sector is what was written to it. No comment or test of the driver says otherwise, so it is not
  a finding.
* `temp_buff` (algo_api.c:6) has 288 bytes and the copies to it no bound: `OnlyOwnKindDisturbs` is
  about the time before a longer input is copied.
* the order of the two reads at fmt_trans.c:78 is the compiler's; `TextsReadBack` claims a number in
  every build only if its two digits are the same.
* a frame that begins with the receive buffer exactly full is lost (uart_protocol.c:151):
  `IntactFrameRecovers` excepts it.
* an empty frame and a frame with a bad escape may be accepted (convert.c:116, 137).
* an AT frame may be completed by one byte that is too late (at_code.c:109), a header in
  the data drops the frame under way (65), and packet ids above 255 are cut (138).
* the 500-byte transmit queue answers 0 when it holds 256 bytes (kit_ring_queue.c:74):
  `ZeroMeansEmpty` is a property of the other queue.
* `queue_is_empty` is true of a full queue (queue.h:73 against 66); it has no caller and
  is not modelled.
* `Debug_Vsprintf` differs from ISO C in `%#o`, in `#` with 0, in precision 0 with 0 and in
  the flag 0 with a precision; `PrintsAsIso` is about the other combinations.
* `IS_HEX_DATA` lacks parentheses (fmt_trans.c:42): a pair with one digit in it passes.
  `RefusedIfNoDigit` says what is refused.
* the ladder is wrong for the factors 0, 1 and n - 1 and for points with x = 0
  (easy_ecc.c:948); the parity of y is read from its first, highest byte (1381), so about
  half of all public keys are expanded to their negatives, which ECDH does not notice and a
  signature does; a signature with s = 0 is not drawn again. `EccIsRight` names each.

### Fairness

* T1System: `WF(ReaderStep)`, the loop of `t1_transceive` runs until it returns;
  `WF(CardStep)`, `CCID_Receive` returns a block or times out. The host owes nothing.
* T1Xcv: `WF(IfsdAnswered)` and `WF(Xcv)`, for the same two reasons.
* W25Flash: `WF(Driver)`, its loops run; `WF(Finish)`, the chip ends what it does. Sst25Flash:
  `WF(SDriver)`; its writes return unless the driver is `wild`. Neither restarts nor writes are
  fair.

Everything else is safety.

## The proofs

Each module of proofs begins with the invariant it needs. What a constant may be is the
named assumption of the module; who may use what (`SingleUser`, `Roles`, `~McuResets`,
`~CharLevel`) is a hypothesis of the theorem, and holds in the runs of those properties.

**Shared_proofs**, of the ring queue: from `RingAssumption` (at least two slots, and the volume fits
its `unsigned short`) and `SingleUser` (one pusher, one popper), for every length,
byte set and priorities:

* `ChecksAreNeverStale`: `Spec => []ChecksStayValid`. The inductive invariant is
  `Inv == TypeOK /\ PcUsers /\ ChecksStayValid`; `PcUsers` is needed because
  `ChecksStayValid` survives a push step only if the other context in the middle of
  a call is a popper, who can only make room.
* `RingQueueIsAFifo`: `Spec => ImplementsFifo`. `PushAppends` and `PopTakesHead`
  are the ring arithmetic: a store at tail appends to the contents, a move of head
  drops the first. Steps that move no index stutter.
* `FilledIsSound`: `Spec => []FilledMeansData`. `VolumeInv` says what a
  popper half way through `GetVolume` has seen: its head has not moved, so whatever tail it
  reads, a non-zero difference means a byte.
* `ZeroMeansEmptyHolds`: `Spec => []ZeroMeansEmpty`, for queues whose volume fits a `char`
  (`VolumeFitsChar`, the receive queue and not the transmit queue). `TailInv`: the pusher cannot
  come round past a free slot, so a tail that was first seen below the head is below it at the
  second read too. So what is subtracted is neither 0 nor as large as `CharMod`, and is not cut to
  0.
* without `SingleUser`: `StaleNeedsOverlapHolds` and `SharedRingIsAFifoUntilOverlap`. The steps were
  proved from what a single user gives them, that nobody else is in the middle of the same
  operation, and `~overlapped` gives the same to any number of users.

The same module has the printer and the composition MCShared:

* `UndisturbedLineIsWholeHolds`: `MCSpec => []UndisturbedLineIsWhole`, for every set of contexts,
  priorities, buffer and texts. `PrintInv` says that the buffer holds what an undisturbed context has
  stored so far, and its final zero once it has tested the length.
* `HarmNeedsOverlapHolds`: `MCSpec => []HarmNeedsOverlap`, of both queues. A step of MCShared is a step
  of one of the three and leaves the variables of the others alone; the lemmas of BulkQueue_proofs are
  used through an instance of that module under the names MCShared gives its variables.

**BulkQueue_proofs**, from `BulkAssumption` and `Roles`, for every capacity, batch and
priorities:

* `IndicesAgreeHolds`: `Spec => []IndicesAgree`. `Inv` adds to it (as `Agree`, without the
  remainder) that what a call has counted is still there in its critical section, and what
  a clear has stored so far (`Users`). `Alone`: whoever runs while another clears is the one
  who clears, by its priority; that is why three stores need no critical section.
* `BulkQueueIsAFifo`: `Spec => ImplementsFifo`. `NextPlace`, `OtherPlaces` and `LaterPlace`
  are the arithmetic of an index that wraps late; with them a put appends its batch and a
  get takes a prefix. A clear happens when rear is reset.
* without `Roles`: `HarmNeedsOverlapHolds` and `SharedBulkIsAFifoUntilClash`, by the same lemmas;
  what they ask of the context that runs is `Undisturbed`, which `Roles` and `~clashed` both imply.

**T1_proofs**, of the reader: from `ReaderAssumption`, against every card: `ReaderTypes`,
`AcksStayInBounds`, `ChainsAreContiguous`, `RepeatsStayFresh`, with the inductive
invariant `Inv == TypeOK /\ AckInBounds /\ ChainIsContiguous /\ RepeatsAreFresh`,
one lemma per action. `ProtocolOK` and its other half split the invariant so that
`Resync` and `Complain`, which leave the buffers to their callers, are proved
once. `RetriesAreAlwaysTested` is the action property `RetriesAreTested`: every
branch of the loop that goes on has tested `retries`, but for `WrongLengthS`.

The same module has, from `XcvAssumption` and against every card, `TimeoutGrowsOnFaultsHolds` and,
for block level, `ExtensionIsTemporaryHolds` of T1Xcv. `TimeInv` follows the multiplier around the loop:
granted together with the block that grants it, used by the exchange of that block, gone
when it returns.

**T1_proofs**, of the whole system: from `ReaderAssumption` and `SystemAssumption` (an answer has at
least one unit), for every APDU, answer, card's ifsc, and any number of faults, requests and calls:

* `CallsAreExecutedOnce`, `CommandsAreTheHosts`, `CleanResyncsAreHarmless`, `CallsStartInStep`.
  Reader and card take turns, and between two resets an exchange is in one of seven phases: `Idle`,
  `NotReceived`, `Received`, `Executed`, `Awaiting`, `Collected`, `Resynching`, told apart by who
  has flipped its sequence number. `SysInv` says what each phase has executed, collected and left to
  send, and which blocks may be on the line; one lemma per step says from which phase it leads into
  which. A resynchronisation that has lost something (`resynced = "lossy"`) leaves all phases: from
  there on only the types are claimed, until the next power-up.

**Flash_proofs**, from `FlashAssumption` (pages fill sectors, sectors the memory):

* for the W25Qxx with `~McuResets`, every geometry, content and write:
  `ProgramsErasedCellsHolds`, `StaysInPageHolds`. `Inv` says for each place of the driver what the
  chip is doing: it works only where the driver waits for it, the latch is set when the erase
  command goes out, the cells that are still to be programmed are erased. The lemmas on sectors
  and pages are what divisions and remainders by any size give.
* `DriverIsAMemory`, `Spec => ImplementsMemory`, from the same hypothesis, power loss at any step
  included. `Copies` adds what the driver knows of the memory, the sector it has read and the
  page it has programmed; then every step of driver and chip is shown to be a step of FlashMemory
  or none, under the mapping `View`, `Todo`, `Open`.
* for the SST25VF, `NearIsRightOrErasedHolds`, with `TransferAssumption` (the length of a transfer
  is a natural number), for both builds and a chip that clears its latch. `SInv` says at every place
  of the driver what the cells a transfer reaches are still to become, `Due`, and that it is what
  was written or, except in the first byte of a sector, erased (`Allowed`): before the erase the
  cells with the write put over them, after it what the buffer has for the bytes not yet programmed,
  each of which the chip may ignore. That the latch is set when the first byte of a sector is
  programmed is `wel \/ prog.addr % SectorSize # 0`. What the driver takes for the far end of a
  sector may be anything; of a driver that is `wild` nothing is claimed, and after `PowerCycle` the
  history starts anew.

**MCFlash_proofs** carries this over to the chips side by side: `DriversImplementMemoryHolds`
(`MCSpec => DriversImplementMemory`, the refinement for both geometries, with `~McuResets`) and
`NearBytesAreRightOrErasedHolds` (`MCSpec => []NearBytesAreRightOrErased`). A step that drives
another chip leaves a chip's variables alone, and so is a stutter of its refinement and keeps its
invariant.

**Induction** has what the proofs about data need. FlattenSeq, the loops of CRC and un-escaping, and
those over digits, packets and formats are recursive functions, and the library's induction takes a
predicate as a parameter: `InductionOverNat` is stated for a set in its place, and proved from the
well-foundedness of the subset relation on finite sets; `RecursionExists` gives the sequence of
partial results, without which nothing is known of what a recursive definition chooses;
`FlattenSeqJoins` applies it to FlattenSeq.

**Framing_proofs**, of AT: from `FrameAssumption`, for every buffer, header, digits and bytes on the
line: `CaptureIsWellTyped` (no byte is stored past the buffer), `LateBytesEndFrames`,
`ReportsAreWellFormed`. `AtInv` says that the counters describe the stored bytes (`Scanned`): the
first comma is where it says, and once the second is there the length is its place plus the number
before it, modulo 256. `NumberEnds` is why it makes no difference that the code reads that number
from a buffer with stale bytes behind it.

`IntactFramesAreCaptured` adds `FramesAreFrames` (the length of a frame sent is the number between
its commas). `Arriving` says how far the frame under way has come: after one and two bytes the
matcher is there too, wherever it was before; from the third on the buffer holds the bytes that have
arrived if none was late (`Collected`), and the matcher has seen no more of a header than the frame
itself has (`Matched`), so that `NoHeaderInside` keeps it from starting anew.

**Framing_proofs**, of the UART: from `UartAssumption`, for every CRC table, byte set, message and
length of buffer:

* `DecoderIsWellTyped`: `Spec => []TypeOK`. `ReductionTurns` is the one fact it needs of the bytes:
  un-escaping never writes more than it reads, whatever it reads.
* `IntactFramesRecover`, with `FramesFit` (the frames sent have room in the receive buffer):
  `Spec => []IntactFrameRecovers`. Three facts of data: `OwnCrcIsZero`, a message followed by its
  CRC has CRC zero; `Escaped`, what is escaped holds neither head nor tail; `FrameIsUndone`,
  un-escaping gives back what was escaped, byte by byte (`ByteUndone`). Each is an induction over the
  message. `Recovering` then follows the frame under way: until its head arrives the buffer is not
  full, and from then on it holds the bytes that have arrived. `FramesFit` is no formality: the
  encoder accepts messages whose frames do not fit (the hazard at uart_protocol.c:183).

**Framing_proofs**, of BLE: from `DkAssumption`, for every header length, buffer and set of packets:

* `OverrunsHaveACause`: `Spec => []OverrunHasACause`. `CauseInv` says which fragments of a packet in
  two are still to come, and at which level they find the buffer. That the second never begins with a
  flag and always ends with one is a fact about escaped packets, by `FlattenSeqType`.

`IntactFrameRecoversHolds`, `OverrunHasACauseHolds` and `CaptureHolds` state all
this of the composition MCFrames: `MCSpec => []...`, for every value of the constants of its three
decoders that satisfies `UartFits`, `AtFits` and `BleFits`.

**Algorithms_proofs**, of the hashes: from `HashAssumption` (a block has room for two words and a
digest, the bits of a block divide a word, a length that HMAC takes can be counted) and
`StreamAssumption` (pieces shorter than a word, keys of a length that HMAC takes), for every such
size, key, message and way to cut it, and whatever the contexts were used for before:

* `DigestsAreOfTheWhole`: `Spec => []DigestIsOfTheWhole`, for SHA-256, HMAC and MD5. `StreamInv` says
  that a context has taken in what it was given: the whole blocks of it are in the digest in order,
  the rest of it waits, and the counts are those of its length (`HasTaken`, `MdHasTaken`). SHA-256 takes
  a piece byte by byte, which is an induction over the piece; MD5 fills a block, takes the whole
  blocks and keeps the rest, which are cases. Padding ends in one block or in two, and `OneWay` shows
  that the blocks of a padded message are determined, so that both are those of `DigestIsOfTheWhole`.
* `RefusalsAreDue`: `Spec => []RefusedIfUncountable`. The two words of the count carry as one number
  does (`Round` bytes to the lower one's turn), and the update that cannot count is the one refused.
* `OnlyOwnKindDisturbsHolds`, about CryptoCalls: `CallsSpec => []OnlyOwnKindDisturbs`, for any
  number of contexts, any priorities and calls, and any size of `temp_buff` up to the first copy
  that overruns it, with `RequestsAreCountable` (calls are of the six kinds, and the lengths they
  hash can be counted, as all those the code's `u2` holds can). `CallsInv` says of each context how
  many steps of its call are done (`Within`) and what its local variables and the static ones it
  uses then hold (`Reached`), unless another context has used the same ones since. A step of its own
  context takes that to the next step (`ReachesNext`); a step of another leaves it alone, as the
  steps of a hash write no variable of a cipher and the reverse (`StepsOfGroup`, `GroupsAre`), or is
  remembered in `stained`. That the last step leaves the right result is `DigestsAreOfTheWhole`'s
  lemmas for hashes, and for CBC an induction over the blocks (`CbcIs`).

**Algorithms_proofs**, of the functions on texts: from `TextAssumption` (a packet has the length it
says, digits are ten and none of them separates fields, an `unsigned long` has an even number of
values), for every text, packet, format, list of arguments and width of a long:

* `TextsReadBackHolds`: `TextSpec => []TextsReadBack`. The lemmas `HexReadsBackHolds`,
  `RefusedIfNoDigitHolds`, `DecimalReadsBackHolds` and `PacketReadsBackHolds` say it of one input.
  A pair of hexadecimal digits is cases over sixteen values. For a packet, `DecimalIsRead` shows that
  the decimals of a number are read as its low byte (`WrittenAppend`: a digit more is ten times and
  the digit), `NumberOf` that reading stops at the comma, and `FirstPlace`, `SecondPlace` that the
  commas found are those of the command and not of the data, whatever the data are.
* `PrintsAsIsoHolds`: `TextSpec => []PrintsAsIso`, from two lemmas.
  `FormatEndsAtNulHolds` is about the loop of `Debug_Vsprintf`, which calls itself further on in the
  format: `LoopExists` builds it from the end to the beginning. `Stage` says of each part of a
  directive that it goes on and that what it has taken, together with what may still be taken from
  there on (`Ahead`), does not grow; so nothing is taken that no character stands for, and the end is
  reached and not passed (`Ends`). `NumberIsIsoHolds` compares a number printed by repeated division
  with the quotients by powers of the base that define its digits (`OneDigitMore`, by `TwoDivisions`),
  a field filled before the number is known to end with the one of ISO C (`PaddedNumber`), and a bit
  pattern with the number it stands for, the least one included (`MagnitudeIs`).

The proof found two things about the model that the runs could not: four choices in Printf had arms
that exclude each other only if read in order, which a `CASE` does not promise and TLC happens to
do; they are now `IF`s, as in the code. And the reference definition of
ISO C did not know capital digits, which the run had left out; it has both now.

### Only model-checked

* Liveness (`CallsReturn`, `NegotiationEnds`, `WritesReturn`): out of the prover's reach.
* `ChecksumsAreRight` and `AesIsFips`, which are computed with bit operations, and `EccIsRight`, whose
  big numbers and points are recursive operators: no module of proofs may reach either.

## Not modelled, and why

* the compression functions of SHA-256 and MD5: to how a message is cut, counted and padded any
  function of a block would do, and their arithmetic on 32-bit words is out of TLC's numbers;
* the curves other than secp256r1 and the Windows branches of `easy_ecc.c`: not compiled.
  Random numbers are an input, different from 0;
* power-down, status register and identification of the flash chips: no write uses them.
  Chip erase and power loss of the SST25VF: the first is only in W25Flash, the second is shown there;
* `ingeek_parse_ble_msg`: it keeps no state and dispatches to handlers that are not in the
  repository. `flow_hex` and all logging;
* the branch of CBC for a last block that is not whole: `algo_api.c` cannot reach it;
* the bound of the UART encoder's own buffer (uart_protocol.c:183): listed as a hazard;
* the CCID layer, chips, cards and lines beyond what the code relies on (external); the
  platform macros of queue.h; `easy-ecc-master/ecc.c` and FatFS, which are vendored.

Four hazards have no property, each with the reason in `PROJECT.json`: the truncated R-block, stale
decoded bytes, the encoder's bound, and that of `temp_buff`.

## What could come next

* the UART encoder with messages at its limit, and the framing over the ring queue with an
  interrupt handler and a task;
* context switches within the cipher of a block, not only between the steps of a call.
