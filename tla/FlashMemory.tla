---------------------------- MODULE FlashMemory -----------------------------
(***************************************************************************)
(* What a flash driver promises: the bytes of a write go to the addresses  *)
(* they are meant for and to no other, sector after sector.  A power loss  *)
(* spoils nothing but the cells that are open at that moment: at most the  *)
(* sector being written.  W25Flash implements it.                          *)
(***************************************************************************)
EXTENDS Naturals, Sequences

CONSTANTS Size,        \* bytes of memory
          SectorSize,
          Byte,
          Erased       \* the byte of an erased cell

VARIABLES mem,
          todo,        \* what the write under way has still to write
          open         \* the cells that are not safely stored yet

vars == <<mem, todo, open>>

Address == 0 .. Size - 1
InSector(a) == {x \in Address : x \div SectorSize = a \div SectorSize}

Nothing == [addr |-> 0, data |-> <<>>]

Range(w) == w.addr .. w.addr + Len(w.data) - 1

\* Memory m after the bytes of w are stored in it.
Stored(m, w) == [x \in DOMAIN m |-> IF x \in Range(w) THEN w.data[x - w.addr + 1] ELSE m[x]]

\* The bytes of w that go to the sector of its address, and the others.
Share(w) ==
  LET room == SectorSize - (w.addr % SectorSize)
  IN IF Len(w.data) <= room THEN w
     ELSE [addr |-> w.addr, data |-> SubSeq(w.data, 1, room)]

Without(w, n) ==
  IF n = Len(w.data) THEN Nothing
  ELSE [addr |-> w.addr + n, data |-> SubSeq(w.data, n + 1, Len(w.data))]

Init == mem \in [Address -> Byte] /\ todo = Nothing /\ open = {}

Start ==
  /\ todo = Nothing /\ open = {}
  /\ todo' \in [addr : Address, data : Seq(Byte) \ {<<>>}]
  /\ UNCHANGED <<mem, open>>

\* The other bytes of the sector are only at risk if it has to be erased.
Piece ==
  /\ todo # Nothing /\ open = {}
  /\ mem' = Stored(mem, Share(todo))
  /\ todo' = Without(todo, Len(Share(todo).data))
  /\ \/ open' = InSector(todo.addr)
     \/ open' = Range(Share(todo)) /\ \A x \in Range(Share(todo)) : mem[x] = Erased

Erase ==
  /\ todo = Nothing /\ open = {}
  /\ open' = Address \/ \E a \in Address : open' = InSector(a)
  /\ mem' = [x \in Address |-> IF x \in open' THEN Erased ELSE mem[x]]
  /\ UNCHANGED todo

Settle == open' \in SUBSET open /\ UNCHANGED <<mem, todo>>

PowerLoss ==
  /\ mem' \in [Address -> Byte]
  /\ \A x \in Address \ open : mem'[x] = mem[x]
  /\ todo' = Nothing /\ open' = {}

Next == Start \/ Piece \/ Erase \/ Settle \/ PowerLoss

Spec == Init /\ [][Next]_vars
=============================================================================
