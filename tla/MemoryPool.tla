----------------------------- MODULE MemoryPool -----------------------------
(***************************************************************************)
(* The allocator below a rapidjson document.  Blocks are cut from the head *)
(* chunk, one after the other, and never freed; a block that must grow     *)
(* does so in place when it is the last of the head chunk and there is     *)
(* room, and moves otherwise.  Three kinds of block live in one pool: the  *)
(* elements of arrays, copied strings, and the document's parse stack.     *)
(***************************************************************************)
EXTENDS Integers, Sequences

CONSTANTS
  Arrays, PoolStrings, Stack,  \* the owners of blocks; there is one stack
  ElementSize,                 \* of an array element
  StringSizes, PushSizes,      \* what a string needs, what is pushed at once
  StackCapacity,               \* the stack's first size
  ChunkCapacity,               \* the least capacity of a chunk
  MaxChunks                    \* bound

Owners == Arrays \cup PoolStrings \cup {Stack}

ASSUME OwnersAssumption ==
  /\ Stack \notin Arrays \cup PoolStrings /\ Arrays \cap PoolStrings = {}
  /\ ElementSize \in Nat \ {0} /\ ChunkCapacity \in Nat /\ StackCapacity \in Nat \ {0}
  /\ StringSizes \subseteq Nat \ {0} /\ PushSizes \subseteq Nat

VARIABLES
  chunks,   \* the chunks in the order they were added; the last is the head
  blocks,   \* the block of each owner, of size 0 when it has none yet
  mem       \* for each byte of each chunk, the owner who wrote it last

poolVars == <<chunks, blocks, mem>>

HeadChunk == Len(chunks)
Nobody == "nobody"
NoBlock == [chunk |-> 0, at |-> 0, size |-> 0, used |-> 0]

(* Mutant: sizes are taken as they are asked for.                          *)
Unaligned(n) == n

Aligned(n) == 4 * ((n + 3) \div 4)
Larger(a, b) == IF a > b THEN a ELSE b

NewChunk(capacity) == [capacity |-> capacity, size |-> 0]
NewMem(capacity) == [i \in 0..(capacity - 1) |-> Nobody]

(* The stack takes the pool's first block.                                 *)
PoolInit ==
  LET capacity == Larger(ChunkCapacity, Aligned(StackCapacity))
  IN /\ chunks = <<[capacity |-> capacity, size |-> Aligned(StackCapacity)]>>
     /\ blocks = [o \in Owners |-> IF o = Stack
          THEN [chunk |-> 1, at |-> 0, size |-> StackCapacity, used |-> 0] ELSE NoBlock]
     /\ mem = <<NewMem(capacity)>>

(* What an owner asks for next: the size of its block and the bytes it has *)
(* written in it then.  Arrays double when they are full, and so does the  *)
(* stack, which leaves at least a byte free.                               *)
Demands(o) ==
  LET b == blocks[o]
  IN CASE o \in Arrays ->
            {<<IF b.size = 0 THEN ElementSize
               ELSE IF b.used + ElementSize > b.size THEN 2 * b.size ELSE b.size,
               b.used + ElementSize>>}
       [] o \in PoolStrings -> {<<n, n>> : n \in {n \in StringSizes : b.size = 0}}
       [] OTHER ->
            {<<IF b.used + n >= b.size THEN Larger(2 * b.size, b.used + n) ELSE b.size,
               b.used + n>> : n \in PushSizes}

(* The owner writes what it has added, from byte lo up to hi of its block. *)
Writes(m, o, block, lo, hi) ==
  [m EXCEPT ![block.chunk] = [i \in DOMAIN @ |->
     IF block.at + lo <= i /\ i < block.at + hi THEN o ELSE @[i]]]

IsEnough(o, size) == size <= blocks[o].size

WriteMore(o, used) ==
  /\ blocks' = [blocks EXCEPT ![o].used = used]
  /\ mem' = Writes(mem, o, blocks[o], blocks[o].used, used)
  /\ UNCHANGED chunks

HasRoom(size) == chunks[HeadChunk].size + Aligned(size) <= chunks[HeadChunk].capacity

(* Malloc, and the copy of what the old block held.                        *)
MoveTo(o, block, cs, m) ==
  LET old == blocks[o]
      copied == [m EXCEPT ![block.chunk] = [i \in DOMAIN @ |->
        IF block.at <= i /\ i < block.at + old.size
        THEN m[old.chunk][old.at + (i - block.at)] ELSE @[i]]]
  IN /\ chunks' = [cs EXCEPT ![block.chunk].size = @ + Aligned(block.size)]
     /\ blocks' = [blocks EXCEPT ![o] = block]
     /\ mem' = Writes(copied, o, block, old.used, block.used)

Moves(o, size, used) ==
  /\ HasRoom(size)
  /\ MoveTo(o, [chunk |-> HeadChunk, at |-> chunks[HeadChunk].size, size |-> size, used |-> used],
            chunks, mem)

MovesToNewChunk(o, size, used) ==
  LET capacity == Larger(ChunkCapacity, Aligned(size))
  IN /\ ~HasRoom(size) /\ HeadChunk < MaxChunks
     /\ MoveTo(o, [chunk |-> HeadChunk + 1, at |-> 0, size |-> size, used |-> used],
               Append(chunks, NewChunk(capacity)), Append(mem, NewMem(capacity)))

(* Mutant: any block of the head chunk is taken for its last.              *)
InHead(o) == blocks[o].chunk = HeadChunk /\ blocks[o].size > 0

IsLast(o) ==
  /\ blocks[o].size > 0 /\ blocks[o].chunk = HeadChunk
  /\ blocks[o].at + blocks[o].size = chunks[HeadChunk].size

Increment(o, size) == Aligned(size - blocks[o].size)
CanExpand(o, size) ==
  IsLast(o) /\ chunks[HeadChunk].size + Increment(o, size) <= chunks[HeadChunk].capacity

Expands(o, size, used) ==
  /\ chunks' = [chunks EXCEPT ![HeadChunk].size = @ + Increment(o, size)]
  /\ blocks' = [blocks EXCEPT ![o].size = size, ![o].used = used]
  /\ mem' = Writes(mem, o, blocks[o], blocks[o].used, used)

Realloc(o, size, used) ==
  /\ ~IsEnough(o, size)
  /\ \/ CanExpand(o, size) /\ Expands(o, size, used)
     \/ ~CanExpand(o, size) /\ (Moves(o, size, used) \/ MovesToNewChunk(o, size, used))

Demand(o) == \E d \in Demands(o) :
  (IsEnough(o, d[1]) /\ WriteMore(o, d[2])) \/ Realloc(o, d[1], d[2])

(* The end of a value takes its parts off the stack again.                 *)
PopStack ==
  /\ \E n \in PushSizes : n <= blocks[Stack].used
       /\ blocks' = [blocks EXCEPT ![Stack].used = @ - n]
  /\ UNCHANGED <<chunks, mem>>

PoolNext == (\E o \in Owners : Demand(o)) \/ PopStack
PoolSpec == PoolInit /\ [][PoolNext]_poolVars

-----------------------------------------------------------------------------
(* Properties.                                                             *)

BlockType == [chunk : Nat, at : Nat, size : Nat, used : Nat]

TypeOK ==
  /\ chunks \in Seq([capacity : Nat, size : Nat]) /\ HeadChunk > 0
  /\ blocks \in [Owners -> BlockType]
  /\ Len(mem) = HeadChunk
  /\ \A k \in 1..HeadChunk : DOMAIN mem[k] = 0..(chunks[k].capacity - 1)

Live == {o \in Owners : blocks[o].size > 0}
End(o) == blocks[o].at + Aligned(blocks[o].size)

(* A block lies, with its padding, in the allocated part of its chunk, and *)
(* an owner never uses more than it was given.                             *)
Inside ==
  /\ \A k \in 1..HeadChunk : chunks[k].size <= chunks[k].capacity
  /\ \A o \in Live :
       /\ blocks[o].chunk \in 1..HeadChunk
       /\ End(o) <= chunks[blocks[o].chunk].size
       /\ blocks[o].used <= blocks[o].size

(* Two blocks never share a byte.                                          *)
Disjoint == \A o, p \in Live :
  o # p /\ blocks[o].chunk = blocks[p].chunk =>
    End(o) <= blocks[p].at \/ End(p) <= blocks[o].at

(* The assertions on alignment, of blocks and of what the next one gets.   *)
AlignedBlocks ==
  /\ \A k \in 1..HeadChunk : chunks[k].size % 4 = 0
  /\ \A o \in Live : blocks[o].at % 4 = 0

PoolInv == TypeOK /\ Inside /\ Disjoint /\ AlignedBlocks

(* What an owner has written it finds again, however often its block grew, *)
(* moved, or was followed by others.                                       *)
ContentsAreKept == \A o \in Live : \A i \in 0..(blocks[o].used - 1) :
  mem[blocks[o].chunk][blocks[o].at + i] = o

(* However blocks are asked for, grow, move and are given up again: they   *)
(* lie where they may, and hold what was written in them.                  *)
PoolKeepsBlocks == PoolInv /\ ContentsAreKept
=============================================================================
