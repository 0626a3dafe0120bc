------------------------------- MODULE Arena -------------------------------
(***************************************************************************)
(* The bump allocator of src/memory/arena.c: a chain of blocks, the        *)
(* current one of which is filled from the bottom up, and marks to which   *)
(* the arena can be restored.  The caller is any sequence of calls; malloc *)
(* may fail, and may hand out the address of a block that was freed.       *)
(***************************************************************************)
EXTENDS Integers, Sequences

CONSTANTS
    Addresses,   \* where malloc can put a block
    SizeMax,     \* SIZE_MAX
    Alignment,   \* _Alignof(max_align_t)
    BlockSizes,  \* block_size arguments of arena_init
    Sizes,       \* sizes asked for
    Generations, \* the generation counter wraps at this value
    MarkSlots,   \* bound: marks the caller keeps at a time
    MaxSerial,   \* bound: allocations and marks in one run
    MaxInits,    \* bound: calls of arena_init
    MaxResets,   \* bound: calls of arena_reset
    None         \* no block, no mark

ASSUME ArenaAssumption ==
    /\ None \notin Addresses
    /\ SizeMax \in Nat /\ Alignment \in Nat \ {0} /\ Alignment <= SizeMax
    /\ BlockSizes \subseteq 1 .. SizeMax /\ Sizes \subseteq 0 .. SizeMax
    /\ Generations \in Nat /\ Generations > 1
    /\ MaxSerial \in Nat /\ MaxInits \in Nat /\ MaxResets \in Nat

VARIABLES
    blockSize,   \* arena->default_block_size, 0 when not initialized
    chain,       \* the blocks from arena->first on
    current,     \* index of arena->current in chain, 0 for NULL
    blockCount,  \* arena->block_count
    capacity,    \* arena->capacity
    used,        \* arena->used
    count,       \* arena->allocation_count
    generation,  \* arena->generation
    marks,       \* the marks the caller keeps
    \* Bookkeeping that the code does not have.
    live,        \* allocations the caller may still use
    serial,      \* allocations and marks so far
    inits,       \* calls of arena_init so far
    resets,      \* calls of arena_reset so far
    careless     \* whether the caller restores marks it should have dropped

arena == <<blockSize, chain, current, blockCount, capacity, used, count, generation>>
vars == <<blockSize, chain, current, blockCount, capacity, used, count, generation,
          marks, live, serial, inits, resets, careless>>

Bytes == 0 .. SizeMax

Blocks == [addr : Addresses, capacity : Bytes, used : Bytes, count : Nat, oversized : BOOLEAN]

\* totalUsed and totalCount are the arena's at the time; life, epoch, at and ok are
\* not in the code: after how many inits, resets and calls it was made, and
\* whether the caller may still use it.
Marks == [block : Addresses \cup {None}, used : Bytes, count : Nat, totalUsed : Bytes,
          totalCount : Nat, generation : Nat, life : Nat, epoch : Nat,
          at : Nat, ok : BOOLEAN]

Allocations == [addr : Addresses, offset : Bytes, size : Bytes, at : Nat]

\* The type of every variable; every size and total is a size_t.
TypeOK ==
    /\ blockSize \in BlockSizes \cup {0}
    /\ chain \in Seq(Blocks)
    /\ current \in 0 .. Len(chain)
    /\ blockCount \in Bytes
    /\ capacity \in Bytes
    /\ used \in Bytes
    /\ count \in Nat
    /\ generation \in 0 .. Generations - 1
    /\ marks \in [MarkSlots -> Marks \cup {None}]
    /\ live \subseteq Allocations
    /\ serial \in 0 .. MaxSerial
    /\ inits \in 0 .. MaxInits
    /\ resets \in 0 .. MaxResets
    /\ careless \in BOOLEAN

Init ==
    /\ blockSize = 0
    /\ chain = <<>>
    /\ current = 0
    /\ blockCount = 0
    /\ capacity = 0
    /\ used = 0
    /\ count = 0
    /\ generation = 0
    /\ marks = [s \in MarkSlots |-> None]
    /\ live = {}
    /\ serial = 0
    /\ inits = 0
    /\ resets = 0
    /\ careless \in BOOLEAN

----------------------------------------------------------------------------
(* Sizes.                                                                  *)

\* The sum of the first n elements of a sequence, of all of them.
SumTo(f, n) ==
    LET sum[i \in 0 .. n] == IF i = 0 THEN 0 ELSE sum[i - 1] + f[i]
    IN  sum[n]

Sum(f) == SumTo(f, Len(f))

\* Mutant: the remainder itself is added.
AlignUpShort(n) == n + (n % Alignment)

AlignUp(n) == IF n % Alignment = 0 THEN n ELSE n + Alignment - (n % Alignment)

\* arena_align_up succeeds only if the result is a size_t.
AlignUpFits(n) == AlignUp(n) <= SizeMax

RequiredCapacity(size) == size + Alignment - 1

Oversized(cap) == blockSize <= SizeMax \div 4 /\ cap > 4 * blockSize

CanAllocate(b, size) ==
    /\ AlignUpFits(b.used)
    /\ AlignUp(b.used) <= b.capacity
    /\ size <= b.capacity - AlignUp(b.used)

----------------------------------------------------------------------------
(* Blocks.                                                                 *)

InChain(a) == \E i \in DOMAIN chain : chain[i].addr = a

IndexOf(a) == CHOOSE i \in DOMAIN chain : chain[i].addr = a

Free == {a \in Addresses : ~InChain(a)}

NewBlockCapacity(size) ==
    IF blockSize < RequiredCapacity(size) THEN RequiredCapacity(size) ELSE blockSize

\* Mutant: the total is not guarded.
CanAddUnguarded(size) == RequiredCapacity(size) <= SizeMax

\* arena_add_block passes its overflow checks.
CanAdd(size) ==
    /\ RequiredCapacity(size) <= SizeMax
    /\ blockCount # SizeMax
    /\ capacity <= SizeMax - NewBlockCapacity(size)

NewBlock(a, size) ==
    [addr |-> a, capacity |-> NewBlockCapacity(size), used |-> 0, count |-> 0,
     oversized |-> Oversized(NewBlockCapacity(size))]

\* The new block goes behind the current one.
WithBlock(a, size) ==
    SubSeq(chain, 1, current) \o <<NewBlock(a, size)>> \o SubSeq(chain, current + 1, Len(chain))

----------------------------------------------------------------------------
(* Operations.                                                             *)

\* The caller initializes an arena only when it has none.
arena_init(size) ==
    /\ blockSize = 0
    /\ inits < MaxInits
    /\ blockSize' = size
    /\ generation' = 1
    /\ inits' = inits + 1
    /\ UNCHANGED <<chain, current, blockCount, capacity, used, count, marks, live, serial, resets, careless>>

\* Bumps block i of chain c by size bytes.
Bump(c, i, size) ==
    LET b == c[i]
        top == AlignUp(b.used) + size
    IN  /\ chain' = [c EXCEPT ![i].used = top, ![i].count = @ + 1]
        /\ current' = i
        /\ used' = (used + top - b.used) % (SizeMax + 1)
        /\ count' = count + 1
        /\ serial' = serial + 1
        /\ live' = live \cup {[addr |-> b.addr, offset |-> AlignUp(b.used),
                               size |-> size, at |-> serial']}

Allocating(size) ==
    /\ blockSize # 0
    /\ size # 0
    /\ serial < MaxSerial
    /\ UNCHANGED <<blockSize, generation, marks, inits, resets, careless>>

FitsCurrent(size) == current # 0 /\ CanAllocate(chain[current], size)

FitsNext(size) ==
    current # 0 /\ current < Len(chain) /\ CanAllocate(chain[current + 1], size)

AllocCurrent(size) ==
    /\ Allocating(size)
    /\ FitsCurrent(size)
    /\ Bump(chain, current, size)
    /\ UNCHANGED <<blockCount, capacity>>

AllocNext(size) ==
    /\ Allocating(size)
    /\ ~FitsCurrent(size)
    /\ FitsNext(size)
    /\ Bump(chain, current + 1, size)
    /\ UNCHANGED <<blockCount, capacity>>

\* A block that malloc puts at a.  When malloc fails, or a check does, the
\* arena is as it was and arena_alloc returns NULL.
AllocNew(size, a) ==
    /\ Allocating(size)
    /\ ~FitsCurrent(size)
    /\ ~FitsNext(size)
    /\ CanAdd(size)
    /\ a \in Free
    /\ Bump(WithBlock(a, size), current + 1, size)
    /\ blockCount' = blockCount + 1
    /\ capacity' = capacity + NewBlockCapacity(size)

arena_mark(s) ==
    /\ blockSize # 0
    /\ serial < MaxSerial
    /\ serial' = serial + 1
    /\ marks' = [marks EXCEPT ![s] =
         [block |-> IF current = 0 THEN None ELSE chain[current].addr,
          used |-> IF current = 0 THEN 0 ELSE chain[current].used,
          count |-> IF current = 0 THEN 0 ELSE chain[current].count,
          totalUsed |-> used, totalCount |-> count, generation |-> generation,
          life |-> inits, epoch |-> resets, at |-> serial', ok |-> TRUE]]
    /\ UNCHANGED <<arena, live, inits, resets, careless>>

\* arena_restore does not return false.
Accepts(m) ==
    /\ m.generation = generation
    /\ \/ m.block = None /\ m.totalUsed = 0 /\ m.totalCount = 0
       \/ /\ InChain(m.block)
          /\ m.used <= chain[IndexOf(m.block)].used
          /\ m.count <= chain[IndexOf(m.block)].count

\* Mutant: the marked block keeps what was allocated in it since.
RestoredChainFull(m) ==
    IF m.block = None THEN <<>> ELSE SubSeq(chain, 1, IndexOf(m.block))

\* The blocks behind the marked one are freed, all of them for a mark of the
\* empty arena.
RestoredChain(m) ==
    IF m.block = None THEN <<>>
    ELSE LET i == IndexOf(m.block)
         IN  [SubSeq(chain, 1, i) EXCEPT ![i].used = m.used, ![i].count = m.count]

\* The caller gives up what it allocated, and the marks it made, after the mark.
arena_restore(s) ==
    LET m == marks[s] IN
    /\ m # None
    /\ m.ok \/ careless
    /\ Accepts(m)
    /\ chain' = RestoredChain(m)
    /\ current' = Len(chain')
    /\ used' = m.totalUsed
    /\ count' = m.totalCount
    /\ blockCount' = Len(chain')
    /\ capacity' = Sum([i \in DOMAIN chain' |-> chain'[i].capacity])
    /\ live' = {a \in live : a.at <= m.at}
    /\ marks' = [q \in MarkSlots |->
                   IF marks[q] = None THEN None
                   ELSE [marks[q] EXCEPT !.ok = @ /\ marks[q].at <= m.at]]
    /\ UNCHANGED <<blockSize, generation, serial, inits, resets, careless>>

Outdated == [q \in MarkSlots |-> IF marks[q] = None THEN None
                                 ELSE [marks[q] EXCEPT !.ok = FALSE]]

Emptied(b) == [b EXCEPT !.used = 0, !.count = 0]

\* What arena_reset has made of the first n blocks: oversized ones are freed, the
\* others emptied.
Swept(n) ==
    LET swept[i \in 0 .. n] ==
          IF i = 0 THEN [chain |-> <<>>, blockCount |-> blockCount, capacity |-> capacity]
          ELSE IF chain[i].oversized
               THEN [swept[i - 1] EXCEPT !.blockCount = @ - 1, !.capacity = @ - chain[i].capacity]
               ELSE [swept[i - 1] EXCEPT !.chain = Append(@, Emptied(chain[i]))]
    IN  swept[n]

\* Mutant: the counter sticks.
NextGenerationStuck(g) == g

\* uint64_t arithmetic; 0 is left out.
NextGeneration(g) == IF (g + 1) % Generations = 0 THEN 1 ELSE g + 1

arena_reset ==
    /\ blockSize # 0
    /\ resets < MaxResets
    /\ resets' = resets + 1
    /\ LET swept == Swept(Len(chain)) IN
         /\ chain' = swept.chain
         /\ current' = IF swept.chain = <<>> THEN 0 ELSE 1
         /\ blockCount' = swept.blockCount
         /\ capacity' = swept.capacity
    /\ used' = 0
    /\ count' = 0
    /\ generation' = NextGeneration(generation)
    /\ live' = {}
    /\ marks' = Outdated
    /\ UNCHANGED <<blockSize, serial, inits, careless>>

arena_destroy ==
    /\ blockSize # 0
    /\ blockSize' = 0
    /\ chain' = <<>>
    /\ current' = 0
    /\ blockCount' = 0
    /\ capacity' = 0
    /\ used' = 0
    /\ count' = 0
    /\ generation' = 0
    /\ live' = {}
    /\ marks' = Outdated
    /\ UNCHANGED <<serial, inits, resets, careless>>

Next ==
    \/ \E size \in BlockSizes : arena_init(size)
    \/ \E size \in Sizes :
          \/ AllocCurrent(size) \/ AllocNext(size)
          \/ \E a \in Addresses : AllocNew(size, a)
    \/ \E s \in MarkSlots : arena_mark(s) \/ arena_restore(s)
    \/ arena_reset
    \/ arena_destroy

Spec == Init /\ [][Next]_vars

----------------------------------------------------------------------------
(* Properties.                                                             *)

\* The bytes an allocation occupies.
Extent(a) == a.offset .. (a.offset + a.size - 1)

\* What the caller may still use is aligned, lies within the used part of a block
\* of the chain that is not behind the current one, and overlaps nothing else:
\* growth, restoring and resetting never hand the same bytes out twice.  No block
\* is filled beyond its capacity, and the blocks behind the current one, which
\* arena_alloc moves on to without looking, are empty (arena_alloc,
\* arena_restore, arena_reset).
LiveIntact ==
    /\ \A a \in live :
          /\ a.offset % Alignment = 0
          /\ \E i \in 1 .. current :
                chain[i].addr = a.addr /\ a.offset + a.size <= chain[i].used
    /\ \A a, b \in live : a # b /\ a.addr = b.addr => Extent(a) \cap Extent(b) = {}
    /\ \A i \in DOMAIN chain :
          /\ chain[i].used <= chain[i].capacity
          /\ i > current => chain[i].used = 0 /\ chain[i].count = 0
          /\ \A j \in DOMAIN chain : i # j => chain[i].addr # chain[j].addr

\* For a caller that drops outdated marks, what arena_stats reports is what the
\* chain holds, although restore takes used and allocation_count from the mark
\* and reset subtracts block by block.
StatsExact == ~careless =>
    /\ blockCount = Len(chain)
    /\ capacity = Sum([i \in DOMAIN chain |-> chain[i].capacity])
    /\ used = Sum([i \in DOMAIN chain |-> chain[i].used])
    /\ count = Sum([i \in DOMAIN chain |-> chain[i].count])

\* A mark made before arena_reset is never restored, not even one of the empty
\* arena or of a block that the reset has kept: the generation tells it from the
\* marks made since.
ResetOutdatesMarks ==
    [][\A s \in MarkSlots :
          marks[s] # None /\ marks[s].life = inits /\ marks[s].epoch # resets
          => ~arena_restore(s)]_vars

============================================================================
