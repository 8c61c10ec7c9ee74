------------------------------ MODULE FrameArena ------------------------------
(***************************************************************************)
(* The byte arena of the ring's payloads (frame-arena.cpp): blocks that    *)
(* payloads are carved from back to back, recycled whole when their last   *)
(* payload is freed, and given back to the system only by Trim. Every      *)
(* method runs under the arena's mutex, so it is one action.               *)
(*                                                                         *)
(* Sizes are in units of kAlignment (every size is rounded up to it).      *)
(* Block ids are 1..Len(blocks) here and from 0 in the code.               *)
(***************************************************************************)
EXTENDS Integers, Sequences, FiniteSets, FiniteSetsExt, SequencesExt

CONSTANTS BlockBytes,      \* config_.blockBytes
          LimitBytes,      \* config_.limitBytes
          MaxSpareBlocks,  \* config_.maxSpareBlocks
          Sizes            \* the payload sizes asked for, rounded up

ASSUME ArenaAssumption ==
    /\ BlockBytes \in Nat \ {0} /\ LimitBytes \in Nat /\ MaxSpareBlocks \in Nat
    /\ Sizes \subseteq Nat \ {0}

VARIABLES blocks,          \* blocks_
          spare,           \* spare_
          vacant,          \* vacant_
          current,         \* current_, 0 for kNoBlock
          emptyOversized,  \* emptyOversized_
          committedBytes,  \* stats_.committedBytes
          liveBytes,       \* stats_.liveBytes
          held             \* the allocations the callers hold

vars == <<blocks, spare, vacant, current, emptyOversized, committedBytes, liveBytes, held>>

NoBlock == 0
NoMemory == [memory |-> FALSE, capacity |-> 0, used |-> 0, live |-> 0,
             oversized |-> FALSE, spare |-> FALSE]
Block == [memory : BOOLEAN, capacity : Nat, used : Nat, live : Nat,
          oversized : BOOLEAN, spare : BOOLEAN]
Allocation == [block : DOMAIN blocks, offset : Nat, bytes : Nat \ {0}]

TypeOK ==
    /\ blocks \in Seq(Block)
    /\ spare \in Seq(DOMAIN blocks)
    /\ vacant \in Seq(DOMAIN blocks)
    /\ current \in {NoBlock} \cup DOMAIN blocks
    /\ emptyOversized \in Nat /\ committedBytes \in Nat /\ liveBytes \in Nat
    /\ held \subseteq Allocation

Init ==
    /\ blocks = <<>> /\ spare = <<>> /\ vacant = <<>>
    /\ current = NoBlock
    /\ emptyOversized = 0 /\ committedBytes = 0 /\ liveBytes = 0
    /\ held = {}

\* The sum of f over S, and what the blocks take.
Total(f, S) == MapThenSumSet(LAMBDA x : f[x], S)
Capacities == [id \in DOMAIN blocks |-> blocks[id].capacity]
-----------------------------------------------------------------------------
(* Names with an underscore are the bugs the runs must notice: each takes  *)
(* the place of the definition after it.                                   *)

(* NewBlockLocked, with its first payload already in it. The system may    *)
(* refuse the memory too: AllocateFails.                                   *)
RoomFor(capacity) == committedBytes + capacity <= LimitBytes
NewId == IF vacant = <<>> THEN Len(blocks) + 1 ELSE Last(vacant)
NewBlock(capacity, bytes, oversized) ==
    LET block == [memory |-> TRUE, capacity |-> capacity, used |-> bytes, live |-> 1,
                  oversized |-> oversized, spare |-> FALSE]
    IN  /\ RoomFor(capacity)
        /\ IF vacant = <<>>
           THEN blocks' = Append(blocks, block) /\ vacant' = vacant
           ELSE blocks' = [blocks EXCEPT ![NewId] = block] /\ vacant' = Front(vacant)
        /\ committedBytes' = committedBytes + capacity
        /\ held' = held \cup {[block |-> NewId, offset |-> 0, bytes |-> bytes]}
        /\ liveBytes' = liveBytes + bytes

\* A standard block takes one more payload at offset.
Carve(id, offset, bytes) ==
    /\ LET block == blocks[id]
       IN  blocks' = [blocks EXCEPT ![id] =
               [block EXCEPT !.used = offset + bytes, !.live = @ + 1, !.spare = FALSE]]
    /\ held' = held \cup {[block |-> id, offset |-> offset, bytes |-> bytes]}
    /\ liveBytes' = liveBytes + bytes
    /\ current' = id
    /\ UNCHANGED <<vacant, committedBytes, emptyOversized>>

FitsCurrent_Tail(bytes) ==
    current # NoBlock /\ blocks[current].used < blocks[current].capacity
FitsCurrent(bytes) ==
    current # NoBlock /\ blocks[current].used + bytes <= blocks[current].capacity
\* The current block is retired when the allocator moves on: the next one is
\* then that block itself.
CurrentEmpty == current # NoBlock /\ blocks[current].live = 0

AllocateOversized(bytes) ==
    /\ bytes > BlockBytes
    /\ NewBlock(bytes, bytes, TRUE)
    /\ UNCHANGED <<spare, current, emptyOversized>>

AllocateInCurrent(bytes) ==
    /\ bytes <= BlockBytes
    /\ FitsCurrent(bytes)
    /\ Carve(current, blocks[current].used, bytes)
    /\ UNCHANGED spare

AllocateInSpare(bytes) ==
    /\ bytes <= BlockBytes
    /\ ~FitsCurrent(bytes)
    /\ \/ CurrentEmpty /\ Carve(current, 0, bytes) /\ spare' = spare
       \/ ~CurrentEmpty /\ spare # <<>> /\ Carve(Last(spare), 0, bytes) /\ spare' = Front(spare)

AllocateInNewBlock(bytes) ==
    /\ bytes <= BlockBytes
    /\ ~FitsCurrent(bytes) /\ ~CurrentEmpty /\ spare = <<>>
    /\ NewBlock(BlockBytes, bytes, FALSE)
    /\ current' = NewId
    /\ UNCHANGED <<spare, emptyOversized>>

\* The limit is reached, or the system has no memory: a standard size leaves
\* its full current block behind all the same.
AllocateFails(bytes) ==
    /\ \/ bytes > BlockBytes /\ current' = current
       \/ /\ bytes <= BlockBytes
          /\ ~FitsCurrent(bytes) /\ ~CurrentEmpty /\ spare = <<>>
          /\ current' = NoBlock
    /\ UNCHANGED <<blocks, spare, vacant, emptyOversized, committedBytes, liveBytes, held>>

\* RetireIfEmptyLocked's condition, for the block that a leaves.
Retires_Current(a) == blocks[a.block].live = 1
Retires(a) == blocks[a.block].live = 1 /\ a.block # current

Free(a) ==
    LET block   == blocks[a.block]
        retired == Retires(a)
    IN  /\ a \in held /\ held' = held \ {a}
        /\ liveBytes' = liveBytes - Min({liveBytes, a.bytes})
        /\ blocks' = [blocks EXCEPT ![a.block] =
               [block EXCEPT !.live = @ - 1, !.used = IF block.live = 1 THEN 0 ELSE @,
                             !.spare = retired /\ ~block.oversized]]
        /\ spare' = IF retired /\ ~block.oversized THEN Append(spare, a.block) ELSE spare
        /\ emptyOversized' = IF retired /\ block.oversized THEN emptyOversized + 1
                             ELSE emptyOversized
        /\ UNCHANGED <<vacant, current, committedBytes>>

\* The oldest spares beyond MaxSpareBlocks and the empty oversized blocks,
\* lowest id first, as many as emptyOversized says.
ExtraSpares == SubSeq(spare, 1, Len(spare) - MaxSpareBlocks)
EmptyOversized == {id \in DOMAIN blocks : /\ blocks[id].memory
                                          /\ blocks[id].oversized /\ blocks[id].live = 0}
Ascending(S) ==
    CHOOSE s \in [1..Cardinality(S) -> S] : \A i, j \in DOMAIN s : i < j => s[i] < s[j]
Released_SparesOnly == ExtraSpares
Released ==
    ExtraSpares \o SubSeq(Ascending(EmptyOversized), 1,
                          Min({emptyOversized, Cardinality(EmptyOversized)}))
TrimWanted == Len(spare) > MaxSpareBlocks \/ emptyOversized > 0
Trim ==
    /\ TrimWanted
    /\ blocks' = [id \in DOMAIN blocks |->
                     IF id \in ToSet(Released) THEN NoMemory ELSE blocks[id]]
    /\ committedBytes' = committedBytes - Total(Capacities, ToSet(Released))
    /\ spare' = SubSeq(spare, Len(ExtraSpares) + 1, Len(spare))
    /\ vacant' = vacant \o Released
    /\ emptyOversized' = emptyOversized - (Len(Released) - Len(ExtraSpares))
    /\ UNCHANGED <<current, liveBytes, held>>
-----------------------------------------------------------------------------
Next ==
    \/ \E bytes \in Sizes :
           \/ AllocateOversized(bytes)
           \/ AllocateInCurrent(bytes)
           \/ AllocateInSpare(bytes)
           \/ AllocateInNewBlock(bytes)
           \/ AllocateFails(bytes)
    \/ \E a \in held : Free(a)
    \/ Trim

\* The reaper trims when an encoder or a release asked it to.
Fairness == WF_vars(Trim)

Spec == Init /\ [][Next]_vars
FairSpec == Spec /\ Fairness
-----------------------------------------------------------------------------
(* Properties. *)
Disjoint(a, b) ==
    a.block # b.block \/ a.offset + a.bytes <= b.offset \/ b.offset + b.bytes <= a.offset

\* A payload is never written over another one that is still held, nor outside
\* its block, nor in a block given back to the system, in whatever order the
\* payloads are freed (Allocate, Free, Trim and the reuse of block ids).
PayloadsNeverOverlap ==
    /\ \A a \in held : /\ blocks[a.block].memory
                       /\ a.offset + a.bytes <= blocks[a.block].used
                       /\ blocks[a.block].used <= blocks[a.block].capacity
    /\ \A a, b \in held : a # b => Disjoint(a, b)

\* Memory is neither lost nor counted twice: every block with memory is the
\* current one, a spare, in use, or an empty oversized one that Trim will find,
\* and only one of these; the others can be reused once each (the lists
\* spare_ and vacant_ and the counter emptyOversized_ against the blocks). The
\* counters that the limit rests on are the memory really committed and really
\* held, and the limit is kept. The state is well typed.
EveryBlockAccounted ==
    LET Empty(id) == blocks[id].memory /\ blocks[id].live = 0
    IN  /\ TypeOK
        /\ IsInjective(spare) /\ IsInjective(vacant)
        /\ ToSet(vacant) = {id \in DOMAIN blocks : ~blocks[id].memory}
        /\ ToSet(spare) = {id \in DOMAIN blocks :
                              Empty(id) /\ ~blocks[id].oversized /\ id # current}
        /\ \A id \in DOMAIN blocks : blocks[id].spare <=> id \in ToSet(spare)
        /\ emptyOversized = Cardinality({id \in DOMAIN blocks : Empty(id) /\ blocks[id].oversized})
        /\ current # NoBlock => blocks[current].memory /\ ~blocks[current].oversized
        /\ committedBytes <= LimitBytes
        /\ committedBytes = Total(Capacities, DOMAIN blocks)
        /\ liveBytes = Total([a \in held |-> a.bytes], held)
        /\ \A id \in DOMAIN blocks : blocks[id].live = Cardinality({a \in held : a.block = id})

\* Once trimmed, what is committed past the blocks in use is the current block
\* and at most MaxSpareBlocks spares: an emptied ring gives its memory back.
\* Trim is wanted as long as that is not so, and it happens (RequestTrim).
IdleMemory == committedBytes - Total(Capacities, {a.block : a \in held})
MemoryComesBack == []<>(IdleMemory <= (MaxSpareBlocks + 1) * BlockBytes)

\* The arena hands out memory that is nobody else's and accounts for all of it.
ArenaIsSound == PayloadsNeverOverlap /\ EveryBlockAccounted
=============================================================================
