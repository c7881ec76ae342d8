---------------------------- MODULE MemPoolProps ----------------------------
(***************************************************************************)
(* What the pool allocator promises.                                       *)
(***************************************************************************)
EXTENDS MemPool

\* The slot order is the address order and no two entries share a byte, in
\* every round of every loop (the asserts of validate_pool()).
EntriesOrdered ==
    \A p \in Pools : \A i \in used[p] :
        /\ End(p, i) <= PoolSize[p]
        /\ \A j \in used[p] : i < j => End(p, i) <= Base(p, j)

FreeCells(p) ==
    {c \in Cell(p) : \A i \in used[p] : ~ (Base(p, i) <= c /\ c < End(p, i))}

\* remain counts exactly the memory no entry covers: the transfers and the
\* allocation keep two counters each in step with the layout.
RemainExact == \A p \in Pools : remain[p] = Cardinality(FreeCells(p))

\* A client's handle and the entry's owner pointer name each other, however
\* often the entry moved within its pool or to another one.
HandlesAgree ==
    /\ \A p \in Pools : \A i \in used[p] :
          handle[entries[p][i].owner] = [pool |-> p, id |-> i]
    /\ \A o \in Owners : handle[o] # NoHandle =>
          /\ handle[o].pool \in alive
          /\ handle[o].id \in used[handle[o].pool]
          /\ entries[handle[o].pool][handle[o].id].owner = o

\* Relocation keeps the data of every client, byte for byte.
DataKept ==
    \A p \in Pools : \A i \in used[p] : \A c \in Cell(p) :
        Base(p, i) <= c /\ c < End(p, i) =>
            mem[p][c] = [owner |-> entries[p][i].owner, pos |-> c - Base(p, i)]

CompactPool(p) ==
    \A i \in used[p] : /\ i > 0 => i - 1 \in used[p]
                       /\ Base(p, i) = GapStart(p, i)

\* A pool not marked fragmented has its entries in the first slots, back to
\* back from the base: what lets defrag_pool() return without looking.  Only
\* pool_from of a transfer that is under way may be caught unmarked.
CompactUnlessFragmented ==
    \A p \in Pools : ~ fragmented[p] /\ ~ (op.moved /\ op.from = p) => CompactPool(p)

\* A pool without an unused slot is full for its users, so that defrag_pool()
\* never computes -1 - 1 as its last busy slot.
NoSlotMeansFull ==
    \A p \in alive : Slots(words[p]) \subseteq used[p] =>
        IsFull(p) \/ (op.pc = "transfer" /\ op.to = p)

\* Between any two rounds of any loop the book-keeping of the pools is right:
\* layout, free memory, the fragmented mark and the full mark.
PoolsSound ==
    /\ EntriesOrdered
    /\ RemainExact
    /\ CompactUnlessFragmented
    /\ NoSlotMeansFull

\* However often an entry is moved by alloc, defrag and the two transfers, its
\* client's handle leads to it and its bytes are those the client stored.
ClientsKeepTheirs == HandlesAgree /\ DataKept

\* An allocation allowed to defragment fails only for want of a bitmap slot:
\* enough memory in total is enough memory in one piece.
DefragAllocSucceeds ==
    [][op.pc = "defrag" /\ op.caller = "alloc" /\ op' = Idle =>
          handle'[op.owner] # NoHandle \/ full'[op.to]]_vars

\* No entry of pool from would fit any gap of pool to.
NothingFits(to, from) ==
    \A i \in used[from] :
        \A e \in RunStarts(to, -1, words[to]) : Gap(to, e) < Size(from, i)

\* "Transfer as many entries from pool_from to pool_to as possible"
\* (pool_alloc.c:666 and :772): when a transfer is over, no entry it left
\* behind fits any gap of pool_to, unless the bitmap of pool_to is full.  The
\* fast transfer takes a want of slots for a want of space and so promises
\* this only while realloc() does not fail and then succeed.
TransferExhaustive ==
    [][\A to, from \in Pools :
          /\ op.pc \in {"transfer", "fast"}
          /\ op.to = to /\ op.from = from
          /\ op' = Idle
          => (full[to] \/ NothingFits(to, from))']_vars

\* Defragmentation and transfers always come to an end.
LoopsEnd == op # Idle ~> op = Idle
=============================================================================
