---------------------------- MODULE PixmapPools ----------------------------
(***************************************************************************)
(* The memory pools that hold the data of small pixmaps (mm_pool.c): how   *)
(* an entry is allocated, and how the pools are compacted.  The one pool   *)
(* for larger pixmaps that hardware without an IOMMU has is left out.      *)
(*                                                                         *)
(* The operators take and return the state e of EXA, a record of which     *)
(* they use these fields:                                                  *)
(*    loc        the pool entry of a pixmap, NoEntry if it has none        *)
(*    pix        the pixmaps, each with its size (tegra_exa_pixmap_size()) *)
(*    size       the size of a pool, 0 for an address without a pool       *)
(*    mem_pools  the list of the small pools, its head first               *)
(*    gpu        jobs the GPU has yet to finish                            *)
(*    batch      pixmaps of the 3D jobs that are not submitted yet         *)
(* A pool is what module MemPool promises of it: entries that do not       *)
(* overlap, of which an allocation takes the lowest gap that is large      *)
(* enough.  That a bitmap of slots may be full is left out.  What a step   *)
(* cannot choose is its luck l:                                            *)
(*    pool   whether memory for a pool is to be had; "retry": not at the   *)
(*           first attempt, but after pools were compacted                 *)
(*    slow   whether the last slow compaction is long enough ago           *)
(*    fast   whether the last fast compaction is long enough ago           *)
(* Sizes are in units of TEGRA_EXA_OFFSET_ALIGN.                           *)
(***************************************************************************)
EXTENDS Naturals, Sequences, SequencesExt, FiniteSets, FiniteSetsExt

CONSTANTS
    Pixmaps,
    Pools,        \* addresses of pools, 1 .. n
    POOL_SIZE,    \* TEGRA_EXA_POOL_SIZE
    PAGE_SIZE,    \* TEGRA_EXA_PAGE_SIZE
    MERGED_MAX,   \* TEGRA_EXA_POOL_SIZE_MERGED_MAX
    MergeLimit,   \* loss to page alignment that makes a merge worth it: POOL_SIZE
    CompactLimit  \* the limit of tegra_exa_compact_pools(): 10 * POOL_SIZE

ASSUME PoolAssumption ==
    /\ Pools = 1 .. Cardinality(Pools)
    /\ {POOL_SIZE, PAGE_SIZE, MERGED_MAX} \subseteq Nat \ {0}
    /\ {MergeLimit, CompactLimit} \subseteq Nat

POOL_SIZE_MAX == (POOL_SIZE * 3) \div 2

NoEntry == [pool |-> 0, at |-> 0]

SizeOf(e, p) == e.pix[p].size

Align(n, a) == ((n + a - 1) \div a) * a

-----------------------------------------------------------------------------
(* What mempool/ offers.                                                   *)

Residents(e, i) == {p \in Pixmaps : e.loc[p].pool = i}
Units(e, p)     == e.loc[p].at .. e.loc[p].at + SizeOf(e, p) - 1
Occupied(e, i)  == UNION {Units(e, p) : p \in Residents(e, i)}
Remain(e, i)    == e.size[i] - Cardinality(Occupied(e, i))
IsEmpty(e, i)   == Residents(e, i) = {}

ByOffset(e, i) ==
    SetToSortSeq(Residents(e, i), LAMBDA p, q : e.loc[p].at < e.loc[q].at)

Gaps(e, i, n) ==
    {a \in 0 .. e.size[i] - n : (a .. a + n - 1) \cap Occupied(e, i) = {}}

Put(e, p, i, a) == [e EXCEPT !.loc[p] = [pool |-> i, at |-> a]]

\* mem_pool_alloc() without defragmentation; e as it is if there is no gap.
Alloc(e, p, i) ==
    LET gaps == Gaps(e, i, SizeOf(e, p))
    IN  IF gaps = {} THEN e ELSE Put(e, p, i, Min(gaps))

\* Entries are moved down until a gap of n opens between them.
Defrag(e, i, n) ==
    LET MoveDown(acc, p) ==
            IF acc.done \/ acc.e.loc[p].at - acc.end >= n
            THEN [acc EXCEPT !.done = TRUE]
            ELSE [e    |-> Put(acc.e, p, i, acc.end),
                  end  |-> acc.end + SizeOf(e, p),
                  done |-> FALSE]
    IN  FoldLeft(MoveDown, [e |-> e, end |-> 0, done |-> FALSE], ByOffset(e, i)).e

\* mem_pool_transfer_entries_fast(): an entry takes any gap of pool `to`.
TransferFast(e, to, from) ==
    FoldLeft(LAMBDA acc, p : Alloc(acc, p, to), e, ByOffset(e, from))

\* mem_pool_transfer_entries(): pool `to` is compacted first.
Transfer(e, to, from) == TransferFast(Defrag(e, to, e.size[to] + 1), to, from)

-----------------------------------------------------------------------------
(* Pools and the work that uses their entries.                             *)

InBatch(e, p) == \E k \in DOMAIN e.batch : e.batch[k].pix = p
OnGpu(e, p)   == \E j \in e.gpu : p \in DOMAIN j.at

\* tegra_exa_pixmap_is_busy()
Busy(e, p) == e.pix[p].type \in {"bo", "pool"} /\ (OnGpu(e, p) \/ InBatch(e, p))

\* The fences of the pixmaps in S are waited for.
Wait(e, S) == [e EXCEPT !.gpu = {j \in @ : DOMAIN j.at \cap S = {}}]

FencePool(e, i) == Wait(e, Residents(e, i))

DestroyPool(e, i) ==
    [e EXCEPT !.size[i] = 0, !.mem_pools = SelectSeq(@, LAMBDA j : j # i)]

DestroyIfEmpty(e, i) == IF IsEmpty(e, i) THEN DestroyPool(e, i) ELSE e

\* The least address without a pool gets one of n units.
NewPool(e)       == Min({i \in Pools : e.size[i] = 0})
CreatePool(e, n) == [e EXCEPT !.size[NewPool(e)] = n]

ToHead(e, i) ==
    [e EXCEPT !.mem_pools = <<i>> \o SelectSeq(@, LAMBDA j : j # i)]

Total(e) == FoldSet(LAMBDA i, sum : sum + Remain(e, i), 0, ToSet(e.mem_pools))

-----------------------------------------------------------------------------
(* tegra_exa_compact_pools_slow().                                         *)

Unaligned(e, i) == Remain(e, i) % PAGE_SIZE

MergeInto(new, e, small) ==
    LET Merge(acc, i) ==
            IF Remain(acc, new) = 0 THEN acc
            ELSE DestroyIfEmpty(TransferFast(FencePool(acc, i), new, i), i)
    IN  [FoldLeft(Merge, e, small) EXCEPT !.mem_pools = Append(@, new)]

\* tegra_exa_merge_pools(): pools that waste parts of a page are emptied into
\* one new pool.
MergePools(e, l) ==
    LET Small(i) == e.size[i] <= POOL_SIZE_MAX /\ Unaligned(e, i) # 0
        small == SelectSeq(e.mem_pools, Small)
        Count(acc, i) ==
            IF acc.used >= MERGED_MAX THEN acc
            ELSE [used |-> acc.used + e.size[i] - Remain(e, i),
                  lost |-> acc.lost + Unaligned(e, i)]
        sums == FoldLeft(Count, [used |-> 0, lost |-> 0], small)
        n    == Min({Align(sums.used, PAGE_SIZE), MERGED_MAX})
    IN  IF sums.lost < MergeLimit \/ l.pool # "yes" THEN e
        ELSE MergeInto(NewPool(e), CreatePool(e, n), small)

Before(e, i, j) == SelectInSeq(e.mem_pools, LAMBDA k : k = i)
                   < SelectInSeq(e.mem_pools, LAMBDA k : k = j)

\* The pools that are half empty at least, the lightest first.  (The code
\* takes five of them, and 16 heavy ones.)
LightPools(e) ==
    SetToSortSeq({i \in ToSet(e.mem_pools) : Remain(e, i) >= e.size[i] \div 2},
                 LAMBDA i, j : \/ Remain(e, i) > Remain(e, j)
                               \/ Remain(e, i) = Remain(e, j) /\ Before(e, i, j))

\* The pools of S with room, the fullest first.
HeavyPools(e, S) ==
    SetToSortSeq({i \in S : Remain(e, i) > 0},
                 LAMBDA i, j : \/ Remain(e, i) < Remain(e, j)
                               \/ Remain(e, i) = Remain(e, j) /\ Before(e, i, j))

\* Mutant of Pour: the jobs that use the entries are not waited for.
PourAtOnce(e, to, from) ==
    IF Remain(e, to) = 0 THEN e ELSE Transfer(e, to, from)

Pour(e, to, from) ==
    IF Remain(e, to) = 0 THEN e
    ELSE Transfer(FencePool(FencePool(e, to), from), to, from)

\* Mutant of PourOut: the pool stays when its last entry has left.
PourOutKept(e, from, heavy) ==
    FoldLeft(LAMBDA acc, to : Pour(acc, to, from), e, heavy)

\* What fits of a light pool goes to the heavy ones; it is destroyed if empty.
PourOut(e, from, heavy) ==
    DestroyIfEmpty(FoldLeft(LAMBDA acc, to : Pour(acc, to, from), e, heavy), from)

PourRound(e, light, heavy) ==
    FoldLeft(LAMBDA acc, i : PourOut(acc, i, heavy), e, light)

\* Light pools are poured out until nothing moves: the labels heavy_again,
\* with the heavy pools of the rounds before left out, and all_again.
RECURSIVE PourAll(_, _, _)
PourAll(e, light, heavies) ==
    LET heavy == HeavyPools(e, ToSet(e.mem_pools) \ (ToSet(light) \cup heavies))
        Again(f, left) ==
            IF \A p \in Pixmaps : f.loc[p].pool = e.loc[p].pool
            THEN [e |-> f, light |-> ToSet(left)]
            ELSE IF left = <<>> THEN PourAll(f, LightPools(f), {})
            ELSE PourAll(f, left, heavies \cup ToSet(heavy))
        Round(f) == Again(f, SelectSeq(light, LAMBDA i : f.size[i] # 0))
    IN  Round(PourRound(e, light, heavy))

Shrunk(used) == Align(used, PAGE_SIZE)

\* tegra_exa_shrink_pool() for the pools that are not light: the entries go to
\* a new pool without the unused pages.  The first failure ends it.
ShrinkPools(poured, l) ==
    LET e == poured.e
        Shrink(acc, i) ==
            LET new == NewPool(acc.e)
                c   == CreatePool(acc.e, Shrunk(e.size[i] - Remain(e, i)))
            IN  IF acc.err \/ i \in poured.light \/ Remain(e, i) < PAGE_SIZE THEN acc
                ELSE IF l.pool # "yes" THEN [acc EXCEPT !.err = TRUE]
                ELSE [e   |-> DestroyPool(TransferFast(FencePool(c, i), new, i), i),
                      new |-> <<new>> \o acc.new,
                      err |-> FALSE]
        List(shrunk) == [shrunk.e EXCEPT !.mem_pools = shrunk.new \o @]
    IN  List(FoldLeft(Shrink, [e |-> e, new |-> <<>>, err |-> FALSE], e.mem_pools))

PourLight(e) == PourAll(e, LightPools(e), {})

SlowCompaction(e, l) == ShrinkPools(PourLight(MergePools(e, l)), l)

-----------------------------------------------------------------------------
(* Allocation.                                                             *)

\* pool_compaction_blockcnt: a 3D batch refers to entries by their place.
Blocked(e) == e.batch # <<>>

\* tegra_exa_compact_pools_fast(): the first pool with n units left.  The
\* transfer that should make room is never reached: the only pool it would
\* take entries from is marked light first, and light ones are skipped.
FirstWith(e, n) ==
    LET k == SelectInSeq(e.mem_pools, LAMBDA i : Remain(e, i) >= n)
    IN  IF k = 0 THEN 0 ELSE e.mem_pools[k]

\* tegra_exa_compact_pools(): the pools compacted, and a pool to allocate n
\* units from, 0 for none.
CompactPools(e, n, l) ==
    LET slow == ~ Blocked(e) /\ l.slow /\ Total(e) >= (CompactLimit * 3) \div 2
        Found(f) ==
            [e |-> f, slow |-> slow,
             pool |-> IF ~ Blocked(f) /\ l.fast /\ Total(f) >= n THEN FirstWith(f, n)
                      ELSE IF slow THEN FirstWith(f, CompactLimit) ELSE 0]
    IN  Found(IF slow THEN SlowCompaction(e, l) ELSE e)

\* tegra_exa_pixmap_pool_alloc(), not fast: the pool is defragmented when the
\* space it has is in pieces.
PoolAlloc(e, p, i) ==
    LET n == SizeOf(e, p)
        f == IF Gaps(e, i, n) = {} THEN Defrag(FencePool(e, i), i, n) ELSE e
    IN  IF Remain(e, i) < n THEN e ELSE ToHead(Alloc(f, p, i), i)

Allocated(e, p) == e.loc[p] # NoEntry

IntoNewPool(e, p) ==
    LET i == NewPool(e)
    IN  ToHead(Alloc(CreatePool(e, Align(SizeOf(e, p), POOL_SIZE)), p, i), i)

\* A new pool for p; the kernel may have memory only after a slow compaction.
AllocFromNewPool(e, p, slowed, l) ==
    LET retry == l.pool = "retry" /\ ~ Blocked(e) /\ l.slow /\ ~ slowed
    IN  IF l.pool = "yes" \/ retry
        THEN IntoNewPool(IF retry THEN SlowCompaction(e, l) ELSE e, p)
        ELSE e

\* With what a compaction c has returned: its pool if p fits, else a new one.
AllocCompacted(c, p, l) ==
    LET f == IF c.pool = 0 THEN c.e ELSE PoolAlloc(c.e, p, c.pool)
    IN  IF Allocated(f, p) THEN f ELSE AllocFromNewPool(c.e, p, c.slow, l)

\* tegra_exa_pixmap_allocate_from_small_pool()
AllocFromSmallPool(e, p, l) ==
    LET n     == SizeOf(e, p)
        fits  == SelectInSeq(e.mem_pools, LAMBDA i : Gaps(e, i, n) # {})
    IN  IF n > POOL_SIZE_MAX \/ Pools = {} THEN e
        ELSE IF fits # 0
        THEN ToHead(Alloc(e, p, e.mem_pools[fits]), e.mem_pools[fits])
        ELSE AllocCompacted(IF Total(e) >= n /\ e.mem_pools # <<>> THEN CompactPools(e, n, l)
                            ELSE [e |-> e, pool |-> 0, slow |-> FALSE], p, l)

AllocFromPool(e, p, l) ==
    LET Typed(f) == IF Allocated(f, p) THEN [f EXCEPT !.pix[p].type = "pool"] ELSE f
    IN  IF e.pix[p].kind # "plain" THEN e ELSE Typed(AllocFromSmallPool(e, p, l))

\* Mutant of FreeEntry: a pool stays when its last entry is freed.
FreeEntryOnly(e, p) == Put(e, p, 0, 0)

\* tegra_exa_pixmap_pool_free_entry()
FreeEntry(e, p) ==
    DestroyIfEmpty(Put(e, p, 0, 0), e.loc[p].pool)
=============================================================================
