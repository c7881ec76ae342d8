---------------------------- MODULE PixmapsProps ----------------------------
(* What must hold of the life of pixmaps.                                  *)
EXTENDS Pixmaps

Refrigerated == {p \in Pixmaps : exa.pix[p].cold}
Held         == FoldSet(LAMBDA p, sum : sum + SizeOf(exa, p), 0, Refrigerated)

\* The state has its type, and the books of the refrigerator agree: a pixmap is
\* cold if and only if it is queued, once, the size of the queue is the sum of
\* its pixmaps, and what is queued is a plain pixmap in use with data that is
\* not frozen (mm_fridge.c:815).  The jobs of a batch are counted.
TypeOK ==
    /\ exa.pix \in [Pixmaps -> [life : {"free", "live", "dying", "parked"},
                                kind : {"plain", "tiny", "dri"}, size : Nat,
                                type : {"none", "sysmem", "bo", "pool"},
                                frozen : {"no", "raw", "packed"},
                                accelerated : BOOLEAN, cold : BOOLEAN, fill : BOOLEAN]]
    /\ exa.loc \in [Pixmaps -> [pool : {0} \cup Pools, at : Nat]]
    /\ exa.cooling \in Nat
    /\ (exa.num_jobs = 0) = (exa.batch = <<>>)
    /\ ToSet(exa.freelist) = {p \in Pixmaps : exa.pix[p].life = "parked"}
    /\ IsInjective(exa.cool) /\ ToSet(exa.cool) = Refrigerated
    /\ exa.cooling = Held
    /\ \A p \in Refrigerated : /\ exa.pix[p].life \in {"live", "dying"}
                               /\ exa.pix[p].kind = "plain"
                               /\ exa.pix[p].type # "none"
                               /\ exa.pix[p].frozen = "no"

\* What a job or the batch uses.
Uses == {[pix |-> p, at |-> j.at[p]] : <<j, p>> \in
            {x \in exa.gpu \X Pixmaps : x[2] \in DOMAIN x[1].at}}
        \cup {[pix |-> exa.batch[k].pix, at |-> exa.batch[k].at] :
                 k \in DOMAIN exa.batch}

\* Whatever is compacted, shrunk, frozen or destroyed while jobs are under way
\* or deferred: every entry lies in a pool that exists and overlaps no other,
\* and a job finds the data of its pixmaps where it was told it is.
StorageSafe ==
    /\ \A p, q \in Pixmaps :
          (p # q /\ Allocated(exa, p) /\ exa.loc[p].pool = exa.loc[q].pool) =>
             Units(exa, p) \cap Units(exa, q) = {}
    /\ \A p \in Pixmaps :
          /\ Allocated(exa, p) = (exa.pix[p].type = "pool")
          /\ Allocated(exa, p) => exa.loc[p].at + SizeOf(exa, p) <= exa.size[exa.loc[p].pool]
    /\ \A u \in Uses : /\ exa.pix[u.pix].type \in {"bo", "pool"}
                       /\ u.at = Where(exa, u.pix)

\* When no pixmap is left nothing is left of them: no pool, no queue (mm.c:216
\* calls the rest a memory leak).
NothingLeft ==
    (\A p \in Pixmaps : exa.pix[p].life = "free") =>
       /\ exa.mem_pools = <<>> /\ exa.batch = <<>> /\ exa.gpu = {}
       /\ exa.cool = <<>> /\ exa.cooling = 0
       /\ \A i \in Pools : exa.size[i] = 0

\* The pools in the list are those that have memory, and none of them is empty.
PoolsListed ==
    /\ IsInjective(exa.mem_pools)
    /\ ToSet(exa.mem_pools) = {i \in Pools : exa.size[i] # 0}
    /\ \A i \in ToSet(exa.mem_pools) : ~ IsEmpty(exa, i)

\* A destroyed pixmap does not stay parked: the GPU finishes, and the block
\* handler releases what it had of the pixmap (pixmap.c:169).
FreeListDrains == \A p \in Pixmaps : []<>(exa.pix[p].life # "parked")

\* A pool is destroyed only while nobody has it mapped, as mempool/ asserts
\* (pool_alloc.c:652): one that holds a pixmap open for the CPU stays.
AccessStays ==
    \A p \in DOMAIN exa.access :
       exa.access[p].pool # 0 => exa.size[exa.access[p].pool] # 0
=============================================================================
