---------------------------- MODULE BoCacheProps ----------------------------
(***************************************************************************)
(* What the BO library promises.                                           *)
(***************************************************************************)
EXTENDS BoCache

\* A client's reference keeps the BO: whatever is looked up, recycled or
\* cleaned up behind its back, a BO somebody holds is neither freed nor
\* waiting in a bucket to be handed to somebody else.
HeldStays ==
    \A b \in Bos : bo[b].holds > 0 =>
        /\ bo[b].live
        /\ bo[b].bo_list # "bucket"
        /\ bo[b].ref >= bo[b].holds

\* A BO in a bucket has no owner left, may be reused, and its handle still
\* leads to it.
CachedIsIdle ==
    \A b \in Cached :
        /\ bo[b].ref = 0
        /\ bo[b].holds = 0
        /\ bo[b].reuse
        /\ Bucket(b) # None
        /\ handle_table[bo[b].handle] = b

\* The tables never lead to a freed struct, nor to one of another key.
NoDanglingEntry ==
    /\ \A h \in Handles : handle_table[h] # None =>
          bo[handle_table[h]].live /\ bo[handle_table[h]].handle = h
    /\ \A n \in Names : name_table[n] # None =>
          bo[name_table[n]].live /\ bo[name_table[n]].name = n

\* Every handle the kernel has open belongs to a struct, and every struct has
\* an open handle: none leaks, also over drm_tegra_close(), and none is
\* closed under a BO in use.
HandlesBalanced == opened = {bo[b].handle : b \in {x \in Bos : bo[x].live}}

\* num_entries and num_mmap_entries count the members of the two lists, by
\* bucket; both are unsigned in the code and must not go below zero.
CountsExact ==
    \A k \in BucketSizes :
        /\ num_entries[k] = Cardinality(InBucket(k))
        /\ num_mmap[k] = Cardinality(MmapInBucket(k))

\* As long as a client has a BO mapped its pointer is good: the mapping is
\* neither in the cache, where a cleanup would unmap it, nor gone.
MappingStays ==
    \A b \in Bos :
        /\ bo[b].maps > 0 => bo[b].map
        /\ ~ (bo[b].map /\ bo[b].map_cached)
        /\ bo[b].map_cached => bo[b].live

\* "tables to keep track of bo's, to avoid "evil-twin" buffer objects"
\* (private.h:170): no two structs stand for one handle.
NoEvilTwins ==
    \A a, b \in Bos : bo[a].live /\ bo[b].live /\ bo[a].handle = bo[b].handle => a = b

\* A lookup adds one reference ("found, increment reference count",
\* tegra.c:65; uapi_v1/job.c:128 relies on it), so a BO has exactly the
\* references its clients hold.
RefsExact == \A b \in Bos : bo[b].ref = bo[b].holds

\* mmap_ref is the number of mappings the clients have, so that the last
\* unmap lets the mapping go.
MmapRefExact ==
    \A b \in Bos : bo[b].holds > 0 => bo[b].mmap_ref = bo[b].maps

\* What is counted by hand is exact as long as no lookup revives a cached BO:
\* references, mappings, and the handles open in the kernel.
BalancesExact == RefsExact /\ MmapRefExact /\ HandlesBalanced

\* Recycling is safe: what is held stays, what is cached is nobody's.
RecyclingSafe == HeldStays /\ CachedIsIdle

\* "keep things in cache longer if not much" (tegra_bo_cache.c:397) applies
\* to the mapping of a BO too large for every bucket as well: the cleanup
\* keeps or drops it, but never follows a null pointer.
NoNullBucket == crashed # "bucket"
=============================================================================
