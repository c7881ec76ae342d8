------------------------------ MODULE BoCache ------------------------------
(***************************************************************************)
(* Buffer objects of the tegradrm library: src/src/tegradrm/tegra.c and    *)
(* tegra_bo_cache.c.                                                       *)
(*                                                                         *)
(* A struct drm_tegra_bo stands for a GEM handle of the kernel.  It is     *)
(* reference counted.  A BO whose last reference is dropped is kept in a   *)
(* bucket of BOs of its size for reuse, and its CPU mapping in a cache of  *)
(* mappings; both caches drop what has been there for long.  A handle      *)
(* table and a name table find the BO of a handle or of a flink name, so   *)
(* that no two BOs stand for one handle.                                   *)
(*                                                                         *)
(* One thread calls the library, as in the driver, so a call is one step.  *)
(*                                                                         *)
(* Times are ages: a field free_age or unmap_age says how many ticks ago   *)
(* free_time or unmap_time was taken, up to FewTime, from where on the     *)
(* code treats all ages alike.  A list sorted by time is a set whose       *)
(* oldest members may be its head.  Sizes are in pages.                    *)
(***************************************************************************)
EXTENDS Integers, FiniteSets

CONSTANTS
    Bos,         \* addresses of struct drm_tegra_bo
    Handles,     \* GEM handles
    Names,       \* flink names
    Sizes,       \* the sizes the clients ask for
    BucketSizes, \* the sizes of the buckets
    KeepSize,    \* 16384: buckets of more than that are always cleaned up
    KeepBytes,   \* 65536: smaller ones when they hold more than that
    KeepTime,    \* 10 s: a cached BO is kept for that long
    MapTime,     \* 30 s: a cached mapping is kept for that long
    FewTime,     \* 60 s: the few last entries of a bucket are kept so long
    Few,         \* 5
    MaxRefs,     \* bound on the references and on the mappings of a BO
    Calls,       \* the entry points the clients use
    MapMayFail,  \* whether mmap() of a BO may fail
    None

ASSUME BoCacheAssumption ==
    /\ IsFiniteSet(Bos)
    /\ Sizes \subseteq Nat \ {0}
    /\ BucketSizes \subseteq Nat \ {0}
    /\ KeepSize \in Nat /\ KeepBytes \in Nat
    /\ KeepTime \in Nat /\ MapTime \in Nat /\ FewTime \in Nat /\ Few \in Nat
    /\ MaxRefs \in Nat \ {0}
    /\ MapMayFail \in BOOLEAN
    /\ None \notin Bos /\ None \notin Handles /\ None \notin Names
    /\ None \notin Nat

VARIABLES
    bo,           \* the structs
    handle_table, \* drm->handle_table
    name_table,   \* drm->name_table
    num_entries,  \* of every bucket
    num_mmap,     \* num_mmap_entries of every bucket
    cleaned,      \* bo_cache.time is the current second
    mmap_cleaned, \* mmap_cache.time is the current second
    opened,       \* the handles the kernel has open
    crashed       \* why the process died of a null pointer, or "no"

vars == <<bo, handle_table, name_table, num_entries, num_mmap, cleaned,
          mmap_cleaned, opened, crashed>>
tables == <<handle_table, name_table, opened>>
buckets == <<num_entries, cleaned>>
mmaps == <<num_mmap, mmap_cleaned>>

-----------------------------------------------------------------------------
(* Types.                                                                  *)

Age == 0 .. FewTime

\* bo_list is "self" when the BO is in no list, "bucket" when it waits in a
\* bucket and "null" when the list head was never initialised.  The fields
\* holds and maps are the clients': the references they own and the
\* mappings they asked for.
Bo == [live : BOOLEAN, handle : Handles \cup {None}, name : Names \cup {None},
       size : Nat, reuse : BOOLEAN,
       bo_list : {"self", "bucket", "null"}, ref : Nat, mmap_ref : Nat,
       map : BOOLEAN, map_cached : BOOLEAN, free_age : Age, unmap_age : Age,
       holds : Nat, maps : Nat]

NoBo == [live |-> FALSE, handle |-> None, name |-> None, size |-> 0,
         reuse |-> FALSE, bo_list |-> "null", ref |-> 0, mmap_ref |-> 0,
         map |-> FALSE, map_cached |-> FALSE, free_age |-> 0, unmap_age |-> 0,
         holds |-> 0, maps |-> 0]

TypeOK ==
    /\ bo \in [Bos -> Bo]
    /\ handle_table \in [Handles -> Bos \cup {None}]
    /\ name_table \in [Names -> Bos \cup {None}]
    /\ num_entries \in [BucketSizes -> Nat]
    /\ num_mmap \in [BucketSizes -> Nat]
    /\ cleaned \in BOOLEAN
    /\ mmap_cleaned \in BOOLEAN
    /\ opened \subseteq Handles
    /\ crashed \in {"no", "list", "bucket"}

-----------------------------------------------------------------------------
(* Buckets.                                                                *)

\* drm_tegra_get_bucket(): the smallest bucket that is large enough.
GetBucket(size) ==
    LET fits == {k \in BucketSizes : k >= size}
    IN  IF fits = {} THEN None
        ELSE CHOOSE k \in fits : \A j \in fits : k <= j

Bucket(b) == GetBucket(bo[b].size)

Cached == {b \in Bos : bo[b].bo_list = "bucket"}
InBucket(k) == {b \in Cached : Bucket(b) = k}
MmapCached == {b \in Bos : bo[b].map_cached}
MmapInBucket(k) == {b \in MmapCached : Bucket(b) = k}

\* The BOs that can be the head of the list of bucket k.
Heads(k) == {b \in InBucket(k) : \A c \in InBucket(k) :
                                     bo[c].free_age <= bo[b].free_age}

\* bucket_free_up().
BucketFreeUp(k, n) == k > KeepSize \/ k * n > KeepBytes

\* Whether an entry of that age goes when the bucket has n of them.
Goes(age, min, n) == age > min /\ (age >= FewTime \/ n >= Few)

\* drm_tegra_bo_cache_cleanup(): the sets of BOs it may free.  It takes the
\* oldest BO of a bucket until the oldest one left may stay.
CacheCleanup ==
    IF cleaned THEN {{}}
    ELSE {F \in SUBSET Cached : \A k \in BucketSizes :
            LET gone == F \cap InBucket(k)
                kept == InBucket(k) \ F
                n    == num_entries[k] - Cardinality(gone)
            IN  IF BucketFreeUp(k, num_entries[k])
                THEN /\ \A b \in gone : /\ Goes(bo[b].free_age, KeepTime, n + 1)
                                        /\ \A c \in kept : bo[c].free_age <= bo[b].free_age
                     /\ \A c \in kept : ~ Goes(bo[c].free_age, KeepTime, n)
                ELSE gone = {}}

\* Whether the cleanup of the mappings keeps the mapping of BO b while its
\* bucket has n of them.
KeepsMapping(b, n) ==
    \/ ~ BucketFreeUp(Bucket(b), n)
    \/ ~ Goes(bo[b].unmap_age, MapTime, n)

\* drm_tegra_bo_mmap_cache_cleanup(): the sets of BOs whose mapping it may
\* drop, oldest first within a bucket.  A BO too large for the buckets has
\* none.
MmapCleanup ==
    IF mmap_cleaned THEN {{}}
    ELSE {M \in SUBSET MmapCached :
            /\ \A k \in BucketSizes :
                  LET gone == M \cap MmapInBucket(k)
                      kept == MmapInBucket(k) \ M
                      n    == num_mmap[k] - Cardinality(gone)
                  IN  /\ \A b \in gone : /\ ~ KeepsMapping(b, n + 1)
                                         /\ \A c \in kept : bo[c].unmap_age <= bo[b].unmap_age
                      /\ \A c \in kept : KeepsMapping(c, n)
            /\ \A b \in MmapCached : Bucket(b) = None =>
                  (b \in M <=> bo[b].unmap_age > MapTime)}

\* The same cleanup reads num_mmap_entries of the bucket of such a BO.
ReadsNoBucket ==
    /\ ~ mmap_cleaned
    /\ \E b \in MmapCached : /\ Bucket(b) = None
                             /\ bo[b].unmap_age > MapTime
                             /\ bo[b].unmap_age < FewTime

-----------------------------------------------------------------------------
(* Pieces of the calls.                                                    *)

Running(call) == crashed = "no" /\ call \in Calls

\* A null pointer is followed.
Crash(why) ==
    /\ crashed' = why
    /\ UNCHANGED <<bo, tables, buckets, mmaps>>

\* num_mmap_entries after the mappings of M left the cache.
MmapLess(M) ==
    [k \in BucketSizes |-> num_mmap[k] - Cardinality({b \in M : Bucket(b) = k})]

\* Mutants of Forget: the name stays in the name table; the cached mapping
\* stays counted.
ForgetButName(F) ==
    /\ handle_table' = [h \in Handles |->
          IF \E b \in F : bo[b].handle = h THEN None ELSE handle_table[h]]
    /\ opened' = opened \ {bo[b].handle : b \in F}
    /\ num_mmap' = MmapLess(F \cap MmapCached)
    /\ UNCHANGED name_table

ForgetButCount(F) ==
    /\ handle_table' = [h \in Handles |->
          IF \E b \in F : bo[b].handle = h THEN None ELSE handle_table[h]]
    /\ name_table' = [n \in Names |->
          IF \E b \in F : bo[b].name = n THEN None ELSE name_table[n]]
    /\ opened' = opened \ {bo[b].handle : b \in F}
    /\ UNCHANGED num_mmap

\* drm_tegra_bo_free() of the BOs in F, but for the structs themselves.
Forget(F) ==
    /\ handle_table' = [h \in Handles |->
          IF \E b \in F : bo[b].handle = h THEN None ELSE handle_table[h]]
    /\ name_table' = [n \in Names |->
          IF \E b \in F : bo[b].name = n THEN None ELSE name_table[n]]
    /\ opened' = opened \ {bo[b].handle : b \in F}
    /\ num_mmap' = MmapLess(F \cap MmapCached)

\* Mutant of ToMmapCache: bo->map is not cleared.
ToMmapCacheMapped(b, rec) ==
    \E M \in MmapCleanup :
        /\ bo' = [x \in Bos |->
              IF x = b THEN [rec EXCEPT !.map_cached = TRUE, !.unmap_age = 0]
              ELSE IF x \in M THEN [bo[x] EXCEPT !.map_cached = FALSE, !.unmap_age = 0]
              ELSE bo[x]]
        /\ num_mmap' = [k \in BucketSizes |->
              MmapLess(M)[k] + IF GetBucket(rec.size) = k THEN 1 ELSE 0]
        /\ mmap_cleaned' = TRUE

\* drm_tegra_bo_cache_unmap(), for a BO that is about to become rec: old
\* mappings are dropped, then that of b is added.
ToMmapCache(b, rec) ==
    \E M \in MmapCleanup :
        /\ bo' = [x \in Bos |->
              IF x = b THEN [rec EXCEPT !.map = FALSE, !.map_cached = TRUE,
                                        !.unmap_age = 0]
              ELSE IF x \in M THEN [bo[x] EXCEPT !.map_cached = FALSE, !.unmap_age = 0]
              ELSE bo[x]]
        /\ num_mmap' = [k \in BucketSizes |->
              MmapLess(M)[k] + IF GetBucket(rec.size) = k THEN 1 ELSE 0]
        /\ mmap_cleaned' = TRUE

\* drm_tegra_reset_bo(), for a BO that is about to become rec.
ResetBo(b, rec) ==
    IF bo[b].map THEN ToMmapCache(b, [rec EXCEPT !.mmap_ref = 0])
    ELSE /\ bo' = [bo EXCEPT ![b] = [rec EXCEPT !.mmap_ref = 0]]
         /\ UNCHANGED mmaps

\* BO b leaves its bucket for a new owner.
TakeOut(b, rec) ==
    /\ ResetBo(b, [rec EXCEPT !.bo_list = "self", !.free_age = 0, !.maps = 0])
    /\ num_entries' = [num_entries EXCEPT ![Bucket(b)] = @ - 1]

\* lookup_bo() found b.  A BO taken out of a bucket starts with a reference
\* and the lookup adds another one.
LookupBo(b) ==
    \/ /\ bo[b].bo_list = "null"
       /\ Crash("list")
    \/ /\ bo[b].bo_list = "bucket"
       /\ IF bo[b].map /\ ReadsNoBucket THEN Crash("bucket")
          ELSE /\ TakeOut(b, [bo[b] EXCEPT !.ref = 2, !.holds = 1])
               /\ UNCHANGED <<tables, cleaned, crashed>>
    \/ /\ bo[b].bo_list = "self"
       /\ bo[b].ref <= MaxRefs
       /\ bo' = [bo EXCEPT ![b].ref = @ + 1, ![b].holds = @ + 1]
       /\ UNCHANGED <<tables, buckets, mmaps, crashed>>

\* A new struct for handle h, with one reference.
NewBo(h, n, size, list, reuse) ==
    [live |-> TRUE, handle |-> h, name |-> n, size |-> size, reuse |-> reuse,
     bo_list |-> list, ref |-> 1, mmap_ref |-> 0, map |-> FALSE,
     map_cached |-> FALSE, free_age |-> 0, unmap_age |-> 0, holds |-> 1,
     maps |-> 0]

-----------------------------------------------------------------------------
(* The calls.                                                              *)

Init ==
    /\ bo = [b \in Bos |-> NoBo]
    /\ handle_table = [h \in Handles |-> None]
    /\ name_table = [n \in Names |-> None]
    /\ num_entries = [k \in BucketSizes |-> 0]
    /\ num_mmap = [k \in BucketSizes |-> 0]
    /\ cleaned = FALSE
    /\ mmap_cleaned = FALSE
    /\ opened = {}
    /\ crashed = "no"

\* Mutant of NewFromCache: the reference is added to the one of the reset.
NewFromCacheTwice(size) ==
    /\ Running("new")
    /\ GetBucket(size) # None
    /\ \E b \in Heads(GetBucket(size)) :
          IF bo[b].map /\ ReadsNoBucket THEN Crash("bucket")
          ELSE /\ TakeOut(b, [bo[b] EXCEPT !.ref = 2, !.holds = 1])
               /\ UNCHANGED <<tables, cleaned, crashed>>

\* drm_tegra_bo_new() when the head of the bucket is idle.
NewFromCache(size) ==
    /\ Running("new")
    /\ GetBucket(size) # None
    /\ \E b \in Heads(GetBucket(size)) :
          IF bo[b].map /\ ReadsNoBucket THEN Crash("bucket")
          ELSE /\ TakeOut(b, [bo[b] EXCEPT !.ref = 1, !.holds = 1])
               /\ UNCHANGED <<tables, cleaned, crashed>>

\* drm_tegra_bo_new() when the bucket is empty or its head busy.  Where the
\* kernel has no memory nothing changes.
NewCreated(size) ==
    /\ Running("new")
    /\ \E b \in Bos, h \in Handles \ opened :
          /\ ~ bo[b].live
          /\ bo' = [bo EXCEPT ![b] = NewBo(h, None,
                IF GetBucket(size) = None THEN size ELSE GetBucket(size),
                "self", TRUE)]
          /\ handle_table' = [handle_table EXCEPT ![h] = b]
          /\ opened' = opened \cup {h}
    /\ UNCHANGED <<name_table, buckets, mmaps, crashed>>

\* Mutant of Wrap: the handle is not looked up.
WrapBlindly(h, size) ==
    /\ Running("wrap")
    /\ \E b \in Bos :
          /\ ~ bo[b].live
          /\ bo' = [bo EXCEPT ![b] = NewBo(h, None, size, "self", FALSE)]
          /\ handle_table' = [handle_table EXCEPT ![h] = b]
    /\ opened' = opened \cup {h}
    /\ UNCHANGED <<name_table, buckets, mmaps, crashed>>

\* drm_tegra_bo_wrap(), of a handle that the kernel gave the client.
Wrap(h, size) ==
    /\ Running("wrap")
    /\ IF handle_table[h] # None THEN LookupBo(handle_table[h])
       ELSE /\ \E b \in Bos :
                  /\ ~ bo[b].live
                  /\ bo' = [bo EXCEPT ![b] = NewBo(h, None, size, "self", FALSE)]
                  /\ handle_table' = [handle_table EXCEPT ![h] = b]
            /\ opened' = opened \cup {h}
            /\ UNCHANGED <<name_table, buckets, mmaps, crashed>>

\* drm_tegra_bo_from_handle(); an unknown handle is an error.
FromHandle(h) ==
    /\ Running("from_handle")
    /\ handle_table[h] # None
    /\ LookupBo(handle_table[h])

\* drm_tegra_bo_from_name().  GEM_OPEN always returns a new handle.  Neither
\* list head of the struct is initialised and it is not put into the handle
\* table.
FromName(n, size) ==
    /\ Running("from_name")
    /\ IF name_table[n] # None THEN LookupBo(name_table[n])
       ELSE \E h \in Handles \ opened :
               IF handle_table[h] # None THEN LookupBo(handle_table[h])
               ELSE /\ \E b \in Bos :
                          /\ ~ bo[b].live
                          /\ bo' = [bo EXCEPT ![b] =
                                NewBo(h, n, size, "null", FALSE)]
                          /\ name_table' = [name_table EXCEPT ![n] = b]
                    /\ opened' = opened \cup {h}
                    /\ UNCHANGED <<handle_table, buckets, mmaps, crashed>>

\* drm_tegra_bo_from_dmabuf(), with the handle the kernel has for the
\* buffer or a new one.  After a failed lseek() the struct is freed, and the
\* list head of its mappings is a null pointer.
FromDmabuf(h, size) ==
    /\ Running("from_dmabuf")
    /\ IF handle_table[h] # None THEN LookupBo(handle_table[h])
       ELSE \E b \in Bos :
               /\ ~ bo[b].live
               /\ \/ /\ bo' = [bo EXCEPT ![b] = NewBo(h, None, size, "null", FALSE)]
                     /\ handle_table' = [handle_table EXCEPT ![h] = b]
                     /\ opened' = opened \cup {h}
                     /\ UNCHANGED <<name_table, buckets, mmaps, crashed>>
                  \/ Crash("list")

\* drm_tegra_bo_ref().
Ref(b) ==
    /\ Running("ref")
    /\ bo[b].holds > 0
    /\ bo[b].ref <= MaxRefs
    /\ bo' = [bo EXCEPT ![b].ref = @ + 1, ![b].holds = @ + 1]
    /\ UNCHANGED <<tables, buckets, mmaps, crashed>>

\* drm_tegra_bo_unref() of one reference of several.  A client that gives up
\* its last one forgets its mappings.
UnrefOne(b) ==
    /\ Running("unref")
    /\ bo[b].holds > 0
    /\ bo[b].ref > 1
    /\ bo' = [bo EXCEPT ![b].ref = @ - 1, ![b].holds = @ - 1,
                        ![b].maps = IF bo[b].holds = 1 THEN 0 ELSE @]
    /\ UNCHANGED <<tables, buckets, mmaps, crashed>>

\* Mutant of UnrefToCache: the handle is forgotten along with the others.
UnrefToCacheFirst(b) ==
    /\ Running("unref")
    /\ bo[b].holds > 0
    /\ bo[b].ref = 1
    /\ \E F \in CacheCleanup :
          /\ Forget(F \cup {b})
          /\ bo' = [x \in Bos |->
                IF x \in F THEN NoBo
                ELSE IF x = b THEN [bo[b] EXCEPT !.ref = 0, !.holds = @ - 1,
                                                 !.maps = 0, !.bo_list = "bucket"]
                ELSE bo[x]]
          /\ num_entries' = [k \in BucketSizes |->
                num_entries[k] - Cardinality(F \cap InBucket(k))
                + IF k = Bucket(b) THEN 1 ELSE 0]
    /\ cleaned' = TRUE
    /\ UNCHANGED <<mmap_cleaned, crashed>>

\* Mutant of UnrefToCache: the BO is not counted.
UnrefToCacheUncounted(b) ==
    /\ Running("unref")
    /\ bo[b].holds > 0
    /\ bo[b].ref = 1
    /\ bo[b].reuse /\ Bucket(b) # None
    /\ \E F \in CacheCleanup :
          /\ Forget(F)
          /\ bo' = [x \in Bos |->
                IF x \in F THEN NoBo
                ELSE IF x = b THEN [bo[b] EXCEPT !.ref = 0, !.holds = @ - 1, !.maps = 0,
                                                 !.bo_list = "bucket", !.free_age = 0]
                ELSE bo[x]]
          /\ num_entries' = [k \in BucketSizes |->
                num_entries[k] - Cardinality(F \cap InBucket(k))]
    /\ cleaned' = TRUE
    /\ UNCHANGED <<mmap_cleaned, crashed>>

\* drm_tegra_bo_unref() of the last reference: the cache takes the BO, after
\* a cleanup ...
UnrefToCache(b) ==
    /\ Running("unref")
    /\ bo[b].holds > 0
    /\ bo[b].ref = 1
    /\ bo[b].reuse /\ Bucket(b) # None
    /\ \E F \in CacheCleanup :
          /\ Forget(F)
          /\ bo' = [x \in Bos |->
                IF x \in F THEN NoBo
                ELSE IF x = b THEN [bo[b] EXCEPT !.ref = 0, !.holds = @ - 1, !.maps = 0,
                                                 !.bo_list = "bucket", !.free_age = 0]
                ELSE bo[x]]
          /\ num_entries' = [k \in BucketSizes |->
                num_entries[k] - Cardinality(F \cap InBucket(k))
                + IF k = Bucket(b) THEN 1 ELSE 0]
    /\ cleaned' = TRUE
    /\ UNCHANGED <<mmap_cleaned, crashed>>

\* ... or the struct is freed and its handle closed.
UnrefFree(b) ==
    /\ Running("unref")
    /\ bo[b].holds > 0
    /\ bo[b].ref = 1
    /\ ~ bo[b].reuse \/ Bucket(b) = None
    /\ IF bo[b].bo_list = "null" THEN Crash("list")
       ELSE /\ Forget({b})
            /\ bo' = [bo EXCEPT ![b] = NoBo]
            /\ UNCHANGED <<buckets, mmap_cleaned, crashed>>

\* drm_tegra_bo_map().  When mmap() fails mmap_ref stays raised.
Map(b) ==
    /\ Running("map")
    /\ bo[b].holds > 0
    /\ bo[b].mmap_ref < MaxRefs
    /\ \/ /\ bo[b].map
          /\ bo' = [bo EXCEPT ![b].mmap_ref = @ + 1, ![b].maps = @ + 1]
          /\ UNCHANGED num_mmap
       \/ /\ ~ bo[b].map
          /\ bo' = [bo EXCEPT ![b].mmap_ref = @ + 1, ![b].maps = @ + 1,
                              ![b].map = TRUE, ![b].map_cached = FALSE,
                              ![b].unmap_age = 0]
          /\ num_mmap' = MmapLess({b} \cap MmapCached)
       \/ /\ ~ bo[b].map /\ ~ bo[b].map_cached
          /\ MapMayFail
          /\ bo' = [bo EXCEPT ![b].mmap_ref = @ + 1]
          /\ UNCHANGED num_mmap
    /\ UNCHANGED <<tables, buckets, mmap_cleaned, crashed>>

\* drm_tegra_bo_unmap().
Unmap(b) ==
    /\ Running("map")
    /\ bo[b].maps > 0
    /\ IF bo[b].map /\ bo[b].mmap_ref = 1
       THEN IF ReadsNoBucket THEN Crash("bucket")
            ELSE /\ ToMmapCache(b, [bo[b] EXCEPT !.mmap_ref = 0, !.maps = @ - 1])
                 /\ UNCHANGED <<tables, buckets, crashed>>
       ELSE /\ bo' = [bo EXCEPT ![b].mmap_ref = IF bo[b].map THEN @ - 1 ELSE @,
                                ![b].maps = @ - 1]
            /\ UNCHANGED <<tables, buckets, mmaps, crashed>>

\* drm_tegra_bo_get_name(), the first time.
GetName(b) ==
    /\ Running("get_name")
    /\ bo[b].holds > 0
    /\ bo[b].name = None
    /\ \E n \in Names :
          /\ \A x \in Bos : bo[x].name # n
          /\ name_table' = [name_table EXCEPT ![n] = b]
          /\ bo' = [bo EXCEPT ![b].name = n]
    /\ UNCHANGED <<handle_table, opened, buckets, mmaps, crashed>>

\* drm_tegra_bo_forbid_caching().
ForbidCaching(b) ==
    /\ Running("forbid_caching")
    /\ bo[b].holds > 0
    /\ bo[b].reuse
    /\ bo' = [bo EXCEPT ![b].reuse = FALSE]
    /\ UNCHANGED <<tables, buckets, mmaps, crashed>>

\* drm_tegra_close(), when the clients have let go of their BOs, and the
\* next drm_tegra_new(): bo_cache is emptied, the rest is lost.
Close ==
    /\ Running("close")
    /\ \A b \in Bos : bo[b].holds = 0
    /\ opened' = opened \ {bo[b].handle : b \in Cached}
    /\ bo' = [b \in Bos |-> NoBo]
    /\ handle_table' = [h \in Handles |-> None]
    /\ name_table' = [n \in Names |-> None]
    /\ num_entries' = [k \in BucketSizes |-> 0]
    /\ num_mmap' = [k \in BucketSizes |-> 0]
    /\ cleaned' = FALSE
    /\ mmap_cleaned' = FALSE
    /\ UNCHANGED crashed

\* CLOCK_MONOTONIC.
Tick ==
    /\ crashed = "no"
    /\ LET Older(a) == IF a < FewTime THEN a + 1 ELSE a
       IN  bo' = [b \in Bos |-> [bo[b] EXCEPT
                !.free_age = IF b \in Cached THEN Older(@) ELSE @,
                !.unmap_age = IF b \in MmapCached THEN Older(@) ELSE @]]
    /\ cleaned' = FALSE
    /\ mmap_cleaned' = FALSE
    /\ UNCHANGED <<tables, num_entries, num_mmap, crashed>>

Next ==
    \/ \E size \in Sizes :
          \/ NewFromCache(size)
          \/ NewCreated(size)
          \/ \E h \in Handles : Wrap(h, size) \/ FromDmabuf(h, size)
          \/ \E n \in Names : FromName(n, size)
    \/ \E h \in Handles : FromHandle(h)
    \/ \E b \in Bos :
          \/ Ref(b) \/ UnrefOne(b) \/ UnrefToCache(b) \/ UnrefFree(b)
          \/ Map(b) \/ Unmap(b) \/ GetName(b) \/ ForbidCaching(b)
    \/ Close
    \/ Tick

Spec == Init /\ [][Next]_vars
=============================================================================
