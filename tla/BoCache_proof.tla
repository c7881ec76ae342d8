---------------------------- MODULE BoCache_proof ----------------------------
(***************************************************************************)
(* Proofs about the BO library: whatever the clients call, a BO somebody   *)
(* holds is never recycled nor freed, the tables never dangle, the counts  *)
(* of the buckets are exact and a mapping in use stays.  Without names no  *)
(* two structs stand for a handle; without lookups reference counts are    *)
(* exact and no handle leaks.                                              *)
(***************************************************************************)
EXTENDS BoCacheInv, FiniteSetTheorems, TLAPS

-----------------------------------------------------------------------------
(* Counting.                                                               *)

\* The size of a set that the members of F leave and that b may join.
LEMMA CountDrop ==
    ASSUME NEW S, IsFiniteSet(S), NEW F
    PROVE  /\ IsFiniteSet(S \ F)
           /\ Cardinality(S \ F) \in Nat
           /\ Cardinality(S) \in Nat
           /\ Cardinality(S \cap F) \in Nat
           /\ Cardinality(S \ F) = Cardinality(S) - Cardinality(S \cap F)
<1>1. /\ IsFiniteSet(S \ F) /\ IsFiniteSet(S \cap F)
      /\ Cardinality(S \ F) \in Nat /\ Cardinality(S \cap F) \in Nat
      /\ Cardinality(S) \in Nat
    BY FS_Subset, FS_CardinalityType
<1>2. S = (S \ F) \cup (S \cap F) /\ (S \ F) \cap (S \cap F) = {}
    OBVIOUS
<1>3. Cardinality({}) = 0
    BY FS_EmptySet
<1>4. Cardinality((S \ F) \cup (S \cap F))
      = Cardinality(S \ F) + Cardinality(S \cap F) - Cardinality((S \ F) \cap (S \cap F))
    BY <1>1, FS_Union
<1>5. /\ Cardinality((S \ F) \cup (S \cap F)) = Cardinality(S)
      /\ Cardinality((S \ F) \cap (S \cap F)) = 0
    BY <1>2, <1>3, Zenon
<1>. QED
    BY <1>1, <1>4, <1>5

LEMMA CountJoin ==
    ASSUME NEW S, IsFiniteSet(S), NEW F, NEW b, b \notin S \ F
    PROVE  /\ Cardinality((S \ F) \cup {b}) \in Nat
           /\ Cardinality((S \ F) \cup {b})
              = Cardinality(S) - Cardinality(S \cap F) + 1
<1>1. /\ IsFiniteSet(S \ F) /\ Cardinality(S \ F) \in Nat
      /\ Cardinality(S) \in Nat /\ Cardinality(S \cap F) \in Nat
      /\ Cardinality(S \ F) = Cardinality(S) - Cardinality(S \cap F)
    BY CountDrop
<1>2. Cardinality((S \ F) \cup {b}) = Cardinality(S \ F) + 1
    BY <1>1, FS_AddElement
<1>. QED
    BY <1>1, <1>2

\* A struct as it waits in bucket k, and as its mapping does.
Waits(r, k) == r.bo_list = "bucket" /\ GetBucket(r.size) = k
MapWaits(r, k) == r.map_cached /\ GetBucket(r.size) = k

LEMMA BucketSets ==
    /\ \A k : InBucket(k) = {b \in Bos : Waits(bo[b], k)}
    /\ \A k : MmapInBucket(k) = {b \in Bos : MapWaits(bo[b], k)}
    /\ \A k : InBucket(k)' = {b \in Bos : Waits(bo'[b], k)}
    /\ \A k : MmapInBucket(k)' = {b \in Bos : MapWaits(bo'[b], k)}
    /\ \A k : IsFiniteSet(InBucket(k)) /\ IsFiniteSet(MmapInBucket(k))
<1>1. /\ \A k : InBucket(k) = {b \in Bos : Waits(bo[b], k)}
      /\ \A k : MmapInBucket(k) = {b \in Bos : MapWaits(bo[b], k)}
      /\ \A k : InBucket(k)' = {b \in Bos : Waits(bo'[b], k)}
      /\ \A k : MmapInBucket(k)' = {b \in Bos : MapWaits(bo'[b], k)}
    BY DEF InBucket, MmapInBucket, Cached, MmapCached, Bucket, Waits, MapWaits
<1>2. \A k : InBucket(k) \subseteq Bos /\ MmapInBucket(k) \subseteq Bos
    BY <1>1
<1>. QED
    BY <1>1, <1>2, BoCacheAssumption, FS_Subset

\* GetBucket() returns a bucket or nothing.
LEMMA GetBucketFact ==
    ASSUME NEW size \in Nat
    PROVE  GetBucket(size) = None \/ GetBucket(size) \in BucketSizes
<1>. DEFINE fits == {k \in BucketSizes : k >= size}
            R == {ss \in Nat \X Nat : ss[1] < ss[2]}
<1>1. CASE fits = {}
    BY <1>1 DEF GetBucket
<1>2. CASE fits # {}
    <2>1. IsWellFoundedOn(R, Nat)
        BY NatLessThanWellFounded DEF OpToRel
    <2>2. fits \subseteq Nat
        BY BoCacheAssumption
    <2>. HIDE DEF R, fits
    <2>3. PICK n \in fits : \A m \in fits : ~ (<<m, n>> \in R)
        BY <1>2, <2>1, <2>2, WFMin
    <2>4. ASSUME NEW m \in fits PROVE n <= m
        <3>1. m \in Nat /\ n \in Nat
            BY <2>2
        <3>2. m < n => <<m, n>> \in R
            BY <3>1 DEF R
        <3>. QED
            BY <2>3, <3>1, <3>2
    <2>5. (CHOOSE k \in fits : \A j \in fits : k <= j) \in fits
        BY <2>4
    <2>6. GetBucket(size) = CHOOSE k \in fits : \A j \in fits : k <= j
        BY <1>2 DEF GetBucket, fits
    <2>. QED
        BY <2>5, <2>6 DEF fits
<1>. QED
    BY <1>1, <1>2

-----------------------------------------------------------------------------
(* Pieces of the steps that keep parts of the invariant.                   *)

\* What the tables say of a struct.
Alike(r, s) ==
    /\ r.live = s.live
    /\ r.handle = s.handle
    /\ r.name = s.name
    /\ (r.bo_list = "null" <=> s.bo_list = "null")

\* The tables stay sound when nothing they speak of changes.
LEMMA SameTables ==
    ASSUME TablesOK, UNCHANGED tables, \A x \in Bos : Alike(bo'[x], bo[x])
    PROVE  TablesOK'
BY DEF TablesOK, tables, Alike, NoDanglingEntry, InTable, TableOpen

\* drm_tegra_bo_free() leaves no entry of a freed struct behind.
LEMMA ForgetTables ==
    ASSUME TablesOK, BosOK, NEW F, F \subseteq Bos, Forget(F),
           \A x \in F : bo[x].live /\ bo[x].bo_list # "null" /\ bo'[x] = NoBo,
           \A x \in Bos \ F : Alike(bo'[x], bo[x])
    PROVE  TablesOK'
<1>1. handle_table' \in [Handles -> Bos \cup {None}] /\ opened' \subseteq Handles
    BY DEF TablesOK, Forget
<1>2. name_table' \in [Names -> Bos \cup {None}]
    BY DEF TablesOK, Forget
<1>3. ASSUME NEW h \in Handles, handle_table'[h] # None
      PROVE  /\ handle_table[h] # None /\ handle_table'[h] = handle_table[h]
             /\ handle_table[h] \in Bos \ F
             /\ h \in opened'
    <2>1. handle_table'[h] = handle_table[h] /\ \A c \in F : bo[c].handle # h
        BY <1>3 DEF Forget
    <2>. QED
        BY <1>3, <2>1 DEF TablesOK, TableOpen, NoDanglingEntry, Forget
<1>4. ASSUME NEW n \in Names, name_table'[n] # None
      PROVE  /\ name_table[n] # None /\ name_table'[n] = name_table[n]
             /\ name_table[n] \in Bos \ F
    <2>1. name_table'[n] = name_table[n] /\ \A c \in F : bo[c].name # n
        BY <1>4 DEF Forget
    <2>. QED
        BY <1>4, <2>1 DEF TablesOK, NoDanglingEntry
<1>5. NoDanglingEntry'
    BY <1>3, <1>4 DEF TablesOK, NoDanglingEntry, Alike
<1>6. InTable'
    <2>. SUFFICES ASSUME NEW x \in Bos, bo'[x].live, bo'[x].bo_list # "null"
                  PROVE  handle_table'[bo'[x].handle] = x
        BY DEF InTable
    <2>1. x \notin F
        BY DEF NoBo
    <2>2. /\ bo[x].live /\ bo[x].bo_list # "null" /\ bo'[x].handle = bo[x].handle
          /\ handle_table[bo[x].handle] = x
        BY <2>1 DEF Alike, TablesOK, InTable
    <2>3. \A c \in F : bo[c].handle # bo[x].handle
        BY <2>1, <2>2 DEF TablesOK, InTable
    <2>4. bo[x].handle \in Handles
        BY <2>2 DEF BosOK, RecOK
    <2>. QED
        BY <2>2, <2>3, <2>4 DEF Forget
<1>7. TableOpen'
    BY <1>3 DEF TableOpen
<1>. QED
    BY <1>1, <1>2, <1>5, <1>6, <1>7 DEF TablesOK

\* A new struct enters the handle table.
LEMMA EnterTables ==
    ASSUME TablesOK, BosOK, NEW b \in Bos, ~ bo[b].live,
           NEW h \in Handles, handle_table[h] = None,
           NEW r, r.live, r.handle = h, bo' = [bo EXCEPT ![b] = r],
           handle_table' = [handle_table EXCEPT ![h] = b],
           opened' = opened \cup {h}, name_table' = name_table
    PROVE  TablesOK'
<1>1. /\ handle_table' \in [Handles -> Bos \cup {None}] /\ opened' \subseteq Handles
      /\ name_table' \in [Names -> Bos \cup {None}]
    BY DEF TablesOK
<1>2. bo'[b] = r /\ \A x \in Bos : x # b => bo'[x] = bo[x]
    BY DEF BosOK
<1>3. handle_table'[h] = b /\ \A g \in Handles : g # h => handle_table'[g] = handle_table[g]
    BY DEF TablesOK
<1>4. NoDanglingEntry'
    BY <1>2, <1>3, BoCacheAssumption DEF TablesOK, NoDanglingEntry
<1>5. InTable'
    <2>. SUFFICES ASSUME NEW x \in Bos, bo'[x].live, bo'[x].bo_list # "null"
                  PROVE  handle_table'[bo'[x].handle] = x
        BY DEF InTable
    <2>1. CASE x = b
        BY <1>2, <1>3, <2>1
    <2>2. CASE x # b
        <3>1. handle_table[bo[x].handle] = x /\ bo[x].handle \in Handles
            BY <1>2, <2>2 DEF TablesOK, InTable, BosOK, RecOK
        <3>2. x # None
            BY BoCacheAssumption
        <3>. QED
            BY <1>2, <1>3, <2>2, <3>1, <3>2
    <2>. QED
        BY <2>1, <2>2
<1>6. TableOpen'
    BY <1>3 DEF TablesOK, TableOpen
<1>. QED
    BY <1>1, <1>4, <1>5, <1>6 DEF TablesOK

-----------------------------------------------------------------------------
(* The counts of the buckets.                                              *)

\* No member comes or goes.
LEMMA SameCounts ==
    ASSUME \A x \in Bos : /\ bo'[x].bo_list = bo[x].bo_list
                          /\ bo'[x].size = bo[x].size
    PROVE  \A k : InBucket(k)' = InBucket(k)
BY BucketSets DEF Waits

LEMMA SameMmaps ==
    ASSUME \A x \in Bos : /\ bo'[x].map_cached = bo[x].map_cached
                          /\ bo'[x].size = bo[x].size
    PROVE  \A k : MmapInBucket(k)' = MmapInBucket(k)
BY BucketSets DEF MapWaits

\* What MmapLess() computes.
LEMMA MmapLessFact ==
    ASSUME NEW M, M \subseteq Bos, NEW k \in BucketSizes
    PROVE  MmapLess(M \cap MmapCached)[k]
           = num_mmap[k] - Cardinality(MmapInBucket(k) \cap M)
<1>1. {c \in M \cap MmapCached : Bucket(c) = k} = MmapInBucket(k) \cap M
    BY DEF MmapInBucket
<1>2. MmapLess(M \cap MmapCached)[k]
      = num_mmap[k] - Cardinality({c \in M \cap MmapCached : Bucket(c) = k})
    BY DEF MmapLess
<1>. QED
    BY <1>1, <1>2, Zenon

\* The members of F leave their buckets and b enters bucket K.
EntriesMove(F, b, K) ==
    /\ num_entries' = [k \in BucketSizes |->
            num_entries[k] - Cardinality(InBucket(k) \cap F) + IF k = K THEN 1 ELSE 0]
    /\ \A x \in Bos : \A k \in BucketSizes :
            Waits(bo'[x], k) <=> \/ Waits(bo[x], k) /\ x \notin F
                                 \/ x = b /\ k = K

LEMMA EntriesChange ==
    ASSUME EntriesOK, NEW F, F \subseteq Bos, NEW b \in Bos, b \notin Cached \ F,
           NEW K,
           EntriesMove(F, b, K)
    PROVE  EntriesOK'
<1>1. ASSUME NEW k \in BucketSizes
      PROVE  /\ Cardinality(InBucket(k)') \in Nat
             /\ num_entries'[k] = Cardinality(InBucket(k)')
    <2>1. b \notin InBucket(k) \ F /\ IsFiniteSet(InBucket(k))
        BY BucketSets DEF InBucket
    <2>2. CASE k = K
        <3>1. InBucket(k)' = (InBucket(k) \ F) \cup {b}
            <4>1. \A x : x \in InBucket(k)' <=> x \in (InBucket(k) \ F) \cup {b}
                BY <2>2, BucketSets DEF EntriesMove
            <4>. QED
                BY <4>1
        <3>2. /\ Cardinality((InBucket(k) \ F) \cup {b}) \in Nat
              /\ Cardinality((InBucket(k) \ F) \cup {b})
                 = Cardinality(InBucket(k)) - Cardinality(InBucket(k) \cap F) + 1
            BY <2>1, CountJoin, Zenon
        <3>3. /\ Cardinality(InBucket(k)') \in Nat
              /\ Cardinality(InBucket(k)') = Cardinality(InBucket(k)) - Cardinality(InBucket(k) \cap F) + 1
            BY <3>1, <3>2, Zenon
        <3>. QED
            BY <2>2, <3>3 DEF EntriesOK, EntriesMove
    <2>3. CASE k # K
        <3>1. InBucket(k)' = InBucket(k) \ F
            <4>1. \A x : x \in InBucket(k)' <=> x \in InBucket(k) \ F
                BY <2>3, BucketSets DEF EntriesMove
            <4>. QED
                BY <4>1
        <3>2. /\ Cardinality(InBucket(k)') \in Nat
              /\ Cardinality(InBucket(k)) \in Nat /\ Cardinality(InBucket(k) \cap F) \in Nat
              /\ Cardinality(InBucket(k)') = Cardinality(InBucket(k)) - Cardinality(InBucket(k) \cap F)
            BY <2>1, <3>1, CountDrop
        <3>. QED
            BY <2>3, <3>2 DEF EntriesOK, EntriesMove
    <2>. QED
        BY <2>2, <2>3
<1>. QED
    BY <1>1 DEF EntriesOK, EntriesMove

\* The mappings of M leave the cache and that of b enters bucket K.
MmapsMove(M, b, K) ==
    /\ num_mmap' = [k \in BucketSizes |->
            num_mmap[k] - Cardinality(MmapInBucket(k) \cap M) + IF k = K THEN 1 ELSE 0]
    /\ \A x \in Bos : \A k \in BucketSizes :
            MapWaits(bo'[x], k) <=> \/ MapWaits(bo[x], k) /\ x \notin M
                                    \/ x = b /\ k = K

LEMMA MmapChange ==
    ASSUME MmapOK, NEW M, M \subseteq Bos, NEW b \in Bos, b \notin MmapCached \ M,
           NEW K,
           MmapsMove(M, b, K)
    PROVE  MmapOK'
<1>1. ASSUME NEW k \in BucketSizes
      PROVE  /\ Cardinality(MmapInBucket(k)') \in Nat
             /\ num_mmap'[k] = Cardinality(MmapInBucket(k)')
    <2>1. b \notin MmapInBucket(k) \ M /\ IsFiniteSet(MmapInBucket(k))
        BY BucketSets DEF MmapInBucket
    <2>2. CASE k = K
        <3>1. MmapInBucket(k)' = (MmapInBucket(k) \ M) \cup {b}
            <4>1. \A x : x \in MmapInBucket(k)' <=> x \in (MmapInBucket(k) \ M) \cup {b}
                BY <2>2, BucketSets DEF MmapsMove
            <4>. QED
                BY <4>1
        <3>2. /\ Cardinality((MmapInBucket(k) \ M) \cup {b}) \in Nat
              /\ Cardinality((MmapInBucket(k) \ M) \cup {b})
                 = Cardinality(MmapInBucket(k)) - Cardinality(MmapInBucket(k) \cap M) + 1
            BY <2>1, CountJoin, Zenon
        <3>3. /\ Cardinality(MmapInBucket(k)') \in Nat
              /\ Cardinality(MmapInBucket(k)') = Cardinality(MmapInBucket(k)) - Cardinality(MmapInBucket(k) \cap M) + 1
            BY <3>1, <3>2, Zenon
        <3>. QED
            BY <2>2, <3>3 DEF MmapOK, MmapsMove
    <2>3. CASE k # K
        <3>1. MmapInBucket(k)' = MmapInBucket(k) \ M
            <4>1. \A x : x \in MmapInBucket(k)' <=> x \in MmapInBucket(k) \ M
                BY <2>3, BucketSets DEF MmapsMove
            <4>. QED
                BY <4>1
        <3>2. /\ Cardinality(MmapInBucket(k)') \in Nat
              /\ Cardinality(MmapInBucket(k)) \in Nat /\ Cardinality(MmapInBucket(k) \cap M) \in Nat
              /\ Cardinality(MmapInBucket(k)') = Cardinality(MmapInBucket(k)) - Cardinality(MmapInBucket(k) \cap M)
            BY <2>1, <3>1, CountDrop
        <3>. QED
            BY <2>3, <3>2 DEF MmapOK, MmapsMove
    <2>. QED
        BY <2>2, <2>3
<1>. QED
    BY <1>1 DEF MmapOK, MmapsMove

\* The mappings of M leave the cache.
LEMMA MmapDrop ==
    ASSUME MmapOK, NEW M, M \subseteq Bos, num_mmap' = MmapLess(M \cap MmapCached),
           \A x \in Bos : \A k \in BucketSizes :
                MapWaits(bo'[x], k) <=> MapWaits(bo[x], k) /\ x \notin M
    PROVE  MmapOK'
<1>1. ASSUME NEW k \in BucketSizes
      PROVE  /\ Cardinality(MmapInBucket(k)') \in Nat
             /\ num_mmap'[k] = Cardinality(MmapInBucket(k)')
    <2>1. IsFiniteSet(MmapInBucket(k)) /\ MmapInBucket(k)' = MmapInBucket(k) \ M
        BY BucketSets
    <2>2. /\ Cardinality(MmapInBucket(k)') \in Nat
          /\ Cardinality(MmapInBucket(k)')
             = Cardinality(MmapInBucket(k)) - Cardinality(MmapInBucket(k) \cap M)
        BY <2>1, CountDrop
    <2>3. num_mmap'[k] = num_mmap[k] - Cardinality(MmapInBucket(k) \cap M)
        BY MmapLessFact
    <2>. QED
        BY <2>2, <2>3 DEF MmapOK
<1>2. DOMAIN num_mmap' = BucketSizes /\ num_mmap' = [k \in BucketSizes |-> num_mmap'[k]]
    BY DEF MmapLess
<1>. QED
    BY <1>1, <1>2 DEF MmapOK

-----------------------------------------------------------------------------
(* Steps that change one struct.                                           *)

LEMMA OneBo ==
    ASSUME BosOK, NEW b \in Bos, NEW r, RecOK(r), bo' = [bo EXCEPT ![b] = r]
    PROVE  BosOK' /\ bo'[b] = r /\ \A x \in Bos : x # b => bo'[x] = bo[x]
<1>1. DOMAIN bo = Bos
    BY DEF BosOK
<1>2. bo'[b] = r /\ \A x \in Bos : x # b => bo'[x] = bo[x]
    BY <1>1
<1>3. bo' = [x \in Bos |-> bo'[x]]
    BY <1>1
<1>4. \A x \in Bos : RecOK(bo'[x])
    BY <1>2 DEF BosOK
<1>. QED
    BY <1>2, <1>3, <1>4 DEF BosOK

\* A step that leaves lists, tables and counts as they are.
LEMMA QuietStep ==
    ASSUME IInv, NEW b \in Bos, NEW r, RecOK(r), bo' = [bo EXCEPT ![b] = r],
           r.live = bo[b].live, r.handle = bo[b].handle, r.name = bo[b].name,
           r.bo_list = bo[b].bo_list, r.size = bo[b].size,
           r.map_cached = bo[b].map_cached,
           UNCHANGED <<tables, buckets, mmaps, crashed>>
    PROVE  IInv'
<1>1. BosOK' /\ bo'[b] = r /\ \A x \in Bos : x # b => bo'[x] = bo[x]
    BY OneBo DEF IInv
<1>2. TablesOK'
    BY <1>1, SameTables DEF IInv, Alike
<1>3. EntriesOK'
    <2>1. \A k : InBucket(k)' = InBucket(k)
        BY <1>1, SameCounts
    <2>. QED
        BY <2>1 DEF EntriesOK, IInv, buckets
<1>4. MmapOK'
    <2>1. \A k : MmapInBucket(k)' = MmapInBucket(k)
        BY <1>1, SameMmaps
    <2>. QED
        BY <2>1 DEF MmapOK, IInv, mmaps
<1>5. FlagsOK'
    BY DEF FlagsOK, IInv, buckets, mmaps
<1>. QED
    BY <1>1, <1>2, <1>3, <1>4, <1>5 DEF IInv

\* When the process dies nothing else changes.
LEMMA CrashStep ==
    ASSUME IInv, NEW why \in {"list", "bucket"}, Crash(why)
    PROVE  IInv'
<1>1. /\ bo' = bo /\ crashed' \in {"list", "bucket"}
      /\ UNCHANGED tables /\ UNCHANGED buckets /\ UNCHANGED mmaps
    BY DEF Crash
<1>2. BosOK'
    BY <1>1 DEF BosOK, IInv
<1>3. TablesOK'
    BY <1>1, SameTables DEF IInv, Alike
<1>4. EntriesOK'
    <2>1. \A k : InBucket(k)' = InBucket(k)
        BY <1>1, SameCounts
    <2>. QED
        BY <1>1, <2>1 DEF EntriesOK, IInv, buckets
<1>5. MmapOK'
    <2>1. \A k : MmapInBucket(k)' = MmapInBucket(k)
        BY <1>1, SameMmaps
    <2>. QED
        BY <1>1, <2>1 DEF MmapOK, IInv, mmaps
<1>6. FlagsOK'
    BY <1>1 DEF FlagsOK, IInv, buckets, mmaps
<1>. QED
    BY <1>2, <1>3, <1>4, <1>5, <1>6 DEF IInv

-----------------------------------------------------------------------------
(* What the calls write into one struct.                                   *)

LEMMA BoFields ==
    ASSUME NEW r \in Bo
    PROVE  /\ r.live \in BOOLEAN /\ r.handle \in Handles \cup {None}
           /\ r.name \in Names \cup {None} /\ r.size \in Nat
           /\ r.reuse \in BOOLEAN /\ r.bo_list \in {"self", "bucket", "null"}
           /\ r.ref \in Nat /\ r.mmap_ref \in Nat
           /\ r.map \in BOOLEAN /\ r.map_cached \in BOOLEAN
           /\ r.free_age \in Age /\ r.unmap_age \in Age
           /\ r.holds \in Nat /\ r.maps \in Nat
BY DEF Bo

LEMMA NoBoOK == RecOK(NoBo) /\ NoBo.map_cached = FALSE
BY BoCacheAssumption DEF RecOK, NoBo, Bo, Age

\* A struct with a holder, a mapping or a place in a cache is alive.
LEMMA AliveRec ==
    ASSUME NEW r, RecOK(r)
    PROVE  /\ r.holds > 0 \/ r.map_cached \/ r.bo_list = "bucket" => r.live
           /\ r.live => r.handle \in Handles
BY DEF RecOK, NoBo

\* What the tables and the lists know of a struct.
Placed(s, r) ==
    /\ s.live = r.live /\ s.handle = r.handle /\ s.name = r.name
    /\ s.bo_list = r.bo_list /\ s.size = r.size /\ s.map_cached = r.map_cached

\* drm_tegra_bo_ref() and a lookup.
LEMMA RefRec ==
    ASSUME NEW r, RecOK(r), r.live, r.bo_list # "bucket",
           NEW x \in Nat, x = r.ref + 1, NEW y \in Nat, y = r.holds + 1, r.ref >= r.holds,
           NEW s, s = [r EXCEPT !.ref = x, !.holds = y]
    PROVE  RecOK(s) /\ Placed(s, r)
<1>1. /\ r \in Bo /\ r.live /\ r.handle \in Handles
      /\ r.holds \in Nat /\ r.ref \in Nat /\ r.maps \in Nat /\ r.mmap_ref \in Nat
      /\ 0 \in Age
    BY AliveRec, BoFields, BoCacheAssumption DEF RecOK, Age
<1>3. s \in Bo
    BY <1>1 DEF Bo
<1>4. /\ Placed(s, r)
      /\ s.ref = x /\ s.holds = y /\ s.maps = r.maps /\ s.mmap_ref = r.mmap_ref
      /\ s.map = r.map /\ s.reuse = r.reuse
    BY <1>1 DEF Bo, Placed
<1>5. /\ s.holds > 0 => s.bo_list # "bucket" /\ s.ref >= s.holds
      /\ s.bo_list = "bucket" => /\ s.reuse /\ s.ref = 0 /\ s.holds = 0
                                /\ GetBucket(s.size) # None
      /\ s.reuse => s.bo_list # "null"
      /\ s.maps > 0 => s.map /\ s.holds > 0
      /\ s.maps <= s.mmap_ref
      /\ ~ (s.map /\ s.map_cached)
    BY <1>1, <1>4 DEF RecOK, Placed
<1>6. s.live /\ s.handle \in Handles
    BY <1>1, <1>4 DEF Placed
<1>. QED
    BY <1>3, <1>4, <1>5, <1>6 DEF RecOK

\* A reference of several goes.
LEMMA UnrefOneRec ==
    ASSUME NEW r, RecOK(r), r.holds > 0, r.ref > 1,
           NEW x \in Nat, x = r.ref - 1, NEW y \in Nat, y = r.holds - 1,
           NEW z \in Nat, z <= r.maps, z > 0 => y > 0,
           NEW s, s = [r EXCEPT !.ref = x, !.holds = y, !.maps = z]
    PROVE  RecOK(s) /\ Placed(s, r)
<1>1. /\ r \in Bo /\ r.live /\ r.handle \in Handles
      /\ r.holds \in Nat /\ r.ref \in Nat /\ r.maps \in Nat /\ r.mmap_ref \in Nat
      /\ 0 \in Age
    BY AliveRec, BoFields, BoCacheAssumption DEF RecOK, Age
<1>3. s \in Bo
    BY <1>1 DEF Bo
<1>4. /\ Placed(s, r)
      /\ s.ref = x /\ s.holds = y /\ s.maps = z /\ s.mmap_ref = r.mmap_ref
      /\ s.map = r.map /\ s.reuse = r.reuse
    BY <1>1 DEF Bo, Placed
<1>5. /\ s.holds > 0 => s.bo_list # "bucket" /\ s.ref >= s.holds
      /\ s.bo_list = "bucket" => /\ s.reuse /\ s.ref = 0 /\ s.holds = 0
                                /\ GetBucket(s.size) # None
      /\ s.reuse => s.bo_list # "null"
      /\ s.maps > 0 => s.map /\ s.holds > 0
      /\ s.maps <= s.mmap_ref
      /\ ~ (s.map /\ s.map_cached)
    BY <1>1, <1>4 DEF RecOK, Placed
<1>6. s.live /\ s.handle \in Handles
    BY <1>1, <1>4 DEF Placed
<1>. QED
    BY <1>3, <1>4, <1>5, <1>6 DEF RecOK

\* drm_tegra_bo_forbid_caching().
LEMMA ReuseRec ==
    ASSUME NEW r, RecOK(r), r.holds > 0,
           NEW s, s = [r EXCEPT !.reuse = FALSE]
    PROVE  RecOK(s) /\ Placed(s, r)
<1>1. /\ r \in Bo /\ r.live /\ r.handle \in Handles
      /\ r.holds \in Nat /\ r.ref \in Nat /\ r.maps \in Nat /\ r.mmap_ref \in Nat
      /\ 0 \in Age
    BY AliveRec, BoFields, BoCacheAssumption DEF RecOK, Age
<1>3. s \in Bo
    BY <1>1 DEF Bo
<1>4. /\ Placed(s, r)
      /\ s.ref = r.ref /\ s.holds = r.holds /\ s.maps = r.maps
      /\ s.mmap_ref = r.mmap_ref /\ s.map = r.map /\ ~ s.reuse
    BY <1>1 DEF Bo, Placed
<1>5. /\ s.holds > 0 => s.bo_list # "bucket" /\ s.ref >= s.holds
      /\ s.bo_list = "bucket" => /\ s.reuse /\ s.ref = 0 /\ s.holds = 0
                                /\ GetBucket(s.size) # None
      /\ s.reuse => s.bo_list # "null"
      /\ s.maps > 0 => s.map /\ s.holds > 0
      /\ s.maps <= s.mmap_ref
      /\ ~ (s.map /\ s.map_cached)
    BY <1>1, <1>4 DEF RecOK, Placed
<1>6. s.live /\ s.handle \in Handles
    BY <1>1, <1>4 DEF Placed
<1>. QED
    BY <1>3, <1>4, <1>5, <1>6 DEF RecOK

\* Another mapping of a BO.
LEMMA MapRec ==
    ASSUME NEW r, RecOK(r), r.holds > 0,
           NEW x \in Nat, NEW z \in Nat, z <= x, z > 0 => r.map,
           NEW s, s = [r EXCEPT !.mmap_ref = x, !.maps = z]
    PROVE  RecOK(s) /\ Placed(s, r)
<1>1. /\ r \in Bo /\ r.live /\ r.handle \in Handles
      /\ r.holds \in Nat /\ r.ref \in Nat /\ r.maps \in Nat /\ r.mmap_ref \in Nat
      /\ 0 \in Age
    BY AliveRec, BoFields, BoCacheAssumption DEF RecOK, Age
<1>3. s \in Bo
    BY <1>1 DEF Bo
<1>4. /\ Placed(s, r)
      /\ s.ref = r.ref /\ s.holds = r.holds /\ s.maps = z
      /\ s.mmap_ref = x /\ s.map = r.map /\ s.reuse = r.reuse
    BY <1>1 DEF Bo, Placed
<1>5. /\ s.holds > 0 => s.bo_list # "bucket" /\ s.ref >= s.holds
      /\ s.bo_list = "bucket" => /\ s.reuse /\ s.ref = 0 /\ s.holds = 0
                                /\ GetBucket(s.size) # None
      /\ s.reuse => s.bo_list # "null"
      /\ s.maps > 0 => s.map /\ s.holds > 0
      /\ s.maps <= s.mmap_ref
      /\ ~ (s.map /\ s.map_cached)
    BY <1>1, <1>4 DEF RecOK, Placed
<1>6. s.live /\ s.handle \in Handles
    BY <1>1, <1>4 DEF Placed
<1>. QED
    BY <1>3, <1>4, <1>5, <1>6 DEF RecOK

\* A mapping that failed.
LEMMA MapFailedRec ==
    ASSUME NEW r, RecOK(r), r.holds > 0,
           NEW x \in Nat, r.maps <= x,
           NEW s, s = [r EXCEPT !.mmap_ref = x]
    PROVE  RecOK(s) /\ Placed(s, r)
<1>1. /\ r \in Bo /\ r.live /\ r.handle \in Handles
      /\ r.holds \in Nat /\ r.ref \in Nat /\ r.maps \in Nat /\ r.mmap_ref \in Nat
      /\ 0 \in Age
    BY AliveRec, BoFields, BoCacheAssumption DEF RecOK, Age
<1>3. s \in Bo
    BY <1>1 DEF Bo
<1>4. /\ Placed(s, r)
      /\ s.ref = r.ref /\ s.holds = r.holds /\ s.maps = r.maps
      /\ s.mmap_ref = x /\ s.map = r.map /\ s.reuse = r.reuse
    BY <1>1 DEF Bo, Placed
<1>5. /\ s.holds > 0 => s.bo_list # "bucket" /\ s.ref >= s.holds
      /\ s.bo_list = "bucket" => /\ s.reuse /\ s.ref = 0 /\ s.holds = 0
                                /\ GetBucket(s.size) # None
      /\ s.reuse => s.bo_list # "null"
      /\ s.maps > 0 => s.map /\ s.holds > 0
      /\ s.maps <= s.mmap_ref
      /\ ~ (s.map /\ s.map_cached)
    BY <1>1, <1>4 DEF RecOK, Placed
<1>6. s.live /\ s.handle \in Handles
    BY <1>1, <1>4 DEF Placed
<1>. QED
    BY <1>3, <1>4, <1>5, <1>6 DEF RecOK

\* The first mapping of a BO.
FirstMapped(r, x, z) ==
    [r EXCEPT !.mmap_ref = x, !.maps = z, !.map = TRUE,
              !.map_cached = FALSE, !.unmap_age = 0]

LEMMA MapFirstRec ==
    ASSUME NEW r, RecOK(r), r.holds > 0,
           NEW x \in Nat, NEW z \in Nat, z <= x,
           NEW s, s = FirstMapped(r, x, z)
    PROVE  RecOK(s) /\ Alike(s, r) /\ s.bo_list = r.bo_list /\ s.size = r.size /\ ~ s.map_cached
<1>1. /\ r \in Bo /\ r.live /\ r.handle \in Handles
      /\ r.holds \in Nat /\ r.ref \in Nat /\ r.maps \in Nat /\ r.mmap_ref \in Nat
      /\ 0 \in Age
    BY AliveRec, BoFields, BoCacheAssumption DEF RecOK, Age
<1>3. s \in Bo
    BY <1>1 DEF Bo, FirstMapped
<1>4. /\ s.live = r.live /\ s.handle = r.handle /\ s.name = r.name /\ s.size = r.size
      /\ s.bo_list = r.bo_list /\ s.map_cached = FALSE
      /\ s.ref = r.ref /\ s.holds = r.holds /\ s.maps = z
      /\ s.mmap_ref = x /\ s.map = TRUE /\ s.reuse = r.reuse
    BY <1>1 DEF Bo, FirstMapped, Placed
<1>5. /\ s.holds > 0 => s.bo_list # "bucket" /\ s.ref >= s.holds
      /\ s.bo_list = "bucket" => /\ s.reuse /\ s.ref = 0 /\ s.holds = 0
                                /\ GetBucket(s.size) # None
      /\ s.reuse => s.bo_list # "null"
      /\ s.maps > 0 => s.map /\ s.holds > 0
      /\ s.maps <= s.mmap_ref
      /\ ~ (s.map /\ s.map_cached)
    BY <1>1, <1>4 DEF RecOK, Placed
<1>6. s.live /\ s.handle \in Handles
    BY <1>1, <1>4 DEF Placed
<1>. QED
    BY <1>3, <1>4, <1>5, <1>6 DEF RecOK, Alike

\* A mapping leaves the cache.
LEMMA DropRec ==
    ASSUME NEW r, RecOK(r), r.map_cached = TRUE,
           NEW s, s = [r EXCEPT !.map_cached = FALSE, !.unmap_age = 0]
    PROVE  RecOK(s) /\ Alike(s, r) /\ s.bo_list = r.bo_list /\ s.size = r.size /\ s.map_cached = FALSE
<1>1. /\ r \in Bo /\ r.live /\ r.handle \in Handles
      /\ r.holds \in Nat /\ r.ref \in Nat /\ r.maps \in Nat /\ r.mmap_ref \in Nat
      /\ 0 \in Age
    BY AliveRec, BoFields, BoCacheAssumption DEF RecOK, Age
<1>3. s \in Bo
    BY <1>1 DEF Bo
<1>4. /\ s.live = r.live /\ s.handle = r.handle /\ s.name = r.name /\ s.size = r.size
      /\ s.bo_list = r.bo_list /\ s.map_cached = FALSE
      /\ s.ref = r.ref /\ s.holds = r.holds /\ s.maps = r.maps
      /\ s.mmap_ref = r.mmap_ref /\ s.map = r.map /\ s.reuse = r.reuse
    BY <1>1 DEF Bo, Placed
<1>5. /\ s.holds > 0 => s.bo_list # "bucket" /\ s.ref >= s.holds
      /\ s.bo_list = "bucket" => /\ s.reuse /\ s.ref = 0 /\ s.holds = 0
                                /\ GetBucket(s.size) # None
      /\ s.reuse => s.bo_list # "null"
      /\ s.maps > 0 => s.map /\ s.holds > 0
      /\ s.maps <= s.mmap_ref
      /\ ~ (s.map /\ s.map_cached)
    BY <1>1, <1>4 DEF RecOK, Placed
<1>6. s.live /\ s.handle \in Handles
    BY <1>1, <1>4 DEF Placed
<1>. QED
    BY <1>3, <1>4, <1>5, <1>6 DEF RecOK, Alike

\* A mapping enters the cache.
LEMMA StashRec ==
    ASSUME NEW r, RecOK(r), r.live, r.maps = 0,
           NEW s, s = [r EXCEPT !.map = FALSE, !.map_cached = TRUE, !.unmap_age = 0]
    PROVE  RecOK(s) /\ Alike(s, r) /\ s.bo_list = r.bo_list /\ s.size = r.size /\ s.map_cached = TRUE
<1>1. /\ r \in Bo /\ r.live /\ r.handle \in Handles
      /\ r.holds \in Nat /\ r.ref \in Nat /\ r.maps \in Nat /\ r.mmap_ref \in Nat
      /\ 0 \in Age
    BY AliveRec, BoFields, BoCacheAssumption DEF RecOK, Age
<1>3. s \in Bo
    BY <1>1 DEF Bo
<1>4. /\ s.live = r.live /\ s.handle = r.handle /\ s.name = r.name /\ s.size = r.size
      /\ s.bo_list = r.bo_list /\ s.map_cached = TRUE
      /\ s.ref = r.ref /\ s.holds = r.holds /\ s.maps = r.maps
      /\ s.mmap_ref = r.mmap_ref /\ s.map = FALSE /\ s.reuse = r.reuse
    BY <1>1 DEF Bo, Placed
<1>5. /\ s.holds > 0 => s.bo_list # "bucket" /\ s.ref >= s.holds
      /\ s.bo_list = "bucket" => /\ s.reuse /\ s.ref = 0 /\ s.holds = 0
                                /\ GetBucket(s.size) # None
      /\ s.reuse => s.bo_list # "null"
      /\ s.maps > 0 => s.map /\ s.holds > 0
      /\ s.maps <= s.mmap_ref
      /\ ~ (s.map /\ s.map_cached)
    BY <1>1, <1>4 DEF RecOK, Placed
<1>6. s.live /\ s.handle \in Handles
    BY <1>1, <1>4 DEF Placed
<1>. QED
    BY <1>3, <1>4, <1>5, <1>6 DEF RecOK, Alike

\* The last reference goes and a bucket takes the BO.
Shelved(r, y) ==
    [r EXCEPT !.ref = 0, !.holds = y, !.maps = 0, !.bo_list = "bucket",
              !.free_age = 0]

LEMMA CacheRec ==
    ASSUME NEW r, RecOK(r), r.holds > 0, r.ref = 1, r.reuse, GetBucket(r.size) # None,
           NEW y \in Nat, y = r.holds - 1,
           NEW s, s = Shelved(r, y)
    PROVE  RecOK(s) /\ s.live = r.live /\ s.handle = r.handle /\ s.name = r.name
           /\ s.bo_list = "bucket" /\ s.size = r.size /\ s.map_cached = r.map_cached
<1>1. /\ r \in Bo /\ r.live /\ r.handle \in Handles
      /\ r.holds \in Nat /\ r.ref \in Nat /\ r.maps \in Nat /\ r.mmap_ref \in Nat
      /\ 0 \in Age
    BY AliveRec, BoFields, BoCacheAssumption DEF RecOK, Age
<1>2. y = 0
    BY <1>1 DEF RecOK
<1>3. s \in Bo
    BY <1>1 DEF Bo, Shelved
<1>4. /\ s.live = r.live /\ s.handle = r.handle /\ s.name = r.name /\ s.size = r.size
      /\ s.bo_list = "bucket" /\ s.map_cached = r.map_cached
      /\ s.ref = 0 /\ s.holds = y /\ s.maps = 0
      /\ s.mmap_ref = r.mmap_ref /\ s.map = r.map /\ s.reuse = r.reuse
    BY <1>1 DEF Bo, Shelved
<1>5. s.live /\ s.reuse /\ s.handle \in Handles
    BY Zenon, <1>1, <1>4
<1>6. GetBucket(s.size) # None
    BY Zenon, <1>4
<1>7. ~ (s.map /\ s.map_cached)
    <2>1. ~ (r.map /\ r.map_cached)
        BY Zenon DEF RecOK
    <2>. QED
        BY Zenon, <1>4, <2>1
<1>8. s.holds = 0
    BY Zenon, <1>2, <1>4
<1>9. s.maps <= s.mmap_ref
    <2>1. s.maps = 0 /\ s.mmap_ref \in Nat
        BY Zenon, <1>1, <1>4
    <2>. QED
        BY <2>1
<1>10. ~ (s.holds > 0) /\ ~ (s.maps > 0)
    <2>1. s.holds = 0 /\ s.maps = 0
        BY Zenon, <1>4, <1>8
    <2>. QED
        BY <2>1
<1>11. s.bo_list = "bucket" /\ s.ref = 0
    BY Zenon, <1>4
<1>12. s.bo_list # "null"
    BY <1>11
<1>13. RecOK(s)
    BY Zenon, <1>3, <1>5, <1>6, <1>7, <1>8, <1>9, <1>10, <1>11, <1>12 DEF RecOK
<1>. QED
    BY Zenon, <1>4, <1>13

\* drm_tegra_bo_get_name().
LEMMA NameRec ==
    ASSUME NEW r, RecOK(r), r.holds > 0, NEW n \in Names,
           NEW s, s = [r EXCEPT !.name = n]
    PROVE  RecOK(s) /\ s.live = r.live /\ s.handle = r.handle /\ s.name = n
           /\ s.bo_list = r.bo_list /\ s.size = r.size /\ s.map_cached = r.map_cached
<1>1. /\ r \in Bo /\ r.live /\ r.handle \in Handles
      /\ r.holds \in Nat /\ r.ref \in Nat /\ r.maps \in Nat /\ r.mmap_ref \in Nat
      /\ 0 \in Age
    BY AliveRec, BoFields, BoCacheAssumption DEF RecOK, Age
<1>3. s \in Bo
    BY <1>1 DEF Bo
<1>4. /\ s.live = r.live /\ s.handle = r.handle /\ s.name = n /\ s.size = r.size
      /\ s.bo_list = r.bo_list /\ s.map_cached = r.map_cached
      /\ s.ref = r.ref /\ s.holds = r.holds /\ s.maps = r.maps
      /\ s.mmap_ref = r.mmap_ref /\ s.map = r.map /\ s.reuse = r.reuse
    BY <1>1 DEF Bo, Placed
<1>5. /\ s.holds > 0 => s.bo_list # "bucket" /\ s.ref >= s.holds
      /\ s.bo_list = "bucket" => /\ s.reuse /\ s.ref = 0 /\ s.holds = 0
                                /\ GetBucket(s.size) # None
      /\ s.reuse => s.bo_list # "null"
      /\ s.maps > 0 => s.map /\ s.holds > 0
      /\ s.maps <= s.mmap_ref
      /\ ~ (s.map /\ s.map_cached)
    BY <1>1, <1>4 DEF RecOK, Placed
<1>6. s.live /\ s.handle \in Handles
    BY <1>1, <1>4 DEF Placed
<1>. QED
    BY <1>3, <1>4, <1>5, <1>6 DEF RecOK

\* A BO leaves its bucket for a new owner.
Granted(r, x) == [r EXCEPT !.ref = x, !.holds = 1]
Unlinked(q) == [q EXCEPT !.bo_list = "self", !.free_age = 0, !.maps = 0]
Taken(r, x) == [Unlinked(Granted(r, x)) EXCEPT !.mmap_ref = 0]

LEMMA GrantedRec ==
    ASSUME NEW r \in Bo, NEW x \in Nat
    PROVE  LET q == Granted(r, x) IN
           /\ q \in Bo
           /\ q.live = r.live /\ q.handle = r.handle /\ q.name = r.name /\ q.size = r.size
           /\ q.map_cached = r.map_cached /\ q.map = r.map /\ q.reuse = r.reuse
           /\ q.ref = x /\ q.holds = 1
BY DEF Bo, Granted

LEMMA UnlinkedRec ==
    ASSUME NEW q \in Bo
    PROVE  LET t == Unlinked(q) IN
           /\ t \in Bo
           /\ t.live = q.live /\ t.handle = q.handle /\ t.name = q.name /\ t.size = q.size
           /\ t.map_cached = q.map_cached /\ t.map = q.map /\ t.reuse = q.reuse
           /\ t.ref = q.ref /\ t.holds = q.holds /\ t.bo_list = "self" /\ t.maps = 0
<1>1. 0 \in Age
    BY BoCacheAssumption DEF Age
<1>. QED
    BY <1>1 DEF Bo, Unlinked

LEMMA UnmappedRec ==
    ASSUME NEW t \in Bo, NEW s, s = [t EXCEPT !.mmap_ref = 0]
    PROVE  /\ s \in Bo
           /\ s.live = t.live /\ s.handle = t.handle /\ s.name = t.name /\ s.size = t.size
           /\ s.map_cached = t.map_cached /\ s.map = t.map /\ s.reuse = t.reuse
           /\ s.ref = t.ref /\ s.holds = t.holds /\ s.bo_list = t.bo_list
           /\ s.maps = t.maps /\ s.mmap_ref = 0
BY DEF Bo

LEMMA TakeOutRec ==
    ASSUME NEW r, RecOK(r), r.bo_list = "bucket", NEW x \in {1, 2},
           NEW s, s = Taken(r, x)
    PROVE  /\ RecOK(s) /\ Alike(s, r)
           /\ s.live /\ s.maps = 0 /\ s.size = r.size /\ s.bo_list = "self"
           /\ s.map_cached = r.map_cached /\ s.map = r.map
           /\ s.ref = x /\ s.holds = 1 /\ s.mmap_ref = 0
<1>1. /\ r \in Bo /\ r.live /\ r.handle \in Handles
      /\ 0 \in Age /\ x \in Nat
    BY AliveRec, BoFields, BoCacheAssumption DEF RecOK, Age
<1>. DEFINE q == Granted(r, x)
            t == Unlinked(q)
<1>2. /\ q \in Bo
      /\ q.live = r.live /\ q.handle = r.handle /\ q.name = r.name /\ q.size = r.size
      /\ q.map_cached = r.map_cached /\ q.map = r.map /\ q.reuse = r.reuse
      /\ q.ref = x /\ q.holds = 1
    BY <1>1, GrantedRec
<1>3. s = [t EXCEPT !.mmap_ref = 0]
    BY DEF Taken
<1>4. HIDE DEF q
<1>5. /\ t \in Bo
      /\ t.live = q.live /\ t.handle = q.handle /\ t.name = q.name /\ t.size = q.size
      /\ t.map_cached = q.map_cached /\ t.map = q.map /\ t.reuse = q.reuse
      /\ t.ref = q.ref /\ t.holds = q.holds /\ t.bo_list = "self" /\ t.maps = 0
    BY <1>2, UnlinkedRec
<1>6. HIDE DEF t
<1>7. /\ s \in Bo
      /\ s.live = t.live /\ s.handle = t.handle /\ s.name = t.name /\ s.size = t.size
      /\ s.map_cached = t.map_cached /\ s.map = t.map /\ s.reuse = t.reuse
      /\ s.ref = t.ref /\ s.holds = t.holds /\ s.bo_list = t.bo_list
      /\ s.maps = t.maps /\ s.mmap_ref = 0
    BY <1>3, <1>5, UnmappedRec
<1>8. /\ s.live = r.live /\ s.handle = r.handle /\ s.name = r.name /\ s.size = r.size
      /\ s.map_cached = r.map_cached /\ s.map = r.map /\ s.reuse = r.reuse
      /\ s.ref = x /\ s.holds = 1 /\ s.bo_list = "self" /\ s.maps = 0
      /\ s.mmap_ref = 0
    BY <1>2, <1>5, <1>7
<1>9. /\ s.bo_list # "bucket" /\ s.ref >= s.holds /\ s.maps <= s.mmap_ref
      /\ ~ (s.maps > 0) /\ ~ (s.map /\ s.map_cached)
    BY <1>1, <1>8 DEF RecOK
<1>. QED
    BY <1>1, <1>7, <1>8, <1>9 DEF RecOK, Alike

\* A new struct.
LEMMA NewRec ==
    ASSUME NEW h \in Handles, NEW size \in Nat, NEW list \in {"self", "null"},
           NEW reuse \in BOOLEAN, reuse => list # "null", NEW n \in Names \cup {None}
    PROVE  /\ RecOK(NewBo(h, n, size, list, reuse))
           /\ NewBo(h, n, size, list, reuse).live
           /\ NewBo(h, n, size, list, reuse).handle = h
           /\ NewBo(h, n, size, list, reuse).name = n
           /\ NewBo(h, n, size, list, reuse).bo_list = list
           /\ ~ NewBo(h, n, size, list, reuse).map_cached
<1>1. 0 \in Age
    BY BoCacheAssumption DEF Age
<1>2. NewBo(h, n, size, list, reuse) \in Bo
    BY <1>1 DEF NewBo, Bo
<1>. QED
    BY <1>2 DEF RecOK, NewBo

\* A struct grows older.
LEMMA AgeRec ==
    ASSUME NEW r, RecOK(r), NEW f \in Age, NEW u \in Age,
           ~ r.live => f = r.free_age /\ u = r.unmap_age,
           NEW s, s = [r EXCEPT !.free_age = f, !.unmap_age = u]
    PROVE  RecOK(s) /\ Placed(s, r)
<1>1. r \in Bo
    BY DEF RecOK
<1>2. s \in Bo
    BY <1>1 DEF Bo
<1>3. /\ Placed(s, r)
      /\ s.ref = r.ref /\ s.holds = r.holds /\ s.maps = r.maps
      /\ s.mmap_ref = r.mmap_ref /\ s.map = r.map /\ s.reuse = r.reuse
    BY <1>1 DEF Bo, Placed
<1>4. CASE r.live
    BY <1>2, <1>3, <1>4 DEF RecOK, Placed
<1>5. CASE ~ r.live
    <2>1. s = r
        BY <1>1, <1>5 DEF Bo
    <2>. QED
        BY <1>3, <2>1
<1>. QED
    BY <1>4, <1>5

-----------------------------------------------------------------------------
(* Mappings enter their cache, BOs leave their buckets.                    *)

LEMMA MmapCleanupFact == \A M \in MmapCleanup : M \subseteq MmapCached
BY DEF MmapCleanup

\* drm_tegra_bo_cache_unmap().
LEMMA StashStep ==
    ASSUME BosOK, MmapOK, NEW b \in Bos, bo[b].map = TRUE,
           NEW r, RecOK(r), r.live, r.maps = 0, r.size = bo[b].size,
           ToMmapCache(b, r)
    PROVE  /\ BosOK' /\ MmapOK' /\ mmap_cleaned' = TRUE
           /\ \A x \in Bos : x # b => /\ Alike(bo'[x], bo[x])
                                      /\ bo'[x].bo_list = bo[x].bo_list
                                      /\ bo'[x].size = bo[x].size
           /\ /\ Alike(bo'[b], r)
              /\ bo'[b].bo_list = r.bo_list
              /\ bo'[b].size = r.size
<1>1. PICK M \in MmapCleanup :
         /\ bo' = [x \in Bos |->
               IF x = b THEN [r EXCEPT !.map = FALSE, !.map_cached = TRUE, !.unmap_age = 0]
               ELSE IF x \in M THEN [bo[x] EXCEPT !.map_cached = FALSE, !.unmap_age = 0]
               ELSE bo[x]]
         /\ num_mmap' = [k \in BucketSizes |->
               MmapLess(M)[k] + IF GetBucket(r.size) = k THEN 1 ELSE 0]
         /\ mmap_cleaned' = TRUE
    BY DEF ToMmapCache
<1>2. M \subseteq MmapCached /\ M \subseteq Bos
    BY MmapCleanupFact DEF MmapCached
<1>3. \A x \in Bos : RecOK(bo[x])
    BY DEF BosOK
<1>4. b \notin MmapCached
    BY <1>3 DEF MmapCached, RecOK
<1>5. bo'[b] = [r EXCEPT !.map = FALSE, !.map_cached = TRUE, !.unmap_age = 0]
    BY <1>1
<1>6. /\ RecOK(bo'[b]) /\ Alike(bo'[b], r) /\ bo'[b].bo_list = r.bo_list
      /\ bo'[b].size = r.size /\ bo'[b].map_cached = TRUE
    BY <1>5, StashRec
<1>7. ASSUME NEW x \in Bos, x \in M
      PROVE  /\ RecOK(bo'[x]) /\ Alike(bo'[x], bo[x]) /\ bo'[x].bo_list = bo[x].bo_list
             /\ bo'[x].size = bo[x].size /\ bo'[x].map_cached = FALSE
    <2>1. bo'[x] = [bo[x] EXCEPT !.map_cached = FALSE, !.unmap_age = 0]
        BY <1>1, <1>2, <1>4, <1>7
    <2>2. bo[x].map_cached = TRUE
        BY <1>2, <1>3, <1>7, BoFields DEF MmapCached, RecOK
    <2>3. PICK r0 : r0 = bo[x]
        OBVIOUS
    <2>4. PICK s0 : s0 = bo'[x]
        OBVIOUS
    <2>5. /\ RecOK(r0) /\ r0.map_cached = TRUE
          /\ s0 = [r0 EXCEPT !.map_cached = FALSE, !.unmap_age = 0]
        BY <1>3, <2>1, <2>2, <2>3, <2>4
    <2>6. /\ RecOK(s0) /\ Alike(s0, r0) /\ s0.bo_list = r0.bo_list
          /\ s0.size = r0.size /\ s0.map_cached = FALSE
        BY <2>5, DropRec
    <2>. QED
        BY <2>3, <2>4, <2>6
<1>8. ASSUME NEW x \in Bos, x # b, x \notin M
      PROVE  bo'[x] = bo[x] /\ RecOK(bo'[x])
    <2>1. bo'[x] = bo[x]
        BY <1>1, <1>8
    <2>. QED
        BY <1>3, <2>1
<1>9. BosOK'
    <2>1. bo' = [x \in Bos |-> bo'[x]]
        BY <1>1
    <2>2. \A x \in Bos : RecOK(bo'[x])
        BY <1>6, <1>7, <1>8
    <2>. QED
        BY <2>1, <2>2 DEF BosOK
<1>10. \A x \in Bos : x # b => /\ Alike(bo'[x], bo[x])
                               /\ bo'[x].bo_list = bo[x].bo_list
                               /\ bo'[x].size = bo[x].size
    BY <1>7, <1>8 DEF Alike
<1>11. MmapOK'
    <2>1. num_mmap' = [k \in BucketSizes |->
                num_mmap[k] - Cardinality(MmapInBucket(k) \cap M)
                + IF k = GetBucket(r.size) THEN 1 ELSE 0]
        <3>1. M \cap MmapCached = M
            BY <1>2
        <3>2. ASSUME NEW k \in BucketSizes
              PROVE  MmapLess(M)[k] = num_mmap[k] - Cardinality(MmapInBucket(k) \cap M)
            BY <1>2, <3>1, MmapLessFact
        <3>. QED
            BY <1>1, <3>2
    <2>2. ASSUME NEW x \in Bos, NEW k \in BucketSizes
          PROVE  MapWaits(bo'[x], k) <=> \/ MapWaits(bo[x], k) /\ x \notin M
                                         \/ x = b /\ k = GetBucket(r.size)
        <3>1. CASE x = b
            BY <1>4, <1>6, <3>1 DEF MapWaits, MmapCached
        <3>2. CASE x # b /\ x \in M
            BY <1>7, <3>2 DEF MapWaits
        <3>3. CASE x # b /\ x \notin M
            BY <1>8, <3>3
        <3>. QED
            BY <3>1, <3>2, <3>3
    <2>3. b \notin MmapCached \ M
        BY <1>4
    <2>4. MmapsMove(M, b, GetBucket(r.size))
        BY <2>1, <2>2 DEF MmapsMove
    <2>. QED
        BY <1>2, <2>3, <2>4, MmapChange
<1>. QED
    BY <1>1, <1>6, <1>9, <1>10, <1>11

\* drm_tegra_reset_bo() of a BO in a bucket, unlinked and uncounted.
LEMMA TakeOutStep ==
    ASSUME IInv, NEW b \in Bos, bo[b].bo_list = "bucket", NEW x \in {1, 2},
           TakeOut(b, [bo[b] EXCEPT !.ref = x, !.holds = 1]),
           UNCHANGED <<tables, cleaned, crashed>>
    PROVE  IInv'
<1>. DEFINE s == Taken(bo[b], x)
<1>1. RecOK(bo[b])
    BY DEF IInv, BosOK
<1>2. /\ RecOK(s) /\ Alike(s, bo[b])
      /\ s.live /\ s.maps = 0 /\ s.size = bo[b].size /\ s.bo_list = "self"
      /\ s.map_cached = bo[b].map_cached
    BY <1>1, TakeOutRec
<1>3. /\ IF bo[b].map THEN ToMmapCache(b, s)
         ELSE bo' = [bo EXCEPT ![b] = s] /\ UNCHANGED mmaps
      /\ num_entries' = [num_entries EXCEPT ![Bucket(b)] = @ - 1]
    BY DEF TakeOut, ResetBo, Taken, Granted, Unlinked
<1>. HIDE DEF s
<1>4. /\ BosOK' /\ MmapOK' /\ mmap_cleaned' \in BOOLEAN
      /\ \A y \in Bos : y # b => /\ Alike(bo'[y], bo[y])
                                 /\ bo'[y].bo_list = bo[y].bo_list
                                 /\ bo'[y].size = bo[y].size
      /\ Alike(bo'[b], bo[b]) /\ bo'[b].bo_list = "self"
    <2>1. CASE bo[b].map
        <3>1. bo[b].map = TRUE
            BY <1>1, <2>1, BoFields DEF RecOK
        <3>2. BosOK /\ MmapOK /\ ToMmapCache(b, s)
            BY <1>3, <2>1 DEF IInv
        <3>3. /\ BosOK' /\ MmapOK' /\ mmap_cleaned' = TRUE
              /\ \A y \in Bos : y # b => /\ Alike(bo'[y], bo[y])
                                         /\ bo'[y].bo_list = bo[y].bo_list
                                         /\ bo'[y].size = bo[y].size
              /\ Alike(bo'[b], s) /\ bo'[b].bo_list = s.bo_list
            BY <1>2, <3>1, <3>2, StashStep
        <3>4. Alike(bo'[b], bo[b])
            BY <1>2, <3>3 DEF Alike
        <3>. QED
            BY <1>2, <3>3, <3>4
    <2>2. CASE ~ bo[b].map
        <3>1. BosOK' /\ bo'[b] = s /\ \A y \in Bos : y # b => bo'[y] = bo[y]
            BY <1>2, <1>3, <2>2, OneBo DEF IInv
        <3>2. MmapOK'
            <4>1. \A k : MmapInBucket(k)' = MmapInBucket(k)
                BY <1>2, <3>1, SameMmaps
            <4>. QED
                BY <1>3, <2>2, <4>1 DEF MmapOK, IInv, mmaps
        <3>3. mmap_cleaned' \in BOOLEAN
            BY <1>3, <2>2 DEF mmaps, IInv, FlagsOK
        <3>. QED
            BY <1>2, <3>1, <3>2, <3>3 DEF Alike
    <2>. QED
        BY <2>1, <2>2
<1>5. TablesOK'
    BY <1>4, SameTables DEF IInv
<1>6. EntriesOK'
    <2>1. ASSUME NEW k \in BucketSizes
          PROVE  /\ num_entries'[k] = Cardinality(InBucket(k)')
                 /\ Cardinality(InBucket(k)') \in Nat
        <3>1. InBucket(k)' = InBucket(k) \ {b}
            <4>1. \A y : y \in InBucket(k)' <=> y \in InBucket(k) \ {b}
                BY <1>4, BucketSets DEF Waits
            <4>. QED
                BY <4>1
        <3>2. IsFiniteSet(InBucket(k)) /\ Cardinality(InBucket(k)) \in Nat
            BY BucketSets, FS_CardinalityType
        <3>3. b \in InBucket(k) <=> k = Bucket(b)
            BY BucketSets DEF Waits, Bucket
        <3>4. CASE k = Bucket(b)
            <4>1. Cardinality(InBucket(k) \ {b}) = Cardinality(InBucket(k)) - 1
                BY <3>2, <3>3, <3>4, FS_RemoveElement
            <4>2. Cardinality(InBucket(k)') = Cardinality(InBucket(k)) - 1
                BY <3>1, <4>1, Zenon
            <4>3. Cardinality(InBucket(k)') \in Nat
                BY <3>1, <3>2, CountDrop, Zenon
            <4>4. num_entries'[k] = num_entries[k] - 1
                BY <1>3, <3>4 DEF IInv, EntriesOK
            <4>. QED
                BY <4>2, <4>3, <4>4 DEF IInv, EntriesOK
        <3>5. CASE k # Bucket(b)
            <4>1. InBucket(k)' = InBucket(k)
                BY <3>1, <3>3, <3>5
            <4>2. num_entries'[k] = num_entries[k]
                BY <1>3, <3>5 DEF IInv, EntriesOK
            <4>. QED
                BY <3>2, <4>1, <4>2 DEF IInv, EntriesOK
        <3>. QED
            BY <3>4, <3>5
    <2>2. num_entries' = [k \in BucketSizes |-> num_entries'[k]]
        BY <1>3 DEF IInv, EntriesOK
    <2>. QED
        BY <2>1, <2>2 DEF EntriesOK
<1>7. FlagsOK'
    BY <1>4 DEF IInv, FlagsOK
<1>. QED
    BY <1>4, <1>5, <1>6, <1>7 DEF IInv

\* lookup_bo().
LEMMA LookupInv ==
    ASSUME IInv, NEW b \in Bos, bo[b].live, LookupBo(b)
    PROVE  IInv'
<1>1. RecOK(bo[b])
    BY DEF IInv, BosOK
<1>2. CASE Crash("list")
    BY <1>2, CrashStep
<1>3. CASE Crash("bucket")
    BY <1>3, CrashStep
<1>4. CASE /\ bo[b].bo_list = "bucket"
           /\ TakeOut(b, [bo[b] EXCEPT !.ref = 2, !.holds = 1])
           /\ UNCHANGED <<tables, cleaned, crashed>>
    BY <1>4, TakeOutStep
<1>5. CASE /\ bo[b].bo_list = "self"
           /\ bo' = [bo EXCEPT ![b].ref = @ + 1, ![b].holds = @ + 1]
           /\ UNCHANGED <<tables, buckets, mmaps, crashed>>
    <2>. DEFINE r == [bo[b] EXCEPT !.ref = bo[b].ref + 1, !.holds = bo[b].holds + 1]
    <2>1. bo[b].ref + 1 \in Nat /\ bo[b].holds + 1 \in Nat /\ bo[b].ref >= bo[b].holds
        BY <1>1, BoFields DEF RecOK
    <2>2. RecOK(r) /\ Placed(r, bo[b])
        BY <1>1, <1>5, <2>1, RefRec
    <2>3. bo' = [bo EXCEPT ![b] = r]
        BY <1>5
    <2>. HIDE DEF r
    <2>. QED
        BY <1>5, <2>2, <2>3, QuietStep DEF Placed
<1>. QED
    BY <1>2, <1>3, <1>4, <1>5 DEF LookupBo

-----------------------------------------------------------------------------
(* The calls that find or make a struct.                                   *)

LEMMA NewFromCacheInv ==
    ASSUME IInv, NEW size \in Sizes, NewFromCache(size)
    PROVE  IInv'
<1>1. PICK b \in Heads(GetBucket(size)) :
         IF bo[b].map /\ ReadsNoBucket THEN Crash("bucket")
         ELSE /\ TakeOut(b, [bo[b] EXCEPT !.ref = 1, !.holds = 1])
              /\ UNCHANGED <<tables, cleaned, crashed>>
    BY DEF NewFromCache
<1>2. b \in Bos /\ bo[b].bo_list = "bucket"
    BY DEF Heads, InBucket, Cached
<1>3. CASE Crash("bucket")
    BY <1>3, CrashStep
<1>4. CASE /\ TakeOut(b, [bo[b] EXCEPT !.ref = 1, !.holds = 1])
           /\ UNCHANGED <<tables, cleaned, crashed>>
    BY <1>2, <1>4, TakeOutStep
<1>. QED
    BY <1>1, <1>3, <1>4

\* A struct made for a handle that the table does not know.
LEMMA NewStep ==
    ASSUME IInv, NEW b \in Bos, ~ bo[b].live, NEW h \in Handles, NEW size \in Nat,
           NEW list \in {"self", "null"}, NEW reuse \in BOOLEAN,
           reuse => list # "null", NEW n \in Names \cup {None},
           bo' = [bo EXCEPT ![b] = NewBo(h, n, size, list, reuse)],
           UNCHANGED <<buckets, mmaps, crashed>>
    PROVE  /\ BosOK' /\ EntriesOK' /\ MmapOK' /\ FlagsOK'
           /\ bo'[b] = NewBo(h, n, size, list, reuse)
           /\ \A x \in Bos : x # b => bo'[x] = bo[x]
<1>. DEFINE r == NewBo(h, n, size, list, reuse)
<1>1. RecOK(r) /\ r.bo_list = list /\ ~ r.map_cached
    BY NewRec
<1>. HIDE DEF r
<1>2. BosOK' /\ bo'[b] = r /\ \A x \in Bos : x # b => bo'[x] = bo[x]
    BY <1>1, OneBo DEF IInv, r
<1>3. bo[b].bo_list # "bucket" /\ ~ bo[b].map_cached
    BY AliveRec DEF IInv, BosOK
<1>4. EntriesOK'
    <2>1. ASSUME NEW k PROVE InBucket(k)' = InBucket(k)
        <3>1. \A x \in Bos : Waits(bo'[x], k) <=> Waits(bo[x], k)
            BY <1>1, <1>2, <1>3 DEF Waits
        <3>. QED
            BY <3>1, BucketSets
    <2>. QED
        BY <2>1 DEF IInv, EntriesOK, buckets
<1>5. MmapOK'
    <2>1. ASSUME NEW k PROVE MmapInBucket(k)' = MmapInBucket(k)
        <3>1. \A x \in Bos : MapWaits(bo'[x], k) <=> MapWaits(bo[x], k)
            BY <1>1, <1>2, <1>3 DEF MapWaits
        <3>. QED
            BY <3>1, BucketSets
    <2>. QED
        BY <2>1 DEF IInv, MmapOK, mmaps
<1>6. FlagsOK'
    BY DEF IInv, FlagsOK, buckets, mmaps
<1>. QED
    BY <1>2, <1>4, <1>5, <1>6 DEF r

\* The same, and the struct enters the handle table.
LEMMA EnterStep ==
    ASSUME IInv, NEW b \in Bos, ~ bo[b].live, NEW h \in Handles, NEW size \in Nat,
           NEW list \in {"self", "null"}, NEW reuse \in BOOLEAN,
           reuse => list # "null",
           bo' = [bo EXCEPT ![b] = NewBo(h, None, size, list, reuse)],
           handle_table[h] = None,
           handle_table' = [handle_table EXCEPT ![h] = b],
           opened' = opened \cup {h}, name_table' = name_table,
           UNCHANGED <<buckets, mmaps, crashed>>
    PROVE  IInv'
<1>. DEFINE r == NewBo(h, None, size, list, reuse)
<1>1. BosOK' /\ EntriesOK' /\ MmapOK' /\ FlagsOK'
    BY NewStep
<1>2. r.live /\ r.handle = h
    BY NewRec
<1>. HIDE DEF r
<1>3. TablesOK'
    BY <1>2, EnterTables DEF IInv, r
<1>. QED
    BY <1>1, <1>3 DEF IInv

LEMMA NewCreatedInv ==
    ASSUME IInv, NEW size \in Sizes, NewCreated(size)
    PROVE  IInv'
<1>. DEFINE full == IF GetBucket(size) = None THEN size ELSE GetBucket(size)
<1>1. PICK b \in Bos, h \in Handles \ opened :
          /\ ~ bo[b].live
          /\ bo' = [bo EXCEPT ![b] = NewBo(h, None, full, "self", TRUE)]
          /\ handle_table' = [handle_table EXCEPT ![h] = b]
          /\ opened' = opened \cup {h}
    BY DEF NewCreated
<1>2. full \in Nat
    BY GetBucketFact, BoCacheAssumption
<1>3. handle_table[h] = None
    BY DEF IInv, TablesOK, TableOpen
<1>4. UNCHANGED <<name_table, buckets, mmaps, crashed>>
    BY DEF NewCreated
<1>. HIDE DEF full
<1>. QED
    BY <1>1, <1>2, <1>3, <1>4, EnterStep

\* The BO of an entry of a table is alive.
LEMMA EntryLives ==
    ASSUME IInv
    PROVE  /\ \A h \in Handles : handle_table[h] # None =>
                 handle_table[h] \in Bos /\ bo[handle_table[h]].live
           /\ \A n \in Names : name_table[n] # None =>
                 name_table[n] \in Bos /\ bo[name_table[n]].live
BY DEF IInv, TablesOK, NoDanglingEntry

LEMMA WrapInv ==
    ASSUME IInv, NEW h \in Handles, NEW size \in Sizes, Wrap(h, size)
    PROVE  IInv'
<1>1. CASE handle_table[h] # None
    <2>1. LookupBo(handle_table[h])
        BY <1>1 DEF Wrap
    <2>. QED
        BY <1>1, <2>1, EntryLives, LookupInv
<1>2. CASE handle_table[h] = None
    <2>1. PICK b \in Bos :
             /\ ~ bo[b].live
             /\ bo' = [bo EXCEPT ![b] = NewBo(h, None, size, "self", FALSE)]
             /\ handle_table' = [handle_table EXCEPT ![h] = b]
        BY <1>2 DEF Wrap
    <2>2. /\ opened' = opened \cup {h}
          /\ UNCHANGED <<name_table, buckets, mmaps, crashed>>
        BY <1>2 DEF Wrap
    <2>3. size \in Nat
        BY BoCacheAssumption
    <2>. QED
        BY <1>2, <2>1, <2>2, <2>3, EnterStep
<1>. QED
    BY <1>1, <1>2

LEMMA FromHandleInv ==
    ASSUME IInv, NEW h \in Handles, FromHandle(h)
    PROVE  IInv'
BY EntryLives, LookupInv DEF FromHandle

LEMMA FromDmabufInv ==
    ASSUME IInv, NEW h \in Handles, NEW size \in Sizes, FromDmabuf(h, size)
    PROVE  IInv'
<1>1. CASE handle_table[h] # None
    <2>1. LookupBo(handle_table[h])
        BY <1>1 DEF FromDmabuf
    <2>. QED
        BY <1>1, <2>1, EntryLives, LookupInv
<1>2. CASE handle_table[h] = None
    <2>1. PICK b \in Bos :
             /\ ~ bo[b].live
             /\ \/ /\ bo' = [bo EXCEPT ![b] = NewBo(h, None, size, "null", FALSE)]
                   /\ handle_table' = [handle_table EXCEPT ![h] = b]
                   /\ opened' = opened \cup {h}
                   /\ UNCHANGED <<name_table, buckets, mmaps, crashed>>
                \/ Crash("list")
        BY <1>2 DEF FromDmabuf
    <2>2. size \in Nat
        BY BoCacheAssumption
    <2>3. CASE Crash("list")
        BY <2>3, CrashStep
    <2>4. CASE ~ Crash("list")
        BY <1>2, <2>1, <2>2, <2>4, EnterStep
    <2>. QED
        BY <2>3, <2>4
<1>. QED
    BY <1>1, <1>2

LEMMA FromNameInv ==
    ASSUME IInv, NEW n \in Names, NEW size \in Sizes, FromName(n, size)
    PROVE  IInv'
<1>1. CASE name_table[n] # None
    <2>1. LookupBo(name_table[n])
        BY <1>1 DEF FromName
    <2>. QED
        BY <1>1, <2>1, EntryLives, LookupInv
<1>2. CASE name_table[n] = None
    <2>1. PICK h \in Handles \ opened :
              IF handle_table[h] # None THEN LookupBo(handle_table[h])
              ELSE /\ \E b \in Bos :
                         /\ ~ bo[b].live
                         /\ bo' = [bo EXCEPT ![b] = NewBo(h, n, size, "null", FALSE)]
                         /\ name_table' = [name_table EXCEPT ![n] = b]
                   /\ opened' = opened \cup {h}
                   /\ UNCHANGED <<handle_table, buckets, mmaps, crashed>>
        BY <1>2 DEF FromName
    <2>2. handle_table[h] = None
        BY DEF IInv, TablesOK, TableOpen
    <2>3. PICK b \in Bos :
             /\ ~ bo[b].live
             /\ bo' = [bo EXCEPT ![b] = NewBo(h, n, size, "null", FALSE)]
             /\ name_table' = [name_table EXCEPT ![n] = b]
        BY <2>1, <2>2
    <2>4. /\ opened' = opened \cup {h}
          /\ handle_table' = handle_table /\ UNCHANGED <<buckets, mmaps, crashed>>
        BY <2>1, <2>2
    <2>5. size \in Nat
        BY BoCacheAssumption
    <2>6. /\ BosOK' /\ EntriesOK' /\ MmapOK' /\ FlagsOK'
          /\ bo'[b] = NewBo(h, n, size, "null", FALSE)
          /\ \A x \in Bos : x # b => bo'[x] = bo[x]
        BY <2>3, <2>4, <2>5, NewStep
    <2>7. bo'[b].live /\ bo'[b].bo_list = "null" /\ bo'[b].name = n
        <3>2. /\ NewBo(h, n, size, "null", FALSE).live
              /\ NewBo(h, n, size, "null", FALSE).name = n
              /\ NewBo(h, n, size, "null", FALSE).bo_list = "null"
            BY DEF NewBo
        <3>. QED
            BY <2>6, <3>2
    <2>8. TablesOK'
        <3>1. /\ handle_table' \in [Handles -> Bos \cup {None}] /\ opened' \subseteq Handles
              /\ name_table' \in [Names -> Bos \cup {None}]
            BY <2>3, <2>4 DEF IInv, TablesOK
        <3>2. NoDanglingEntry'
            <4>1. \A g \in Handles : handle_table'[g] # None =>
                     bo'[handle_table'[g]].live /\ bo'[handle_table'[g]].handle = g
                <5>1. ASSUME NEW g \in Handles, handle_table[g] # None
                      PROVE  /\ handle_table[g] \in Bos /\ handle_table[g] # b
                             /\ bo[handle_table[g]].live /\ bo[handle_table[g]].handle = g
                    BY <2>3, <5>1 DEF IInv, TablesOK, NoDanglingEntry
                <5>. QED
                    BY <2>4, <2>6, <5>1
            <4>2. \A m \in Names : name_table'[m] # None =>
                     bo'[name_table'[m]].live /\ bo'[name_table'[m]].name = m
                <5>1. ASSUME NEW m \in Names, name_table[m] # None
                      PROVE  /\ name_table[m] \in Bos /\ name_table[m] # b
                             /\ bo[name_table[m]].live /\ bo[name_table[m]].name = m
                    BY <2>3, <5>1 DEF IInv, TablesOK, NoDanglingEntry
                <5>2. \A m \in Names : name_table'[m] = IF m = n THEN b ELSE name_table[m]
                    BY <2>3 DEF IInv, TablesOK
                <5>3. ASSUME NEW m \in Names, name_table'[m] # None
                      PROVE  bo'[name_table'[m]].live /\ bo'[name_table'[m]].name = m
                    <6>1. CASE m = n
                        BY <2>7, <5>2, <6>1
                    <6>2. CASE m # n
                        <7>1. name_table'[m] = name_table[m]
                            BY <5>2, <6>2
                        <7>2. bo'[name_table[m]] = bo[name_table[m]]
                            BY <2>6, <5>1, <5>3, <7>1
                        <7>. QED
                            BY <5>1, <5>3, <7>1, <7>2
                    <6>. QED
                        BY <6>1, <6>2
                <5>. QED
                    BY <5>3
            <4>. QED
                BY <4>1, <4>2 DEF NoDanglingEntry
        <3>3. InTable'
            BY <2>4, <2>6, <2>7 DEF IInv, TablesOK, InTable
        <3>4. TableOpen'
            BY <2>4 DEF IInv, TablesOK, TableOpen
        <3>. QED
            BY <3>1, <3>2, <3>3, <3>4 DEF TablesOK
    <2>. QED
        BY <2>6, <2>8 DEF IInv
<1>. QED
    BY <1>1, <1>2

-----------------------------------------------------------------------------
(* The calls on a BO that somebody holds.                                  *)

LEMMA RefInv ==
    ASSUME IInv, NEW b \in Bos, Ref(b)
    PROVE  IInv'
<1>. DEFINE r == [bo[b] EXCEPT !.ref = bo[b].ref + 1, !.holds = bo[b].holds + 1]
<1>1. RecOK(bo[b]) /\ bo[b].holds > 0
    BY DEF IInv, BosOK, Ref
<1>2. /\ bo[b].ref + 1 \in Nat /\ bo[b].holds + 1 \in Nat /\ bo[b].ref >= bo[b].holds
      /\ bo[b].live /\ bo[b].bo_list # "bucket"
    BY <1>1, BoFields DEF RecOK
<1>3. RecOK(r) /\ Placed(r, bo[b])
    BY <1>1, <1>2, RefRec
<1>4. bo' = [bo EXCEPT ![b] = r]
    BY DEF Ref
<1>5. UNCHANGED <<tables, buckets, mmaps, crashed>>
    BY DEF Ref
<1>. HIDE DEF r
<1>. QED
    BY <1>3, <1>4, <1>5, QuietStep DEF Placed

LEMMA UnrefOneInv ==
    ASSUME IInv, NEW b \in Bos, UnrefOne(b)
    PROVE  IInv'
<1>. DEFINE z == IF bo[b].holds = 1 THEN 0 ELSE bo[b].maps
            r == [bo[b] EXCEPT !.ref = bo[b].ref - 1, !.holds = bo[b].holds - 1,
                               !.maps = z]
<1>1. RecOK(bo[b]) /\ bo[b].holds > 0 /\ bo[b].ref > 1
    BY DEF IInv, BosOK, UnrefOne
<1>2. /\ bo[b].ref \in Nat /\ bo[b].holds \in Nat /\ bo[b].maps \in Nat
      /\ bo[b].ref - 1 \in Nat /\ bo[b].holds - 1 \in Nat
    BY <1>1, BoFields DEF RecOK
<1>3. z \in Nat /\ z <= bo[b].maps /\ (z > 0 => bo[b].holds - 1 > 0)
    BY <1>1, <1>2
<1>4. bo' = [bo EXCEPT ![b] = r]
    BY DEF UnrefOne
<1>5. UNCHANGED <<tables, buckets, mmaps, crashed>>
    BY DEF UnrefOne
<1>6. HIDE DEF z
<1>7. RecOK(r) /\ Placed(r, bo[b])
    BY <1>1, <1>2, <1>3, UnrefOneRec
<1>. HIDE DEF r
<1>. QED
    BY <1>4, <1>5, <1>7, QuietStep DEF Placed

LEMMA ForbidCachingInv ==
    ASSUME IInv, NEW b \in Bos, ForbidCaching(b)
    PROVE  IInv'
<1>. DEFINE r == [bo[b] EXCEPT !.reuse = FALSE]
<1>1. RecOK(bo[b]) /\ bo[b].holds > 0
    BY DEF IInv, BosOK, ForbidCaching
<1>2. RecOK(r) /\ Placed(r, bo[b])
    BY <1>1, ReuseRec
<1>3. bo' = [bo EXCEPT ![b] = r]
    BY DEF ForbidCaching
<1>4. UNCHANGED <<tables, buckets, mmaps, crashed>>
    BY DEF ForbidCaching
<1>. HIDE DEF r
<1>. QED
    BY <1>2, <1>3, <1>4, QuietStep DEF Placed

LEMMA MapInv ==
    ASSUME IInv, NEW b \in Bos, Map(b)
    PROVE  IInv'
<1>1. RecOK(bo[b]) /\ bo[b].holds > 0
    BY DEF IInv, BosOK, Map
<1>2. /\ bo[b].mmap_ref \in Nat /\ bo[b].maps \in Nat
      /\ bo[b].mmap_ref + 1 \in Nat /\ bo[b].maps + 1 \in Nat
      /\ bo[b].maps <= bo[b].mmap_ref
    BY <1>1, BoFields DEF RecOK
<1>3. UNCHANGED <<tables, buckets, mmap_cleaned, crashed>>
    BY DEF Map
<1>4. CASE /\ bo[b].map
           /\ bo' = [bo EXCEPT ![b].mmap_ref = @ + 1, ![b].maps = @ + 1]
           /\ UNCHANGED num_mmap
    <2>. DEFINE r == [bo[b] EXCEPT !.mmap_ref = bo[b].mmap_ref + 1, !.maps = bo[b].maps + 1]
    <2>1. bo[b].maps + 1 <= bo[b].mmap_ref + 1
        BY <1>2
    <2>2. RecOK(r) /\ Placed(r, bo[b])
        BY <1>1, <1>2, <1>4, <2>1, MapRec
    <2>3. bo' = [bo EXCEPT ![b] = r]
        BY <1>4
    <2>4. UNCHANGED <<tables, buckets, mmaps, crashed>>
        BY <1>3, <1>4 DEF mmaps
    <2>. HIDE DEF r
    <2>. QED
        BY <2>2, <2>3, <2>4, QuietStep DEF Placed
<1>5. CASE /\ bo' = [bo EXCEPT ![b].mmap_ref = @ + 1]
           /\ UNCHANGED num_mmap
    <2>. DEFINE r == [bo[b] EXCEPT !.mmap_ref = bo[b].mmap_ref + 1]
    <2>1. bo[b].maps <= bo[b].mmap_ref + 1
        BY <1>2
    <2>2. RecOK(r) /\ Placed(r, bo[b])
        BY <1>1, <1>2, <2>1, MapFailedRec
    <2>3. bo' = [bo EXCEPT ![b] = r]
        BY <1>5
    <2>4. UNCHANGED <<tables, buckets, mmaps, crashed>>
        BY <1>3, <1>5 DEF mmaps
    <2>. HIDE DEF r
    <2>. QED
        BY <2>2, <2>3, <2>4, QuietStep DEF Placed
<1>6. CASE /\ bo' = [bo EXCEPT ![b].mmap_ref = @ + 1, ![b].maps = @ + 1,
                              ![b].map = TRUE, ![b].map_cached = FALSE,
                              ![b].unmap_age = 0]
           /\ num_mmap' = MmapLess({b} \cap MmapCached)
    <2>. DEFINE r == FirstMapped(bo[b], bo[b].mmap_ref + 1, bo[b].maps + 1)
    <2>1. bo[b].maps + 1 <= bo[b].mmap_ref + 1
        BY <1>2
    <2>2. /\ RecOK(r) /\ Alike(r, bo[b])
          /\ r.bo_list = bo[b].bo_list /\ r.size = bo[b].size /\ ~ r.map_cached
        BY <1>1, <1>2, <2>1, MapFirstRec
    <2>3. bo' = [bo EXCEPT ![b] = r]
        BY <1>6 DEF FirstMapped
    <2>. HIDE DEF r
    <2>4. BosOK' /\ bo'[b] = r /\ \A x \in Bos : x # b => bo'[x] = bo[x]
        BY <2>2, <2>3, OneBo DEF IInv
    <2>5. TablesOK'
        BY <1>3, <2>2, <2>4, SameTables DEF IInv, Alike
    <2>6. EntriesOK'
        <3>1. \A k : InBucket(k)' = InBucket(k)
            BY <2>2, <2>4, SameCounts
        <3>. QED
            BY <1>3, <3>1 DEF EntriesOK, IInv, buckets
    <2>7. MmapOK'
        <3>1. ASSUME NEW x \in Bos, NEW k \in BucketSizes
              PROVE  MapWaits(bo'[x], k) <=> MapWaits(bo[x], k) /\ x \notin {b}
            BY <2>2, <2>4 DEF MapWaits
        <3>2. {b} \subseteq Bos
            OBVIOUS
        <3>. QED
            BY <1>6, <3>1, <3>2, MmapDrop DEF IInv
    <2>8. FlagsOK'
        BY <1>3 DEF IInv, FlagsOK, buckets
    <2>. QED
        BY <2>4, <2>5, <2>6, <2>7, <2>8 DEF IInv
<1>. QED
    BY <1>4, <1>5, <1>6 DEF Map

LEMMA UnmapInv ==
    ASSUME IInv, NEW b \in Bos, Unmap(b)
    PROVE  IInv'
<1>1. RecOK(bo[b]) /\ bo[b].maps > 0
    BY DEF IInv, BosOK, Unmap
<1>2. /\ bo[b].mmap_ref \in Nat /\ bo[b].maps \in Nat
      /\ bo[b].maps <= bo[b].mmap_ref
      /\ bo[b].map /\ bo[b].holds > 0
    BY <1>1, BoFields DEF RecOK
<1>3. CASE Crash("bucket")
    BY <1>3, CrashStep
<1>4. CASE bo[b].mmap_ref = 1 /\ ~ Crash("bucket")
    <2>. DEFINE r == [bo[b] EXCEPT !.mmap_ref = 0, !.maps = bo[b].maps - 1]
    <2>1. bo[b].maps - 1 = 0 /\ bo[b].maps - 1 \in Nat /\ bo[b].maps - 1 <= 0
        BY <1>1, <1>2, <1>4
    <2>2. RecOK(r) /\ Placed(r, bo[b]) /\ r.maps = 0 /\ r.live
        <3>1. RecOK(r) /\ Placed(r, bo[b])
            BY <1>1, <1>2, <2>1, MapRec
        <3>2. r.maps = 0
            BY <1>1, <2>1 DEF RecOK, Bo
        <3>. QED
            BY <1>1, <1>2, <3>1, <3>2, AliveRec DEF Placed
    <2>3. ToMmapCache(b, r) /\ UNCHANGED <<tables, buckets, crashed>>
        BY <1>2, <1>4 DEF Unmap
    <2>. HIDE DEF r
    <2>4. bo[b].map = TRUE
        BY <1>1, <1>2, BoFields DEF RecOK
    <2>5. BosOK /\ MmapOK /\ r.size = bo[b].size
        BY <2>2 DEF IInv, Placed
    <2>6. /\ BosOK' /\ MmapOK' /\ mmap_cleaned' = TRUE
          /\ \A x \in Bos : x # b => /\ Alike(bo'[x], bo[x])
                                     /\ bo'[x].bo_list = bo[x].bo_list
                                     /\ bo'[x].size = bo[x].size
          /\ Alike(bo'[b], r) /\ bo'[b].bo_list = r.bo_list /\ bo'[b].size = r.size
        BY <2>2, <2>3, <2>4, <2>5, StashStep
    <2>7. /\ Alike(bo'[b], bo[b]) /\ bo'[b].bo_list = bo[b].bo_list
          /\ bo'[b].size = bo[b].size
        BY <2>2, <2>6 DEF Alike, Placed
    <2>8. TablesOK'
        BY <2>3, <2>6, <2>7, SameTables DEF IInv
    <2>9. EntriesOK'
        <3>1. \A k : InBucket(k)' = InBucket(k)
            BY <2>6, <2>7, SameCounts
        <3>. QED
            BY <2>3, <3>1 DEF EntriesOK, IInv, buckets
    <2>10. FlagsOK'
        BY <2>3, <2>6 DEF IInv, FlagsOK, buckets
    <2>. QED
        BY <2>6, <2>8, <2>9, <2>10 DEF IInv
<1>5. CASE bo[b].mmap_ref # 1
    <2>. DEFINE r == [bo[b] EXCEPT !.mmap_ref = bo[b].mmap_ref - 1, !.maps = bo[b].maps - 1]
    <2>1. /\ bo[b].mmap_ref - 1 \in Nat /\ bo[b].maps - 1 \in Nat
          /\ bo[b].maps - 1 <= bo[b].mmap_ref - 1
        BY <1>1, <1>2
    <2>2. RecOK(r) /\ Placed(r, bo[b])
        BY <1>1, <1>2, <2>1, MapRec
    <2>3. bo' = [bo EXCEPT ![b] = r]
        BY <1>2, <1>5 DEF Unmap
    <2>4. UNCHANGED <<tables, buckets, mmaps, crashed>>
        BY <1>5 DEF Unmap
    <2>. HIDE DEF r
    <2>. QED
        BY <2>2, <2>3, <2>4, QuietStep DEF Placed
<1>. QED
    BY <1>3, <1>4, <1>5

LEMMA GetNameInv ==
    ASSUME IInv, NEW b \in Bos, GetName(b)
    PROVE  IInv'
<1>1. PICK n \in Names :
          /\ \A x \in Bos : bo[x].name # n
          /\ name_table' = [name_table EXCEPT ![n] = b]
          /\ bo' = [bo EXCEPT ![b].name = n]
    BY DEF GetName
<1>. DEFINE r == [bo[b] EXCEPT !.name = n]
<1>2. RecOK(bo[b]) /\ bo[b].holds > 0 /\ bo[b].name = None
    BY DEF IInv, BosOK, GetName
<1>3. /\ RecOK(r) /\ r.live = bo[b].live /\ r.handle = bo[b].handle /\ r.name = n
      /\ r.bo_list = bo[b].bo_list /\ r.size = bo[b].size
      /\ r.map_cached = bo[b].map_cached
    BY <1>2, NameRec
<1>4. bo' = [bo EXCEPT ![b] = r]
    BY <1>1
<1>. HIDE DEF r
<1>5. BosOK' /\ bo'[b] = r /\ \A x \in Bos : x # b => bo'[x] = bo[x]
    BY <1>3, <1>4, OneBo DEF IInv
<1>6. UNCHANGED <<handle_table, opened, buckets, mmaps, crashed>>
    BY DEF GetName
<1>7. r.live
    BY <1>2, <1>3, AliveRec
<1>8. TablesOK'
    <2>1. /\ handle_table' \in [Handles -> Bos \cup {None}] /\ opened' \subseteq Handles
          /\ name_table' \in [Names -> Bos \cup {None}]
        BY <1>1, <1>6 DEF IInv, TablesOK
    <2>2. \A g \in Handles : handle_table'[g] # None =>
             bo'[handle_table'[g]].live /\ bo'[handle_table'[g]].handle = g
        BY <1>3, <1>5, <1>6 DEF IInv, TablesOK, NoDanglingEntry
    <2>3. ASSUME NEW m \in Names, name_table'[m] # None
          PROVE  bo'[name_table'[m]].live /\ bo'[name_table'[m]].name = m
        <3>1. CASE m = n
            <4>1. name_table'[m] = b
                BY <1>1, <3>1 DEF IInv, TablesOK
            <4>. QED
                BY <1>3, <1>5, <1>7, <3>1, <4>1
        <3>2. CASE m # n
            <4>1. name_table'[m] = name_table[m]
                BY <1>1, <3>2 DEF IInv, TablesOK
            <4>2. /\ name_table[m] \in Bos
                  /\ bo[name_table[m]].live /\ bo[name_table[m]].name = m
                BY <2>3, <4>1 DEF IInv, TablesOK, NoDanglingEntry
            <4>3. name_table[m] # b
                BY <1>2, <4>2, BoCacheAssumption
            <4>. QED
                BY <1>5, <4>1, <4>2, <4>3
        <3>. QED
            BY <3>1, <3>2
    <2>4. NoDanglingEntry'
        BY <2>2, <2>3 DEF NoDanglingEntry
    <2>5. InTable'
        BY <1>3, <1>5, <1>6 DEF IInv, TablesOK, InTable
    <2>6. TableOpen'
        BY <1>6 DEF IInv, TablesOK, TableOpen
    <2>. QED
        BY <2>1, <2>4, <2>5, <2>6 DEF TablesOK
<1>9. EntriesOK'
    <2>1. \A k : InBucket(k)' = InBucket(k)
        BY <1>3, <1>5, SameCounts
    <2>. QED
        BY <1>6, <2>1 DEF EntriesOK, IInv, buckets
<1>10. MmapOK'
    <2>1. \A k : MmapInBucket(k)' = MmapInBucket(k)
        BY <1>3, <1>5, SameMmaps
    <2>. QED
        BY <1>6, <2>1 DEF MmapOK, IInv, mmaps
<1>11. FlagsOK'
    BY <1>6 DEF FlagsOK, IInv, buckets, mmaps
<1>. QED
    BY <1>5, <1>8, <1>9, <1>10, <1>11 DEF IInv

-----------------------------------------------------------------------------
(* The last reference goes.                                                *)

LEMMA CacheCleanupFact == \A F \in CacheCleanup : F \subseteq Cached
BY DEF CacheCleanup

LEMMA UnrefToCacheInv ==
    ASSUME IInv, NEW b \in Bos, UnrefToCache(b)
    PROVE  IInv'
<1>. DEFINE r == Shelved(bo[b], bo[b].holds - 1)
<1>1. PICK F \in CacheCleanup :
         /\ Forget(F)
         /\ bo' = [x \in Bos |->
               IF x \in F THEN NoBo
               ELSE IF x = b THEN [bo[b] EXCEPT !.ref = 0, !.holds = @ - 1, !.maps = 0,
                                                !.bo_list = "bucket", !.free_age = 0]
               ELSE bo[x]]
         /\ num_entries' = [k \in BucketSizes |->
               num_entries[k] - Cardinality(F \cap InBucket(k))
               + IF k = Bucket(b) THEN 1 ELSE 0]
    BY DEF UnrefToCache
<1>2. F \subseteq Cached /\ F \subseteq Bos
    BY CacheCleanupFact DEF Cached
<1>3. /\ bo[b].holds > 0 /\ bo[b].ref = 1 /\ bo[b].reuse
      /\ GetBucket(bo[b].size) # None
      /\ \A x \in Bos : RecOK(bo[x])
    BY DEF UnrefToCache, Bucket, IInv, BosOK
<1>4. b \notin Cached
    BY <1>3 DEF Cached, RecOK
<1>5. bo[b].holds - 1 \in Nat /\ bo[b].holds \in Nat
    BY <1>3, BoFields DEF RecOK
<1>6. /\ RecOK(r) /\ r.live = bo[b].live /\ r.handle = bo[b].handle
      /\ r.name = bo[b].name /\ r.bo_list = "bucket" /\ r.size = bo[b].size
      /\ r.map_cached = bo[b].map_cached
    BY <1>3, <1>5, CacheRec
<1>7. bo'[b] = r
    BY <1>1, <1>2, <1>4 DEF Shelved
<1>. HIDE DEF r
<1>8. \A x \in F : bo'[x] = NoBo
    BY <1>1, <1>2
<1>9. \A x \in Bos \ F : x # b => bo'[x] = bo[x]
    BY <1>1
<1>10. BosOK'
    <2>1. bo' = [x \in Bos |-> bo'[x]]
        BY <1>1
    <2>2. \A x \in Bos : RecOK(bo'[x])
        BY <1>3, <1>6, <1>7, <1>8, <1>9, NoBoOK
    <2>. QED
        BY <2>1, <2>2 DEF BosOK
<1>11. bo[b].live /\ bo[b].bo_list # "null"
    <2>1. bo[b].live
        BY <1>3, AliveRec
    <2>. QED
        BY <1>3, <2>1 DEF RecOK
<1>12. TablesOK'
    <2>1. \A x \in F : bo[x].live /\ bo[x].bo_list # "null" /\ bo'[x] = NoBo
        BY <1>2, <1>3, <1>8, AliveRec DEF Cached
    <2>2. \A x \in Bos \ F : Alike(bo'[x], bo[x])
        BY <1>6, <1>7, <1>9, <1>11 DEF Alike
    <2>. QED
        BY <1>1, <1>2, <2>1, <2>2, ForgetTables DEF IInv
<1>13. EntriesOK'
    <2>1. \A k : F \cap InBucket(k) = InBucket(k) \cap F
        OBVIOUS
    <2>2. num_entries' = [k \in BucketSizes |->
               num_entries[k] - Cardinality(InBucket(k) \cap F)
               + IF k = Bucket(b) THEN 1 ELSE 0]
        BY <1>1, <2>1
    <2>3. ASSUME NEW x \in Bos, NEW k \in BucketSizes
          PROVE  Waits(bo'[x], k) <=> \/ Waits(bo[x], k) /\ x \notin F
                                      \/ x = b /\ k = Bucket(b)
        <3>1. CASE x \in F
            <4>1. x # b
                BY <1>2, <1>4, <3>1
            <4>. QED
                BY <1>8, <3>1, <4>1 DEF Waits, NoBo
        <3>2. CASE x = b
            BY <1>2, <1>4, <1>6, <1>7, <3>2 DEF Waits, Bucket, Cached
        <3>3. CASE x \notin F /\ x # b
            BY <1>9, <3>3
        <3>. QED
            BY <3>1, <3>2, <3>3
    <2>4. EntriesMove(F, b, Bucket(b))
        BY <2>2, <2>3 DEF EntriesMove
    <2>. QED
        BY <1>2, <1>4, <2>4, EntriesChange DEF IInv
<1>14. MmapOK'
    <2>1. ASSUME NEW x \in Bos, NEW k \in BucketSizes
          PROVE  MapWaits(bo'[x], k) <=> MapWaits(bo[x], k) /\ x \notin F
        <3>1. CASE x \in F
            BY <1>8, <3>1, NoBoOK DEF MapWaits
        <3>2. CASE x = b
            BY <1>2, <1>4, <1>6, <1>7, <3>2 DEF MapWaits
        <3>3. CASE x \notin F /\ x # b
            BY <1>9, <3>3
        <3>. QED
            BY <3>1, <3>2, <3>3
    <2>2. num_mmap' = MmapLess(F \cap MmapCached)
        BY <1>1 DEF Forget
    <2>. QED
        BY <1>2, <2>1, <2>2, MmapDrop DEF IInv
<1>15. FlagsOK'
    BY DEF UnrefToCache, IInv, FlagsOK
<1>. QED
    BY <1>10, <1>12, <1>13, <1>14, <1>15 DEF IInv

LEMMA UnrefFreeInv ==
    ASSUME IInv, NEW b \in Bos, UnrefFree(b)
    PROVE  IInv'
<1>1. CASE Crash("list")
    BY <1>1, CrashStep
<1>2. CASE ~ Crash("list")
    <2>1. /\ bo[b].bo_list # "null" /\ Forget({b})
          /\ bo' = [bo EXCEPT ![b] = NoBo]
          /\ UNCHANGED <<buckets, mmap_cleaned, crashed>>
        BY <1>2 DEF UnrefFree
    <2>2. BosOK' /\ bo'[b] = NoBo /\ \A x \in Bos : x # b => bo'[x] = bo[x]
        BY <2>1, OneBo, NoBoOK DEF IInv
    <2>3. bo[b].live /\ bo[b].bo_list # "bucket"
        <3>1. RecOK(bo[b]) /\ bo[b].holds > 0
            BY DEF UnrefFree, IInv, BosOK
        <3>. QED
            BY <3>1 DEF RecOK
    <2>4. TablesOK'
        <3>1. \A x \in {b} : bo[x].live /\ bo[x].bo_list # "null" /\ bo'[x] = NoBo
            BY <2>1, <2>2, <2>3
        <3>2. \A x \in Bos \ {b} : Alike(bo'[x], bo[x])
            BY <2>2 DEF Alike
        <3>3. {b} \subseteq Bos /\ TablesOK /\ BosOK
            BY DEF IInv
        <3>. QED
            BY <2>1, <3>1, <3>2, <3>3, ForgetTables
    <2>5. EntriesOK'
        <3>1. ASSUME NEW k PROVE InBucket(k)' = InBucket(k)
            <4>1. \A x \in Bos : Waits(bo'[x], k) <=> Waits(bo[x], k)
                BY <2>2, <2>3 DEF Waits, NoBo
            <4>. QED
                BY <4>1, BucketSets
        <3>. QED
            BY <2>1, <3>1 DEF EntriesOK, IInv, buckets
    <2>6. MmapOK'
        <3>1. ASSUME NEW x \in Bos, NEW k \in BucketSizes
              PROVE  MapWaits(bo'[x], k) <=> MapWaits(bo[x], k) /\ x \notin {b}
            BY <2>2, NoBoOK DEF MapWaits
        <3>2. {b} \subseteq Bos /\ num_mmap' = MmapLess({b} \cap MmapCached)
            BY <2>1 DEF Forget
        <3>. QED
            BY <3>1, <3>2, MmapDrop DEF IInv
    <2>7. FlagsOK'
        BY <2>1 DEF FlagsOK, IInv, buckets
    <2>. QED
        BY <2>2, <2>4, <2>5, <2>6, <2>7 DEF IInv
<1>. QED
    BY <1>1, <1>2

-----------------------------------------------------------------------------
(* The device is closed, time passes.                                      *)

\* A library without BOs.
LEMMA EmptyInv ==
    ASSUME bo = [b \in Bos |-> NoBo],
           handle_table = [h \in Handles |-> None],
           name_table = [n \in Names |-> None],
           num_entries = [k \in BucketSizes |-> 0],
           num_mmap = [k \in BucketSizes |-> 0],
           opened \subseteq Handles, FlagsOK
    PROVE  IInv
<1>1. \A b \in Bos : bo[b] = NoBo
    OBVIOUS
<1>2. BosOK
    BY <1>1, NoBoOK DEF BosOK
<1>3. TablesOK
    BY <1>1 DEF TablesOK, NoDanglingEntry, InTable, TableOpen, NoBo
<1>4. \A k : InBucket(k) = {} /\ MmapInBucket(k) = {}
    <2>1. ASSUME NEW k PROVE InBucket(k) = {}
        BY <1>1 DEF InBucket, Cached, NoBo
    <2>2. ASSUME NEW k PROVE MmapInBucket(k) = {}
        BY <1>1, NoBoOK DEF MmapInBucket, MmapCached
    <2>. QED
        BY <2>1, <2>2
<1>5. EntriesOK /\ MmapOK
    BY <1>4, FS_EmptySet DEF EntriesOK, MmapOK
<1>. QED
    BY <1>2, <1>3, <1>5 DEF IInv

LEMMA InitInv == Init => IInv
BY EmptyInv DEF Init, FlagsOK

LEMMA CloseInv ==
    ASSUME IInv, Close
    PROVE  IInv'
<1>1. FlagsOK'
    BY DEF Close, IInv, FlagsOK
<1>2. opened' \subseteq Handles
    BY DEF Close, IInv, TablesOK
<1>3. /\ bo' = [b \in Bos |-> NoBo]
      /\ handle_table' = [h \in Handles |-> None]
      /\ name_table' = [n \in Names |-> None]
      /\ num_entries' = [k \in BucketSizes |-> 0]
      /\ num_mmap' = [k \in BucketSizes |-> 0]
    BY DEF Close
<1>4. \A b \in Bos : bo'[b] = NoBo
    BY <1>3
<1>5. BosOK'
    BY <1>3, <1>4, NoBoOK DEF BosOK
<1>6. TablesOK'
    BY <1>2, <1>3, <1>4 DEF TablesOK, NoDanglingEntry, InTable, TableOpen, NoBo
<1>7. \A k : InBucket(k)' = {} /\ MmapInBucket(k)' = {}
    <2>1. ASSUME NEW k PROVE InBucket(k)' = {}
        BY <1>4 DEF InBucket, Cached, NoBo
    <2>2. ASSUME NEW k PROVE MmapInBucket(k)' = {}
        BY <1>4, NoBoOK DEF MmapInBucket, MmapCached
    <2>. QED
        BY <2>1, <2>2
<1>8. EntriesOK' /\ MmapOK'
    BY <1>3, <1>7, FS_EmptySet DEF EntriesOK, MmapOK
<1>. QED
    BY <1>1, <1>5, <1>6, <1>8 DEF IInv

LEMMA TickInv ==
    ASSUME IInv, Tick
    PROVE  IInv'
<1>. DEFINE Older(a) == IF a < FewTime THEN a + 1 ELSE a
            f(x) == IF x \in Cached THEN Older(bo[x].free_age) ELSE bo[x].free_age
            u(x) == IF x \in MmapCached THEN Older(bo[x].unmap_age) ELSE bo[x].unmap_age
<1>1. bo' = [x \in Bos |-> [bo[x] EXCEPT !.free_age = f(x), !.unmap_age = u(x)]]
    BY DEF Tick
<1>2. ASSUME NEW x \in Bos
      PROVE  RecOK(bo'[x]) /\ Placed(bo'[x], bo[x])
    <2>1. RecOK(bo[x])
        BY DEF IInv, BosOK
    <2>2. bo[x].free_age \in Age /\ bo[x].unmap_age \in Age
        BY <2>1, BoFields DEF RecOK
    <2>3. f(x) \in Age /\ u(x) \in Age
        BY <2>2, BoCacheAssumption DEF Age
    <2>4. ~ bo[x].live => f(x) = bo[x].free_age /\ u(x) = bo[x].unmap_age
        BY <2>1, AliveRec DEF Cached, MmapCached
    <2>5. bo'[x] = [bo[x] EXCEPT !.free_age = f(x), !.unmap_age = u(x)]
        BY <1>1
    <2>. HIDE DEF f, u
    <2>. QED
        BY <2>1, <2>3, <2>4, <2>5, AgeRec
<1>3. BosOK'
    <2>1. bo' = [x \in Bos |-> bo'[x]]
        BY <1>1
    <2>. QED
        BY <1>2, <2>1 DEF BosOK
<1>4. UNCHANGED <<tables, num_entries, num_mmap, crashed>> /\ cleaned' = FALSE /\ mmap_cleaned' = FALSE
    BY DEF Tick
<1>. HIDE DEF f, u
<1>5. TablesOK'
    BY <1>2, <1>4, SameTables DEF IInv, Alike, Placed
<1>6. EntriesOK'
    <2>1. \A k : InBucket(k)' = InBucket(k)
        BY <1>2, SameCounts DEF Placed
    <2>. QED
        BY <1>4, <2>1 DEF EntriesOK, IInv
<1>7. MmapOK'
    <2>1. \A k : MmapInBucket(k)' = MmapInBucket(k)
        BY <1>2, SameMmaps DEF Placed
    <2>. QED
        BY <1>4, <2>1 DEF MmapOK, IInv
<1>8. FlagsOK'
    BY <1>4 DEF FlagsOK, IInv
<1>. QED
    BY <1>3, <1>5, <1>6, <1>7, <1>8 DEF IInv

LEMMA StutterInv ==
    ASSUME IInv, UNCHANGED vars
    PROVE  IInv'
<1>1. /\ bo' = bo /\ UNCHANGED tables /\ UNCHANGED buckets /\ UNCHANGED mmaps
      /\ crashed' = crashed
    BY DEF vars, tables, buckets, mmaps
<1>2. \A k : InBucket(k)' = InBucket(k) /\ MmapInBucket(k)' = MmapInBucket(k)
    BY <1>1, BucketSets
<1>3. TablesOK'
    BY <1>1, SameTables DEF IInv, Alike
<1>. QED
    BY <1>1, <1>2, <1>3 DEF IInv, BosOK, EntriesOK, MmapOK, FlagsOK, buckets, mmaps

-----------------------------------------------------------------------------
(* Every call keeps the invariant.                                         *)

LEMMA NextInv == IInv /\ [Next]_vars => IInv'
<1>. SUFFICES ASSUME IInv, [Next]_vars PROVE IInv'
    OBVIOUS
<1>1. CASE UNCHANGED vars
    BY <1>1, StutterInv
<1>2. ASSUME NEW size \in Sizes, NewFromCache(size) PROVE IInv'
    BY <1>2, NewFromCacheInv
<1>3. ASSUME NEW size \in Sizes, NewCreated(size) PROVE IInv'
    BY <1>3, NewCreatedInv
<1>4. ASSUME NEW size \in Sizes, NEW h \in Handles, Wrap(h, size) PROVE IInv'
    BY <1>4, WrapInv
<1>5. ASSUME NEW size \in Sizes, NEW h \in Handles, FromDmabuf(h, size) PROVE IInv'
    BY <1>5, FromDmabufInv
<1>6. ASSUME NEW size \in Sizes, NEW n \in Names, FromName(n, size) PROVE IInv'
    BY <1>6, FromNameInv
<1>7. ASSUME NEW h \in Handles, FromHandle(h) PROVE IInv'
    BY <1>7, FromHandleInv
<1>8. ASSUME NEW b \in Bos, Ref(b) PROVE IInv'
    BY <1>8, RefInv
<1>9. ASSUME NEW b \in Bos, UnrefOne(b) PROVE IInv'
    BY <1>9, UnrefOneInv
<1>10. ASSUME NEW b \in Bos, UnrefToCache(b) PROVE IInv'
    BY <1>10, UnrefToCacheInv
<1>11. ASSUME NEW b \in Bos, UnrefFree(b) PROVE IInv'
    BY <1>11, UnrefFreeInv
<1>12. ASSUME NEW b \in Bos, Map(b) PROVE IInv'
    BY <1>12, MapInv
<1>13. ASSUME NEW b \in Bos, Unmap(b) PROVE IInv'
    BY <1>13, UnmapInv
<1>14. ASSUME NEW b \in Bos, GetName(b) PROVE IInv'
    BY <1>14, GetNameInv
<1>15. ASSUME NEW b \in Bos, ForbidCaching(b) PROVE IInv'
    BY <1>15, ForbidCachingInv
<1>16. CASE Close
    BY <1>16, CloseInv
<1>17. CASE Tick
    BY <1>17, TickInv
<1>. QED
    BY <1>1, <1>2, <1>3, <1>4, <1>5, <1>6, <1>7, <1>8, <1>9, <1>10, <1>11,
       <1>12, <1>13, <1>14, <1>15, <1>16, <1>17 DEF Next

\* The inductive invariant holds of every reachable state.
THEOREM Invariance == Spec => []IInv
<1>1. Init => IInv
    BY InitInv
<1>2. IInv /\ [Next]_vars => IInv'
    BY NextInv
<1>. QED
    BY <1>1, <1>2, PTL DEF Spec

\* Every variable keeps its type, whatever is called.
THEOREM TypeCorrect == Spec => []TypeOK
<1>1. IInv => TypeOK
    <2>1. IInv => bo \in [Bos -> Bo]
        BY DEF IInv, BosOK, RecOK
    <2>. QED
        BY <2>1 DEF IInv, TypeOK, TablesOK, EntriesOK, MmapOK, FlagsOK
<1>. QED
    BY <1>1, Invariance, PTL

\* A BO that somebody holds is neither freed nor up for reuse.
THEOREM HeldAlways == Spec => []HeldStays
<1>1. IInv => HeldStays
    BY DEF IInv, BosOK, RecOK, HeldStays
<1>. QED
    BY <1>1, Invariance, PTL

\* A BO in a bucket has no owner, and its handle leads to it.
THEOREM IdleAlways == Spec => []CachedIsIdle
<1>1. IInv => CachedIsIdle
    <2>. SUFFICES ASSUME IInv, NEW b \in Cached
                  PROVE  /\ bo[b].ref = 0 /\ bo[b].holds = 0 /\ bo[b].reuse
                         /\ Bucket(b) # None /\ handle_table[bo[b].handle] = b
        BY DEF CachedIsIdle
    <2>1. b \in Bos /\ bo[b].bo_list = "bucket" /\ RecOK(bo[b])
        BY DEF Cached, IInv, BosOK
    <2>2. bo[b].live
        BY <2>1, AliveRec
    <2>3. handle_table[bo[b].handle] = b
        BY <2>1, <2>2 DEF IInv, TablesOK, InTable
    <2>. QED
        BY <2>1, <2>3 DEF RecOK, Bucket
<1>. QED
    BY <1>1, Invariance, PTL

\* Recycling never takes a BO from its holder.
THEOREM RecyclingAlways == Spec => []RecyclingSafe
<1>1. HeldStays /\ CachedIsIdle => RecyclingSafe
    BY DEF RecyclingSafe
<1>. QED
    BY <1>1, HeldAlways, IdleAlways, PTL

\* The tables never lead to a freed struct.
THEOREM TablesAlways == Spec => []NoDanglingEntry
<1>1. IInv => NoDanglingEntry
    BY DEF IInv, TablesOK
<1>. QED
    BY <1>1, Invariance, PTL

\* The counts of the buckets are those of their lists.
THEOREM CountsAlways == Spec => []CountsExact
<1>1. IInv => CountsExact
    BY DEF IInv, EntriesOK, MmapOK, CountsExact
<1>. QED
    BY <1>1, Invariance, PTL

\* The mapping of a BO that a client has mapped stays.
THEOREM MappingAlways == Spec => []MappingStays
<1>1. IInv => MappingStays
    <2>. SUFFICES ASSUME IInv, NEW b \in Bos
                  PROVE  /\ bo[b].maps > 0 => bo[b].map
                         /\ ~ (bo[b].map /\ bo[b].map_cached)
                         /\ bo[b].map_cached => bo[b].live
        BY DEF MappingStays
    <2>1. RecOK(bo[b])
        BY DEF IInv, BosOK
    <2>. QED
        BY <2>1, AliveRec DEF RecOK
<1>. QED
    BY <1>1, Invariance, PTL

-----------------------------------------------------------------------------
(* Which handle each struct stands for.                                    *)

\* The structs stand for the handles they stood for.
SameFaces ==
    /\ UNCHANGED <<handle_table, opened>>
    /\ \A x \in Bos : bo'[x].live = bo[x].live /\ bo'[x].handle = bo[x].handle

\* What the balances say of a struct is the same for r as for s.
SameBalance(r, s) ==
    /\ r.live = s.live /\ r.handle = s.handle /\ r.name = s.name
    /\ r.bo_list = s.bo_list /\ r.ref = s.ref /\ r.holds = s.holds
    /\ r.mmap_ref = s.mmap_ref /\ r.maps = s.maps

LEMMA FacesTable ==
    ASSUME AllInTable, SameFaces
    PROVE  AllInTable'
BY DEF AllInTable, SameFaces

LEMMA FacesBalance ==
    ASSUME SameFaces
    PROVE  /\ HandlesBalanced => HandlesBalanced'
           /\ NoEvilTwins => NoEvilTwins'
<1>1. ASSUME HandlesBalanced PROVE HandlesBalanced'
    <2>1. {bo[b].handle : b \in {x \in Bos : bo[x].live}} =
          {bo'[b].handle : b \in {x \in Bos : bo'[x].live}}
        BY DEF SameFaces
    <2>. QED
        BY <1>1, <2>1 DEF HandlesBalanced, SameFaces
<1>2. ASSUME NoEvilTwins PROVE NoEvilTwins'
    BY <1>2 DEF NoEvilTwins, SameFaces
<1>. QED
    BY <1>1, <1>2

LEMMA CrashSame ==
    ASSUME NEW why, Crash(why)
    PROVE  SameFaces /\ bo' = bo
BY DEF Crash, SameFaces, tables

\* A struct changes, but not what it stands for.
LEMMA OneFace ==
    ASSUME BosOK, NEW b \in Bos, NEW r, r.live = bo[b].live, r.handle = bo[b].handle,
           bo' = [bo EXCEPT ![b] = r], UNCHANGED <<handle_table, opened>>
    PROVE  SameFaces /\ bo'[b] = r /\ \A x \in Bos : x # b => bo'[x] = bo[x]
<1>1. DOMAIN bo = Bos
    BY DEF BosOK
<1>2. bo'[b] = r /\ \A x \in Bos : x # b => bo'[x] = bo[x]
    BY <1>1
<1>. QED
    BY <1>2 DEF SameFaces

\* drm_tegra_bo_cache_unmap() leaves references and mappings alone.
LEMMA StashBalance ==
    ASSUME BosOK, NEW b \in Bos, NEW r \in Bo, ToMmapCache(b, r)
    PROVE  /\ SameBalance(bo'[b], r)
           /\ \A x \in Bos : x # b => SameBalance(bo'[x], bo[x])
<1>1. PICK M \in MmapCleanup :
         bo' = [x \in Bos |->
               IF x = b THEN [r EXCEPT !.map = FALSE, !.map_cached = TRUE, !.unmap_age = 0]
               ELSE IF x \in M THEN [bo[x] EXCEPT !.map_cached = FALSE, !.unmap_age = 0]
               ELSE bo[x]]
    BY DEF ToMmapCache
<1>2. bo'[b] = [r EXCEPT !.map = FALSE, !.map_cached = TRUE, !.unmap_age = 0]
    BY <1>1
<1>3. SameBalance(bo'[b], r)
    BY <1>2 DEF Bo, SameBalance
<1>4. ASSUME NEW x \in Bos, x # b
      PROVE  SameBalance(bo'[x], bo[x])
    <2>1. bo[x] \in Bo
        BY DEF BosOK, RecOK
    <2>2. CASE x \in M
        <3>1. bo'[x] = [bo[x] EXCEPT !.map_cached = FALSE, !.unmap_age = 0]
            BY <1>1, <1>4, <2>2
        <3>. QED
            BY <2>1, <3>1 DEF Bo, SameBalance
    <2>3. CASE x \notin M
        <3>1. bo'[x] = bo[x]
            BY <1>1, <1>4, <2>3
        <3>. QED
            BY <3>1 DEF SameBalance
    <2>. QED
        BY <2>2, <2>3
<1>. QED
    BY <1>3, <1>4

\* A BO leaves its bucket with x references, one of them a client's.
LEMMA TakeOutBalance ==
    ASSUME IInv, NEW b \in Bos, bo[b].bo_list = "bucket", NEW x \in {1, 2},
           TakeOut(b, [bo[b] EXCEPT !.ref = x, !.holds = 1]),
           UNCHANGED tables
    PROVE  /\ SameFaces
           /\ bo'[b].live /\ bo'[b].name = bo[b].name
           /\ bo'[b].bo_list = "self" /\ bo'[b].ref = x /\ bo'[b].holds = 1
           /\ bo'[b].mmap_ref = 0 /\ bo'[b].maps = 0
           /\ \A y \in Bos : y # b => SameBalance(bo'[y], bo[y])
<1>. DEFINE s == Taken(bo[b], x)
<1>1. RecOK(bo[b])
    BY DEF IInv, BosOK
<1>2. /\ s \in Bo /\ Alike(s, bo[b])
      /\ s.live /\ s.maps = 0 /\ s.bo_list = "self"
      /\ s.ref = x /\ s.holds = 1 /\ s.mmap_ref = 0
    BY <1>1, TakeOutRec DEF RecOK
<1>3. IF bo[b].map THEN ToMmapCache(b, s)
      ELSE bo' = [bo EXCEPT ![b] = s]
    BY DEF TakeOut, ResetBo, Taken, Granted, Unlinked
<1>. HIDE DEF s
<1>4. /\ SameBalance(bo'[b], s)
      /\ \A y \in Bos : y # b => SameBalance(bo'[y], bo[y])
    <2>1. CASE bo[b].map
        BY <1>2, <1>3, <2>1, StashBalance DEF IInv
    <2>2. CASE ~ bo[b].map
        <3>1. bo'[b] = s /\ \A y \in Bos : y # b => bo'[y] = bo[y]
            BY <1>3, <2>2 DEF IInv, BosOK
        <3>. QED
            BY <3>1 DEF SameBalance
    <2>. QED
        BY <2>1, <2>2
<1>5. SameFaces
    <2>1. ASSUME NEW y \in Bos
          PROVE  bo'[y].live = bo[y].live /\ bo'[y].handle = bo[y].handle
        BY <1>2, <1>4 DEF SameBalance, Alike
    <2>. QED
        BY <2>1 DEF SameFaces, tables
<1>. QED
    BY <1>2, <1>4, <1>5 DEF SameBalance, Alike

-----------------------------------------------------------------------------
(* Most calls leave every struct the handle it stands for.                 *)

LEMMA LookupFaces ==
    ASSUME IInv, NEW b \in Bos, LookupBo(b)
    PROVE  SameFaces
<1>1. CASE Crash("list") \/ Crash("bucket")
    BY <1>1, CrashSame
<1>2. CASE /\ bo[b].bo_list = "bucket"
           /\ TakeOut(b, [bo[b] EXCEPT !.ref = 2, !.holds = 1])
           /\ UNCHANGED <<tables, cleaned, crashed>>
    BY <1>2, TakeOutBalance
<1>3. CASE /\ bo' = [bo EXCEPT ![b].ref = @ + 1, ![b].holds = @ + 1]
           /\ UNCHANGED <<tables, buckets, mmaps, crashed>>
    <2>. DEFINE r == [bo[b] EXCEPT !.ref = bo[b].ref + 1, !.holds = bo[b].holds + 1]
    <2>1. r.live = bo[b].live /\ r.handle = bo[b].handle
        BY DEF IInv, BosOK, RecOK, Bo
    <2>2. bo' = [bo EXCEPT ![b] = r]
        BY <1>3
    <2>. HIDE DEF r
    <2>. QED
        BY <1>3, <2>1, <2>2, OneFace DEF IInv, tables
<1>. QED
    BY <1>1, <1>2, <1>3 DEF LookupBo

LEMMA NewFromCacheFaces ==
    ASSUME IInv, NEW size, NewFromCache(size)
    PROVE  SameFaces
<1>1. PICK b \in Heads(GetBucket(size)) :
         IF bo[b].map /\ ReadsNoBucket THEN Crash("bucket")
         ELSE /\ TakeOut(b, [bo[b] EXCEPT !.ref = 1, !.holds = 1])
              /\ UNCHANGED <<tables, cleaned, crashed>>
    BY DEF NewFromCache
<1>2. b \in Bos /\ bo[b].bo_list = "bucket"
    BY DEF Heads, InBucket, Cached
<1>3. CASE Crash("bucket")
    BY <1>3, CrashSame
<1>4. CASE ~ Crash("bucket")
    BY <1>1, <1>2, <1>4, TakeOutBalance
<1>. QED
    BY <1>3, <1>4

LEMMA RefFaces ==
    ASSUME IInv, NEW b \in Bos, Ref(b)
    PROVE  /\ SameFaces
           /\ bo'[b] = [bo[b] EXCEPT !.ref = bo[b].ref + 1, !.holds = bo[b].holds + 1]
           /\ \A x \in Bos : x # b => bo'[x] = bo[x]
<1>. DEFINE r == [bo[b] EXCEPT !.ref = bo[b].ref + 1, !.holds = bo[b].holds + 1]
<1>1. r.live = bo[b].live /\ r.handle = bo[b].handle
    BY DEF IInv, BosOK, RecOK, Bo
<1>2. bo' = [bo EXCEPT ![b] = r] /\ UNCHANGED <<handle_table, opened>>
    BY DEF Ref, tables
<1>. HIDE DEF r
<1>3. SameFaces /\ bo'[b] = r /\ \A x \in Bos : x # b => bo'[x] = bo[x]
    BY <1>1, <1>2, OneFace DEF IInv
<1>. QED
    BY <1>3 DEF r

LEMMA UnrefOneFaces ==
    ASSUME IInv, NEW b \in Bos, UnrefOne(b)
    PROVE  /\ SameFaces
           /\ bo'[b] = [bo[b] EXCEPT !.ref = bo[b].ref - 1, !.holds = bo[b].holds - 1,
                                     !.maps = IF bo[b].holds = 1 THEN 0 ELSE bo[b].maps]
           /\ \A x \in Bos : x # b => bo'[x] = bo[x]
<1>. DEFINE r == [bo[b] EXCEPT !.ref = bo[b].ref - 1, !.holds = bo[b].holds - 1,
                               !.maps = IF bo[b].holds = 1 THEN 0 ELSE bo[b].maps]
<1>1. r.live = bo[b].live /\ r.handle = bo[b].handle
    BY DEF IInv, BosOK, RecOK, Bo
<1>2. bo' = [bo EXCEPT ![b] = r] /\ UNCHANGED <<handle_table, opened>>
    <2>1. DOMAIN bo = Bos /\ bo[b] \in Bo
        BY DEF IInv, BosOK, RecOK
    <2>. QED
        BY <2>1 DEF UnrefOne, tables, Bo
<1>. HIDE DEF r
<1>3. SameFaces /\ bo'[b] = r /\ \A x \in Bos : x # b => bo'[x] = bo[x]
    BY <1>1, <1>2, OneFace DEF IInv
<1>. QED
    BY <1>3 DEF r

\* A mapping made or found.
LEMMA MapFaces ==
    ASSUME IInv, NEW b \in Bos, Map(b)
    PROVE  /\ SameFaces
           /\ \A x \in Bos : x # b => bo'[x] = bo[x]
           /\ bo'[b].name = bo[b].name /\ bo'[b].bo_list = bo[b].bo_list
           /\ bo'[b].ref = bo[b].ref /\ bo'[b].holds = bo[b].holds
           /\ bo'[b].mmap_ref = bo[b].mmap_ref + 1
           /\ ~ MapMayFail => bo'[b].maps = bo[b].maps + 1
<1>. DEFINE Good(r) == /\ r.live = bo[b].live /\ r.handle = bo[b].handle
                       /\ r.name = bo[b].name /\ r.bo_list = bo[b].bo_list
                       /\ r.ref = bo[b].ref /\ r.holds = bo[b].holds
                       /\ r.mmap_ref = bo[b].mmap_ref + 1
                       /\ ~ MapMayFail => r.maps = bo[b].maps + 1
<1>1. DOMAIN bo = Bos /\ bo[b] \in Bo
    BY DEF IInv, BosOK, RecOK
<1>2. \E r : Good(r) /\ bo' = [bo EXCEPT ![b] = r]
    <2>1. CASE bo' = [bo EXCEPT ![b].mmap_ref = @ + 1, ![b].maps = @ + 1]
        <3>. DEFINE r == [bo[b] EXCEPT !.mmap_ref = bo[b].mmap_ref + 1,
                                       !.maps = bo[b].maps + 1]
        <3>1. bo' = [bo EXCEPT ![b] = r]
            BY <1>1, <2>1
        <3>2. Good(r)
            BY <1>1 DEF Bo
        <3>. QED
            BY <3>1, <3>2
    <2>2. CASE bo' = [bo EXCEPT ![b].mmap_ref = @ + 1, ![b].maps = @ + 1,
                                ![b].map = TRUE, ![b].map_cached = FALSE,
                                ![b].unmap_age = 0]
        <3>. DEFINE r == [bo[b] EXCEPT !.mmap_ref = bo[b].mmap_ref + 1,
                                       !.maps = bo[b].maps + 1, !.map = TRUE,
                                       !.map_cached = FALSE, !.unmap_age = 0]
        <3>1. bo' = [bo EXCEPT ![b] = r]
            BY <1>1, <2>2
        <3>2. Good(r)
            BY <1>1 DEF Bo
        <3>. QED
            BY <3>1, <3>2
    <2>3. CASE MapMayFail /\ bo' = [bo EXCEPT ![b].mmap_ref = @ + 1]
        <3>. DEFINE r == [bo[b] EXCEPT !.mmap_ref = bo[b].mmap_ref + 1]
        <3>1. bo' = [bo EXCEPT ![b] = r]
            BY <1>1, <2>3
        <3>2. Good(r)
            BY <1>1, <2>3 DEF Bo
        <3>. QED
            BY <3>1, <3>2
    <2>. QED
        BY <2>1, <2>2, <2>3 DEF Map
<1>3. PICK r : Good(r) /\ bo' = [bo EXCEPT ![b] = r]
    BY <1>2
<1>4. SameFaces /\ bo'[b] = r /\ \A x \in Bos : x # b => bo'[x] = bo[x]
    <2>1. UNCHANGED <<handle_table, opened>>
        BY DEF Map, tables
    <2>. QED
        BY <1>3, <2>1, OneFace DEF IInv
<1>. QED
    BY <1>3, <1>4

\* A mapping given up, if the process survives.
LEMMA UnmapFaces ==
    ASSUME IInv, NEW b \in Bos, Unmap(b)
    PROVE  /\ SameFaces
           /\ \/ bo' = bo
              \/ /\ \A x \in Bos : x # b => SameBalance(bo'[x], bo[x])
                 /\ bo'[b].name = bo[b].name /\ bo'[b].bo_list = bo[b].bo_list
                 /\ bo'[b].ref = bo[b].ref /\ bo'[b].holds = bo[b].holds
                 /\ bo'[b].mmap_ref = bo[b].mmap_ref - 1
                 /\ bo'[b].maps = bo[b].maps - 1
<1>1. DOMAIN bo = Bos /\ bo[b] \in Bo /\ RecOK(bo[b])
    BY DEF IInv, BosOK, RecOK
<1>2. /\ bo[b].maps > 0 /\ bo[b].map
      /\ bo[b].maps \in Nat /\ bo[b].mmap_ref \in Nat
      /\ bo[b].maps <= bo[b].mmap_ref
    BY <1>1, BoFields DEF RecOK, Unmap
<1>3. PICK m \in Nat, k \in Nat : m = bo[b].mmap_ref - 1 /\ k = bo[b].maps - 1
    <2>1. bo[b].mmap_ref - 1 \in Nat /\ bo[b].maps - 1 \in Nat
        BY <1>2
    <2>. QED
        BY <2>1
<1>. DEFINE r == [bo[b] EXCEPT !.mmap_ref = m, !.maps = k]
<1>4. /\ r \in Bo
      /\ r.live = bo[b].live /\ r.handle = bo[b].handle
      /\ r.name = bo[b].name /\ r.bo_list = bo[b].bo_list
      /\ r.ref = bo[b].ref /\ r.holds = bo[b].holds
      /\ r.mmap_ref = m /\ r.maps = k
    BY <1>1 DEF Bo
<1>5. \/ Crash("bucket")
      \/ /\ ToMmapCache(b, r) \/ bo' = [bo EXCEPT ![b] = r]
         /\ UNCHANGED <<handle_table, opened>>
    <2>1. CASE bo[b].mmap_ref = 1
        <3>1. r = [bo[b] EXCEPT !.mmap_ref = 0, !.maps = bo[b].maps - 1]
            BY <1>3, <2>1
        <3>. HIDE DEF r
        <3>2. Crash("bucket") \/ (ToMmapCache(b, r) /\ UNCHANGED tables)
            BY <1>2, <2>1, <3>1 DEF Unmap
        <3>. QED
            BY <3>2 DEF tables
    <2>2. CASE bo[b].mmap_ref # 1
        <3>1. /\ bo' = [bo EXCEPT ![b].mmap_ref = bo[b].mmap_ref - 1,
                                 ![b].maps = bo[b].maps - 1]
              /\ UNCHANGED tables
            BY <1>1, <1>2, <2>2 DEF Unmap
        <3>2. bo' = [bo EXCEPT ![b] = r]
            BY <1>1, <1>3, <3>1
        <3>. HIDE DEF r
        <3>. QED
            BY <3>1, <3>2 DEF tables
    <2>. QED
        BY <2>1, <2>2
<1>. HIDE DEF r
<1>6. CASE Crash("bucket")
    BY <1>6, CrashSame
<1>7. CASE ToMmapCache(b, r) /\ UNCHANGED <<handle_table, opened>>
    <2>1. /\ SameBalance(bo'[b], r)
          /\ \A x \in Bos : x # b => SameBalance(bo'[x], bo[x])
        BY <1>4, <1>7, StashBalance DEF IInv
    <2>2. ASSUME NEW y \in Bos
          PROVE  bo'[y].live = bo[y].live /\ bo'[y].handle = bo[y].handle
        BY <1>4, <2>1 DEF SameBalance
    <2>. QED
        BY <1>4, <1>7, <1>3, <2>1, <2>2 DEF SameBalance, SameFaces
<1>8. CASE bo' = [bo EXCEPT ![b] = r] /\ UNCHANGED <<handle_table, opened>>
    <2>1. SameFaces /\ bo'[b] = r /\ \A x \in Bos : x # b => bo'[x] = bo[x]
        BY <1>4, <1>8, OneFace DEF IInv
    <2>. QED
        BY <1>4, <1>3, <2>1 DEF SameBalance
<1>. QED
    BY <1>5, <1>6, <1>7, <1>8

LEMMA GetNameFaces ==
    ASSUME IInv, NEW b \in Bos, GetName(b)
    PROVE  SameFaces
<1>1. PICK n \in Names : bo' = [bo EXCEPT ![b].name = n]
    BY DEF GetName
<1>. DEFINE r == [bo[b] EXCEPT !.name = n]
<1>2. r.live = bo[b].live /\ r.handle = bo[b].handle
    BY DEF IInv, BosOK, RecOK, Bo
<1>3. bo' = [bo EXCEPT ![b] = r] /\ UNCHANGED <<handle_table, opened>>
    BY <1>1 DEF GetName
<1>. HIDE DEF r
<1>. QED
    BY <1>2, <1>3, OneFace DEF IInv

LEMMA ForbidFaces ==
    ASSUME IInv, NEW b \in Bos, ForbidCaching(b)
    PROVE  /\ SameFaces
           /\ \A x \in Bos : SameBalance(bo'[x], bo[x])
<1>. DEFINE r == [bo[b] EXCEPT !.reuse = FALSE]
<1>1. SameBalance(r, bo[b])
    BY DEF IInv, BosOK, RecOK, Bo, SameBalance
<1>2. bo' = [bo EXCEPT ![b] = r] /\ UNCHANGED <<handle_table, opened>>
    BY DEF ForbidCaching, tables
<1>. HIDE DEF r
<1>3. SameFaces /\ bo'[b] = r /\ \A x \in Bos : x # b => bo'[x] = bo[x]
    BY <1>1, <1>2, OneFace DEF IInv, SameBalance
<1>. QED
    BY <1>1, <1>3 DEF SameBalance

LEMMA TickFaces ==
    ASSUME IInv, Tick
    PROVE  /\ SameFaces
           /\ \A x \in Bos : SameBalance(bo'[x], bo[x])
<1>. DEFINE Older(a) == IF a < FewTime THEN a + 1 ELSE a
            f(x) == IF x \in Cached THEN Older(bo[x].free_age) ELSE bo[x].free_age
            u(x) == IF x \in MmapCached THEN Older(bo[x].unmap_age) ELSE bo[x].unmap_age
<1>1. bo' = [x \in Bos |-> [bo[x] EXCEPT !.free_age = f(x), !.unmap_age = u(x)]]
    BY DEF Tick
<1>. HIDE DEF f, u
<1>2. ASSUME NEW x \in Bos PROVE SameBalance(bo'[x], bo[x])
    <2>1. bo[x] \in Bo
        BY DEF IInv, BosOK, RecOK
    <2>2. bo'[x] = [bo[x] EXCEPT !.free_age = f(x), !.unmap_age = u(x)]
        BY <1>1
    <2>. QED
        BY <2>1, <2>2 DEF Bo, SameBalance
<1>3. UNCHANGED <<handle_table, opened>>
    BY DEF Tick, tables
<1>. QED
    BY <1>2, <1>3 DEF SameFaces, SameBalance

-----------------------------------------------------------------------------
(* Without names the table of handles leads to every struct.               *)

\* A new struct enters the table.
LEMMA EnterFaces ==
    ASSUME IInv, NEW b \in Bos, ~ bo[b].live, NEW h \in Handles, NEW r,
           r.live, r.handle = h,
           bo' = [bo EXCEPT ![b] = r], handle_table[h] = None,
           handle_table' = [handle_table EXCEPT ![h] = b], AllInTable
    PROVE  AllInTable'
<1>1. DOMAIN bo = Bos /\ DOMAIN handle_table = Handles
    BY DEF IInv, BosOK, TablesOK
<1>2. bo'[b] = r /\ \A x \in Bos : x # b => bo'[x] = bo[x]
    BY <1>1
<1>3. ASSUME NEW x \in Bos, bo'[x].live PROVE handle_table'[bo'[x].handle] = x
    <2>1. CASE x = b
        BY <1>1, <1>2, <2>1
    <2>2. CASE x # b
        <3>1. bo[x].live /\ handle_table[bo[x].handle] = x
            BY <1>2, <1>3, <2>2 DEF AllInTable
        <3>2. bo[x].handle # h
            BY <3>1, BoCacheAssumption
        <3>. QED
            BY <1>1, <1>2, <2>2, <3>1, <3>2
    <2>. QED
        BY <2>1, <2>2
<1>. QED
    BY <1>3 DEF AllInTable

\* The structs of F are freed; b is another one, or it is kept as it is.
LEMMA ForgetFaces ==
    ASSUME IInv, NEW F \in SUBSET Bos, Forget(F), AllInTable,
           \A x \in F : bo[x].live /\ bo'[x] = NoBo,
           \A x \in Bos \ F : bo'[x].live = bo[x].live /\ bo'[x].handle = bo[x].handle
    PROVE  AllInTable'
<1>1. ASSUME NEW x \in Bos, bo'[x].live PROVE handle_table'[bo'[x].handle] = x
    <2>1. x \notin F
        BY <1>1 DEF NoBo
    <2>2. bo[x].live /\ bo'[x].handle = bo[x].handle /\ bo[x].handle \in Handles
        BY <1>1, <2>1, AliveRec DEF IInv, BosOK
    <2>3. handle_table[bo[x].handle] = x
        BY <2>2 DEF AllInTable
    <2>4. ~ \E y \in F : bo[y].handle = bo[x].handle
        BY <2>1, <2>3 DEF AllInTable
    <2>. QED
        BY <2>2, <2>3, <2>4 DEF Forget
<1>. QED
    BY <1>1 DEF AllInTable

\* What the last reference to a BO lets go of.
LEMMA UnrefToCacheFaces ==
    ASSUME IInv, NEW b \in Bos, UnrefToCache(b)
    PROVE  \E F \in SUBSET Bos :
             /\ Forget(F) /\ b \notin F
             /\ \A x \in F : bo[x].live /\ bo'[x] = NoBo
             /\ \A x \in Bos \ F : x # b => bo'[x] = bo[x]
             /\ bo'[b].live = bo[b].live /\ bo'[b].handle = bo[b].handle
             /\ bo'[b].name = bo[b].name /\ bo'[b].bo_list = "bucket"
             /\ bo'[b].ref = 0 /\ bo'[b].holds = bo[b].holds - 1
<1>1. PICK F \in CacheCleanup :
         /\ Forget(F)
         /\ bo' = [x \in Bos |->
               IF x \in F THEN NoBo
               ELSE IF x = b THEN [bo[b] EXCEPT !.ref = 0, !.holds = @ - 1, !.maps = 0,
                                                !.bo_list = "bucket", !.free_age = 0]
               ELSE bo[x]]
    BY DEF UnrefToCache
<1>2. F \subseteq Cached /\ F \subseteq Bos
    BY CacheCleanupFact DEF Cached
<1>3. bo[b].holds > 0 /\ \A x \in Bos : RecOK(bo[x])
    BY DEF UnrefToCache, IInv, BosOK
<1>4. b \notin F
    BY <1>2, <1>3 DEF Cached, RecOK
<1>5. \A x \in F : bo[x].live /\ bo'[x] = NoBo
    BY <1>1, <1>2, <1>3, AliveRec DEF Cached
<1>6. bo'[b] = [bo[b] EXCEPT !.ref = 0, !.holds = bo[b].holds - 1, !.maps = 0,
                             !.bo_list = "bucket", !.free_age = 0]
    BY <1>1, <1>4
<1>7. /\ bo'[b].live = bo[b].live /\ bo'[b].handle = bo[b].handle
      /\ bo'[b].name = bo[b].name /\ bo'[b].bo_list = "bucket"
      /\ bo'[b].ref = 0 /\ bo'[b].holds = bo[b].holds - 1
    <2>1. bo[b] \in Bo
        BY <1>3 DEF RecOK
    <2>. QED
        BY <1>6, <2>1 DEF Bo
<1>8. \A x \in Bos \ F : x # b => bo'[x] = bo[x]
    BY <1>1
<1>. QED
    BY <1>1, <1>2, <1>4, <1>5, <1>7, <1>8

LEMMA UnrefFreeFaces ==
    ASSUME IInv, NEW b \in Bos, UnrefFree(b), ~ Crash("list")
    PROVE  /\ Forget({b}) /\ bo[b].live /\ bo'[b] = NoBo
           /\ \A x \in Bos : x # b => bo'[x] = bo[x]
<1>1. DOMAIN bo = Bos
    BY DEF IInv, BosOK
<1>2. bo[b].live
    BY AliveRec DEF UnrefFree, IInv, BosOK
<1>. QED
    BY <1>1, <1>2 DEF UnrefFree

LEMMA TableNext ==
    ASSUME "from_name" \notin Calls, IInv, AllInTable, [Next]_vars
    PROVE  AllInTable'
<1>1. CASE SameFaces
    BY <1>1, FacesTable
<1>2. CASE UNCHANGED vars
    BY <1>2 DEF vars, AllInTable
<1>3. ASSUME NEW size \in Sizes, NewFromCache(size) PROVE AllInTable'
    BY <1>3, NewFromCacheFaces, FacesTable
<1>4. ASSUME NEW size \in Sizes, NewCreated(size) PROVE AllInTable'
    <2>. DEFINE full == IF GetBucket(size) = None THEN size ELSE GetBucket(size)
    <2>1. PICK b \in Bos, h \in Handles \ opened :
              /\ ~ bo[b].live
              /\ bo' = [bo EXCEPT ![b] = NewBo(h, None, full, "self", TRUE)]
              /\ handle_table' = [handle_table EXCEPT ![h] = b]
        BY <1>4 DEF NewCreated
    <2>2. handle_table[h] = None
        BY DEF IInv, TablesOK, TableOpen
    <2>. HIDE DEF full
    <2>. DEFINE r == NewBo(h, None, full, "self", TRUE)
    <2>3. r.live /\ r.handle = h
        BY DEF NewBo
    <2>. HIDE DEF r
    <2>. QED
        BY <2>1, <2>2, <2>3, EnterFaces DEF r
<1>5. ASSUME NEW size \in Sizes, NEW h \in Handles, Wrap(h, size) PROVE AllInTable'
    <2>1. CASE handle_table[h] # None
        <3>1. handle_table[h] \in Bos /\ LookupBo(handle_table[h])
            BY <1>5, <2>1, EntryLives DEF Wrap
        <3>. QED
            BY <3>1, LookupFaces, FacesTable
    <2>2. CASE handle_table[h] = None
        <3>1. PICK b \in Bos :
                 /\ ~ bo[b].live
                 /\ bo' = [bo EXCEPT ![b] = NewBo(h, None, size, "self", FALSE)]
                 /\ handle_table' = [handle_table EXCEPT ![h] = b]
            BY <1>5, <2>2 DEF Wrap
        <3>. DEFINE r == NewBo(h, None, size, "self", FALSE)
        <3>2. r.live /\ r.handle = h
            BY DEF NewBo
        <3>. HIDE DEF r
        <3>. QED
            BY <2>2, <3>1, <3>2, EnterFaces DEF r
    <2>. QED
        BY <2>1, <2>2
<1>6. ASSUME NEW size \in Sizes, NEW h \in Handles, FromDmabuf(h, size) PROVE AllInTable'
    <2>1. CASE handle_table[h] # None
        <3>1. handle_table[h] \in Bos /\ LookupBo(handle_table[h])
            BY <1>6, <2>1, EntryLives DEF FromDmabuf
        <3>. QED
            BY <3>1, LookupFaces, FacesTable
    <2>2. CASE Crash("list")
        BY <2>2, CrashSame, FacesTable
    <2>3. CASE handle_table[h] = None /\ ~ Crash("list")
        <3>1. PICK b \in Bos :
                 /\ ~ bo[b].live
                 /\ bo' = [bo EXCEPT ![b] = NewBo(h, None, size, "null", FALSE)]
                 /\ handle_table' = [handle_table EXCEPT ![h] = b]
            BY <1>6, <2>3 DEF FromDmabuf
        <3>. DEFINE r == NewBo(h, None, size, "null", FALSE)
        <3>2. r.live /\ r.handle = h
            BY DEF NewBo
        <3>. HIDE DEF r
        <3>. QED
            BY <2>3, <3>1, <3>2, EnterFaces DEF r
    <2>. QED
        BY <2>1, <2>2, <2>3
<1>7. ASSUME NEW h \in Handles, FromHandle(h) PROVE AllInTable'
    <2>1. handle_table[h] \in Bos /\ LookupBo(handle_table[h])
        BY <1>7, EntryLives DEF FromHandle
    <2>. QED
        BY <2>1, LookupFaces, FacesTable
<1>8. ASSUME NEW b \in Bos, UnrefToCache(b) PROVE AllInTable'
    <2>1. PICK F \in SUBSET Bos :
             /\ Forget(F) /\ b \notin F
             /\ \A x \in F : bo[x].live /\ bo'[x] = NoBo
             /\ \A x \in Bos \ F : x # b => bo'[x] = bo[x]
             /\ bo'[b].live = bo[b].live /\ bo'[b].handle = bo[b].handle
        BY <1>8, UnrefToCacheFaces
    <2>2. \A x \in Bos \ F : bo'[x].live = bo[x].live /\ bo'[x].handle = bo[x].handle
        BY <2>1
    <2>. QED
        BY <2>1, <2>2, ForgetFaces
<1>9. ASSUME NEW b \in Bos, UnrefFree(b) PROVE AllInTable'
    <2>1. CASE Crash("list")
        BY <2>1, CrashSame, FacesTable
    <2>2. CASE ~ Crash("list")
        <3>1. PICK F \in SUBSET Bos : F = {b}
            OBVIOUS
        <3>. QED
            BY <1>9, <2>2, <3>1, UnrefFreeFaces, ForgetFaces
    <2>. QED
        BY <2>1, <2>2
<1>10. CASE Close
    BY <1>10 DEF Close, AllInTable, NoBo
<1>11. ASSUME NEW b \in Bos, Ref(b) \/ UnrefOne(b) PROVE SameFaces
    BY <1>11, RefFaces, UnrefOneFaces
<1>12. ASSUME NEW b \in Bos, Map(b) \/ Unmap(b) PROVE SameFaces
    BY <1>12, MapFaces, UnmapFaces
<1>13. ASSUME NEW b \in Bos, GetName(b) \/ ForbidCaching(b) PROVE SameFaces
    BY <1>13, GetNameFaces, ForbidFaces
<1>14. CASE Tick
    BY <1>14, TickFaces, FacesTable
<1>15. ASSUME NEW n, NEW size, FromName(n, size) PROVE FALSE
    BY <1>15 DEF FromName, Running
<1>. QED
    BY <1>1, <1>2, <1>3, <1>4, <1>5, <1>6, <1>7, <1>8, <1>9, <1>10, <1>11,
       <1>12, <1>13, <1>14, <1>15 DEF Next

\* No two structs ever stand for one handle, as long as no BO is opened by
\* its name.
THEOREM NoTwins ==
    ASSUME "from_name" \notin Calls
    PROVE  Spec => []NoEvilTwins
<1>1. Init => AllInTable
    BY DEF Init, AllInTable, NoBo
<1>2. IInv /\ AllInTable /\ [Next]_vars => AllInTable'
    BY TableNext
<1>3. AllInTable => NoEvilTwins
    BY DEF AllInTable, NoEvilTwins
<1>. QED
    BY <1>1, <1>2, <1>3, Invariance, PTL DEF Spec

-----------------------------------------------------------------------------
(* Without lookups references, mappings and handles balance.               *)

LEMMA SameRecBalanced ==
    ASSUME NEW r, NEW s, SameBalance(r, s), RecBalanced(s)
    PROVE  RecBalanced(r)
BY DEF SameBalance, RecBalanced

\* A call on one struct that keeps its handle.
LEMMA OneBalance ==
    ASSUME BalanceInv, SameFaces, NEW b \in Bos, RecBalanced(bo'[b]),
           \A x \in Bos : x # b => SameBalance(bo'[x], bo[x])
    PROVE  BalanceInv'
<1>1. \A x \in Bos : RecBalanced(bo'[x])
    BY SameRecBalanced DEF BalanceInv
<1>. QED
    BY <1>1, FacesBalance DEF BalanceInv

LEMMA QuietBalance ==
    ASSUME BalanceInv, SameFaces, \A x \in Bos : SameBalance(bo'[x], bo[x])
    PROVE  BalanceInv'
<1>1. \A x \in Bos : RecBalanced(bo'[x])
    BY SameRecBalanced DEF BalanceInv
<1>. QED
    BY <1>1, FacesBalance DEF BalanceInv

LEMMA CrashBalance ==
    ASSUME BalanceInv, NEW why, Crash(why)
    PROVE  BalanceInv'
BY CrashSame, QuietBalance DEF SameBalance

\* A new struct stands for a handle that was not open.
LEMMA NewBalance ==
    ASSUME IInv, BalanceInv, NEW b \in Bos, ~ bo[b].live, NEW h \in Handles \ opened,
           NEW r, r.live, r.handle = h, RecBalanced(r),
           bo' = [bo EXCEPT ![b] = r], opened' = opened \cup {h}
    PROVE  BalanceInv'
<1>1. DOMAIN bo = Bos
    BY DEF IInv, BosOK
<1>2. bo'[b] = r /\ \A x \in Bos : x # b => bo'[x] = bo[x]
    BY <1>1
<1>3. \A x \in Bos : bo[x].live => bo[x].handle \in opened
    BY DEF BalanceInv, HandlesBalanced
<1>4. HandlesBalanced'
    <2>1. ASSUME NEW g
          PROVE  g \in opened' <=> \E x \in Bos : bo'[x].live /\ bo'[x].handle = g
        <3>1. g \in opened <=> \E x \in Bos : bo[x].live /\ bo[x].handle = g
            BY DEF BalanceInv, HandlesBalanced
        <3>. QED
            BY <1>2, <3>1
    <2>. QED
        BY <2>1 DEF HandlesBalanced
<1>5. NoEvilTwins'
    <2>1. ASSUME NEW x \in Bos, NEW y \in Bos, bo'[x].live, bo'[y].live,
                 bo'[x].handle = bo'[y].handle
          PROVE  x = y
        <3>1. CASE x # b /\ y # b
            BY <1>2, <2>1, <3>1 DEF BalanceInv, NoEvilTwins
        <3>2. CASE x = b \/ y = b
            BY <1>2, <1>3, <2>1, <3>2
        <3>. QED
            BY <3>1, <3>2
    <2>. QED
        BY <2>1 DEF NoEvilTwins
<1>6. \A x \in Bos : RecBalanced(bo'[x])
    BY <1>2 DEF BalanceInv
<1>. QED
    BY <1>4, <1>5, <1>6 DEF BalanceInv

\* The handles of the freed structs are closed, and no others.
LEMMA ForgetBalance ==
    ASSUME IInv, BalanceInv, NEW F \in SUBSET Bos, Forget(F),
           \A x \in F : bo[x].live /\ bo'[x] = NoBo,
           \A x \in Bos \ F : /\ bo'[x].live = bo[x].live
                              /\ bo'[x].handle = bo[x].handle
                              /\ RecBalanced(bo'[x])
    PROVE  BalanceInv'
<1>1. opened' = opened \ {bo[x].handle : x \in F}
    BY DEF Forget
<1>2. \A x \in F : ~ bo'[x].live
    BY DEF NoBo
<1>3. HandlesBalanced'
    <2>1. ASSUME NEW g
          PROVE  g \in opened' <=> \E x \in Bos : bo'[x].live /\ bo'[x].handle = g
        <3>1. g \in opened <=> \E x \in Bos : bo[x].live /\ bo[x].handle = g
            BY DEF BalanceInv, HandlesBalanced
        <3>2. g \in opened' <=> g \in opened /\ ~ \E x \in F : bo[x].handle = g
            BY <1>1
        <3>3. \A x, y \in Bos : bo[x].live /\ bo[y].live /\ bo[x].handle = bo[y].handle => x = y
            BY DEF BalanceInv, NoEvilTwins
        <3>. QED
            BY <1>2, <3>1, <3>2, <3>3
    <2>. QED
        BY <2>1 DEF HandlesBalanced
<1>4. NoEvilTwins'
    BY <1>2 DEF BalanceInv, NoEvilTwins
<1>5. \A x \in Bos : RecBalanced(bo'[x])
    BY <1>2 DEF RecBalanced
<1>. QED
    BY <1>3, <1>4, <1>5 DEF BalanceInv

LEMMA NewBoBalance ==
    ASSUME NEW h, NEW n, NEW size, NEW list, NEW reuse, n # None => list = "null",
           NEW r, r = NewBo(h, n, size, list, reuse)
    PROVE  r.live /\ r.handle = h /\ RecBalanced(r)
BY DEF NewBo, RecBalanced

LEMMA NewFromCacheBalance ==
    ASSUME IInv, BalanceInv, NEW size, NewFromCache(size)
    PROVE  BalanceInv'
<1>1. PICK b \in Heads(GetBucket(size)) :
         IF bo[b].map /\ ReadsNoBucket THEN Crash("bucket")
         ELSE /\ TakeOut(b, [bo[b] EXCEPT !.ref = 1, !.holds = 1])
              /\ UNCHANGED <<tables, cleaned, crashed>>
    BY DEF NewFromCache
<1>2. b \in Bos /\ bo[b].bo_list = "bucket"
    BY DEF Heads, InBucket, Cached
<1>3. CASE Crash("bucket")
    BY <1>3, CrashBalance
<1>4. CASE ~ Crash("bucket")
    <2>1. /\ SameFaces
          /\ bo'[b].live /\ bo'[b].name = bo[b].name
          /\ bo'[b].bo_list = "self" /\ bo'[b].ref = 1 /\ bo'[b].holds = 1
          /\ bo'[b].mmap_ref = 0 /\ bo'[b].maps = 0
          /\ \A y \in Bos : y # b => SameBalance(bo'[y], bo[y])
        BY <1>1, <1>2, <1>4, TakeOutBalance
    <2>2. bo[b].name = None
        BY <1>2, AliveRec DEF BalanceInv, RecBalanced, IInv, BosOK
    <2>3. RecBalanced(bo'[b])
        BY <2>1, <2>2 DEF RecBalanced
    <2>. QED
        BY <1>2, <2>1, <2>3, OneBalance
<1>. QED
    BY <1>3, <1>4

\* A name leads to a struct whose list head was never initialised, and the
\* process dies.
LEMMA FromNameBalance ==
    ASSUME IInv, BalanceInv, NEW n \in Names, NEW size, FromName(n, size)
    PROVE  BalanceInv'
<1>1. CASE name_table[n] # None
    <2>1. PICK b \in Bos : /\ b = name_table[n] /\ bo[b].live /\ bo[b].name = n
                           /\ LookupBo(b)
        BY <1>1 DEF FromName, IInv, TablesOK, NoDanglingEntry
    <2>2. bo[b].bo_list = "null"
        BY <2>1, BoCacheAssumption DEF BalanceInv, RecBalanced
    <2>. QED
        BY <2>1, <2>2, CrashBalance DEF LookupBo
<1>2. CASE name_table[n] = None
    <2>1. PICK h \in Handles \ opened :
              IF handle_table[h] # None THEN LookupBo(handle_table[h])
              ELSE /\ \E b \in Bos :
                         /\ ~ bo[b].live
                         /\ bo' = [bo EXCEPT ![b] = NewBo(h, n, size, "null", FALSE)]
                   /\ opened' = opened \cup {h}
        BY <1>2 DEF FromName
    <2>2. handle_table[h] = None
        BY DEF IInv, TablesOK, TableOpen
    <2>3. PICK b \in Bos :
                 /\ ~ bo[b].live
                 /\ bo' = [bo EXCEPT ![b] = NewBo(h, n, size, "null", FALSE)]
        BY <2>1, <2>2
    <2>. DEFINE r == NewBo(h, n, size, "null", FALSE)
    <2>4. r.live /\ r.handle = h /\ RecBalanced(r)
        BY NewBoBalance
    <2>5. opened' = opened \cup {h}
        BY <2>1, <2>2
    <2>. HIDE DEF r
    <2>. QED
        BY <2>3, <2>4, <2>5, NewBalance DEF r
<1>. QED
    BY <1>1, <1>2

LEMMA CountsOf ==
    ASSUME IInv, NEW b \in Bos
    PROVE  /\ bo[b].ref \in Nat /\ bo[b].holds \in Nat
           /\ bo[b].maps \in Nat /\ bo[b].mmap_ref \in Nat
           /\ bo[b].holds > 0 => bo[b].live
           /\ bo[b].maps > 0 => bo[b].holds > 0
BY BoFields DEF IInv, BosOK, RecOK

LEMMA RefBalance ==
    ASSUME IInv, BalanceInv, NEW b \in Bos, Ref(b)
    PROVE  BalanceInv'
<1>1. /\ SameFaces
      /\ bo'[b] = [bo[b] EXCEPT !.ref = bo[b].ref + 1, !.holds = bo[b].holds + 1]
      /\ \A x \in Bos : x # b => bo'[x] = bo[x]
    BY RefFaces
<1>2. bo[b].holds > 0 /\ bo[b].live /\ bo[b].ref \in Nat /\ bo[b].holds \in Nat
    BY CountsOf DEF Ref
<1>3. /\ bo[b].ref = bo[b].holds /\ bo[b].mmap_ref = bo[b].maps
      /\ bo[b].name # None => bo[b].bo_list = "null"
    BY <1>2 DEF BalanceInv, RecBalanced
<1>4. /\ bo'[b].ref = bo[b].ref + 1 /\ bo'[b].holds = bo[b].holds + 1
      /\ bo'[b].mmap_ref = bo[b].mmap_ref /\ bo'[b].maps = bo[b].maps
      /\ bo'[b].name = bo[b].name /\ bo'[b].bo_list = bo[b].bo_list
    BY <1>1 DEF IInv, BosOK, RecOK, Bo
<1>5. RecBalanced(bo'[b])
    BY <1>2, <1>3, <1>4 DEF RecBalanced
<1>. QED
    BY <1>1, <1>5, OneBalance DEF SameBalance

LEMMA UnrefOneBalance ==
    ASSUME IInv, BalanceInv, NEW b \in Bos, UnrefOne(b)
    PROVE  BalanceInv'
<1>1. /\ SameFaces
      /\ bo'[b] = [bo[b] EXCEPT !.ref = bo[b].ref - 1, !.holds = bo[b].holds - 1,
                                !.maps = IF bo[b].holds = 1 THEN 0 ELSE bo[b].maps]
      /\ \A x \in Bos : x # b => bo'[x] = bo[x]
    BY UnrefOneFaces
<1>2. /\ bo[b].holds > 0 /\ bo[b].ref > 1 /\ bo[b].live
      /\ bo[b].ref \in Nat /\ bo[b].holds \in Nat
    BY CountsOf DEF UnrefOne
<1>3. /\ bo[b].ref = bo[b].holds /\ bo[b].mmap_ref = bo[b].maps
      /\ bo[b].name # None => bo[b].bo_list = "null"
    BY <1>2 DEF BalanceInv, RecBalanced
<1>4. bo[b].holds # 1
    BY <1>2, <1>3
<1>5. /\ bo'[b].ref = bo[b].ref - 1 /\ bo'[b].holds = bo[b].holds - 1
      /\ bo'[b].mmap_ref = bo[b].mmap_ref /\ bo'[b].maps = bo[b].maps
      /\ bo'[b].name = bo[b].name /\ bo'[b].bo_list = bo[b].bo_list
    BY <1>1, <1>4 DEF IInv, BosOK, RecOK, Bo
<1>6. RecBalanced(bo'[b])
    BY <1>2, <1>3, <1>5 DEF RecBalanced
<1>. QED
    BY <1>1, <1>6, OneBalance DEF SameBalance

LEMMA UnrefToCacheBalance ==
    ASSUME IInv, BalanceInv, NEW b \in Bos, UnrefToCache(b)
    PROVE  BalanceInv'
<1>1. PICK F \in SUBSET Bos :
         /\ Forget(F) /\ b \notin F
         /\ \A x \in F : bo[x].live /\ bo'[x] = NoBo
         /\ \A x \in Bos \ F : x # b => bo'[x] = bo[x]
         /\ bo'[b].live = bo[b].live /\ bo'[b].handle = bo[b].handle
         /\ bo'[b].name = bo[b].name /\ bo'[b].bo_list = "bucket"
         /\ bo'[b].ref = 0 /\ bo'[b].holds = bo[b].holds - 1
    BY UnrefToCacheFaces
<1>2. /\ bo[b].holds > 0 /\ bo[b].ref = 1 /\ bo[b].reuse /\ bo[b].live
      /\ bo[b].holds \in Nat
    BY CountsOf DEF UnrefToCache
<1>3. bo[b].bo_list # "null"
    BY <1>2 DEF IInv, BosOK, RecOK
<1>4. bo[b].ref = bo[b].holds /\ bo[b].name = None
    BY <1>2, <1>3 DEF BalanceInv, RecBalanced
<1>5. RecBalanced(bo'[b])
    BY <1>1, <1>2, <1>4 DEF RecBalanced
<1>6. \A x \in Bos \ F : /\ bo'[x].live = bo[x].live /\ bo'[x].handle = bo[x].handle
                         /\ RecBalanced(bo'[x])
    BY <1>1, <1>5 DEF BalanceInv
<1>. QED
    BY <1>1, <1>6, ForgetBalance

LEMMA UnrefFreeBalance ==
    ASSUME IInv, BalanceInv, NEW b \in Bos, UnrefFree(b)
    PROVE  BalanceInv'
<1>1. CASE Crash("list")
    BY <1>1, CrashBalance
<1>2. CASE ~ Crash("list")
    <2>1. PICK F \in SUBSET Bos : F = {b}
        OBVIOUS
    <2>2. /\ Forget(F) /\ bo[b].live /\ bo'[b] = NoBo
          /\ \A x \in Bos : x # b => bo'[x] = bo[x]
        BY <1>2, <2>1, UnrefFreeFaces
    <2>3. \A x \in Bos \ F : /\ bo'[x].live = bo[x].live /\ bo'[x].handle = bo[x].handle
                             /\ RecBalanced(bo'[x])
        BY <2>1, <2>2 DEF BalanceInv
    <2>. QED
        BY <2>1, <2>2, <2>3, ForgetBalance
<1>. QED
    BY <1>1, <1>2

LEMMA MapBalance ==
    ASSUME ~ MapMayFail, IInv, BalanceInv, NEW b \in Bos, Map(b)
    PROVE  BalanceInv'
<1>1. /\ SameFaces
      /\ \A x \in Bos : x # b => bo'[x] = bo[x]
      /\ bo'[b].name = bo[b].name /\ bo'[b].bo_list = bo[b].bo_list
      /\ bo'[b].ref = bo[b].ref /\ bo'[b].holds = bo[b].holds
      /\ bo'[b].mmap_ref = bo[b].mmap_ref + 1 /\ bo'[b].maps = bo[b].maps + 1
    BY MapFaces
<1>2. bo[b].holds > 0 /\ bo[b].live
    BY CountsOf DEF Map
<1>3. /\ bo[b].ref = bo[b].holds /\ bo[b].mmap_ref = bo[b].maps
      /\ bo[b].name # None => bo[b].bo_list = "null"
    BY <1>2 DEF BalanceInv, RecBalanced
<1>4. RecBalanced(bo'[b])
    BY <1>1, <1>2, <1>3 DEF RecBalanced
<1>. QED
    BY <1>1, <1>4, OneBalance DEF SameBalance

LEMMA UnmapBalance ==
    ASSUME IInv, BalanceInv, NEW b \in Bos, Unmap(b)
    PROVE  BalanceInv'
<1>1. CASE bo' = bo
    BY <1>1, UnmapFaces, QuietBalance DEF SameBalance
<1>2. CASE bo' # bo
    <2>1. /\ SameFaces
          /\ \A x \in Bos : x # b => SameBalance(bo'[x], bo[x])
          /\ bo'[b].name = bo[b].name /\ bo'[b].bo_list = bo[b].bo_list
          /\ bo'[b].ref = bo[b].ref /\ bo'[b].holds = bo[b].holds
          /\ bo'[b].mmap_ref = bo[b].mmap_ref - 1 /\ bo'[b].maps = bo[b].maps - 1
        BY <1>2, UnmapFaces
    <2>2. bo[b].holds > 0 /\ bo[b].live
        BY CountsOf DEF Unmap
    <2>3. /\ bo[b].ref = bo[b].holds /\ bo[b].mmap_ref = bo[b].maps
          /\ bo[b].name # None => bo[b].bo_list = "null"
        BY <2>2 DEF BalanceInv, RecBalanced
    <2>4. RecBalanced(bo'[b])
        BY <2>1, <2>2, <2>3 DEF RecBalanced
    <2>. QED
        BY <2>1, <2>4, OneBalance
<1>. QED
    BY <1>1, <1>2

\* drm_tegra_close() finds nothing but cached BOs, and closes their handles.
LEMMA CloseBalance ==
    ASSUME IInv, BalanceInv, Close
    PROVE  BalanceInv'
<1>1. \A b \in Bos : bo'[b] = NoBo
    BY DEF Close
<1>2. ASSUME NEW b \in Bos, bo[b].live PROVE b \in Cached
    <2>1. bo[b].ref = 0
        BY <1>2 DEF Close, BalanceInv, RecBalanced
    <2>. QED
        BY <1>2, <2>1 DEF BalanceInv, RecBalanced, Cached
<1>3. opened' = {}
    BY <1>2 DEF Close, BalanceInv, HandlesBalanced
<1>. QED
    BY <1>1, <1>3 DEF BalanceInv, RecBalanced, HandlesBalanced, NoEvilTwins, NoBo

LEMMA BalanceNext ==
    ASSUME NoRevival, IInv, BalanceInv, [Next]_vars
    PROVE  BalanceInv'
<1>1. CASE UNCHANGED vars
    BY <1>1 DEF vars, BalanceInv, HandlesBalanced, NoEvilTwins
<1>2. ASSUME NEW size \in Sizes, NewFromCache(size) PROVE BalanceInv'
    BY <1>2, NewFromCacheBalance
<1>3. ASSUME NEW size \in Sizes, NewCreated(size) PROVE BalanceInv'
    <2>. DEFINE full == IF GetBucket(size) = None THEN size ELSE GetBucket(size)
    <2>1. PICK b \in Bos, h \in Handles \ opened :
              /\ ~ bo[b].live
              /\ bo' = [bo EXCEPT ![b] = NewBo(h, None, full, "self", TRUE)]
              /\ opened' = opened \cup {h}
        BY <1>3 DEF NewCreated
    <2>. HIDE DEF full
    <2>. DEFINE r == NewBo(h, None, full, "self", TRUE)
    <2>2. r.live /\ r.handle = h /\ RecBalanced(r)
        BY NewBoBalance
    <2>. HIDE DEF r
    <2>. QED
        BY <2>1, <2>2, NewBalance DEF r
<1>4. ASSUME NEW n \in Names, NEW size \in Sizes, FromName(n, size) PROVE BalanceInv'
    BY <1>4, FromNameBalance
<1>5. ASSUME NEW b \in Bos, Ref(b) PROVE BalanceInv'
    BY <1>5, RefBalance
<1>6. ASSUME NEW b \in Bos, UnrefOne(b) PROVE BalanceInv'
    BY <1>6, UnrefOneBalance
<1>7. ASSUME NEW b \in Bos, UnrefToCache(b) PROVE BalanceInv'
    BY <1>7, UnrefToCacheBalance
<1>8. ASSUME NEW b \in Bos, UnrefFree(b) PROVE BalanceInv'
    BY <1>8, UnrefFreeBalance
<1>9. ASSUME NEW b \in Bos, Map(b) PROVE BalanceInv'
    BY <1>9, MapBalance DEF NoRevival
<1>10. ASSUME NEW b \in Bos, Unmap(b) PROVE BalanceInv'
    BY <1>10, UnmapBalance
<1>11. ASSUME NEW b \in Bos, ForbidCaching(b) PROVE BalanceInv'
    BY <1>11, ForbidFaces, QuietBalance
<1>12. CASE Close
    BY <1>12, CloseBalance
<1>13. CASE Tick
    BY <1>13, TickFaces, QuietBalance
<1>14. /\ \A h, size : ~ Wrap(h, size) /\ ~ FromDmabuf(h, size)
       /\ \A h : ~ FromHandle(h)
       /\ \A b : ~ GetName(b)
    BY DEF NoRevival, Wrap, FromDmabuf, FromHandle, GetName, Running
<1>. QED
    BY <1>1, <1>2, <1>3, <1>4, <1>5, <1>6, <1>7, <1>8, <1>9, <1>10, <1>11,
       <1>12, <1>13, <1>14 DEF Next

\* Nothing counted by hand goes astray as long as no lookup revives a cached
\* BO and no mmap() fails.
THEOREM BalancesAlways ==
    ASSUME NoRevival
    PROVE  Spec => []BalancesExact
<1>1. Init => BalanceInv
    BY DEF Init, BalanceInv, RecBalanced, HandlesBalanced, NoEvilTwins, NoBo
<1>2. IInv /\ BalanceInv /\ [Next]_vars => BalanceInv'
    BY BalanceNext
<1>3. IInv /\ BalanceInv => BalancesExact
    <2>. SUFFICES ASSUME IInv, BalanceInv PROVE BalancesExact
        OBVIOUS
    <2>1. ASSUME NEW b \in Bos PROVE bo[b].ref = bo[b].holds
        <3>1. CASE bo[b].live
            BY <3>1 DEF BalanceInv, RecBalanced
        <3>2. CASE ~ bo[b].live
            BY <3>2 DEF IInv, BosOK, RecOK, NoBo
        <3>. QED
            BY <3>1, <3>2
    <2>2. ASSUME NEW b \in Bos, bo[b].holds > 0 PROVE bo[b].mmap_ref = bo[b].maps
        BY <2>2, CountsOf DEF BalanceInv, RecBalanced
    <2>. QED
        BY <2>1, <2>2 DEF BalancesExact, RefsExact, MmapRefExact, BalanceInv
<1>. QED
    BY <1>1, <1>2, <1>3, Invariance, PTL DEF Spec

=============================================================================
