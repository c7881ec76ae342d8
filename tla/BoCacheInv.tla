----------------------------- MODULE BoCacheInv -----------------------------
(***************************************************************************)
(* The inductive invariant of the BO library.                              *)
(***************************************************************************)
EXTENDS BoCacheProps

\* What is true of every struct by itself.
RecOK(r) ==
    /\ r \in Bo
    /\ ~ r.live => r = NoBo
    /\ r.live => r.handle \in Handles
    /\ r.holds > 0 => r.live /\ r.bo_list # "bucket" /\ r.ref >= r.holds
    /\ r.bo_list = "bucket" => /\ r.live /\ r.reuse
                               /\ r.ref = 0 /\ r.holds = 0
                               /\ GetBucket(r.size) # None
    /\ r.reuse => r.bo_list # "null"
    /\ r.maps > 0 => r.map /\ r.holds > 0
    /\ r.maps <= r.mmap_ref
    /\ ~ (r.map /\ r.map_cached)

\* A struct whose list head is sound is the one its handle leads to: only
\* the imports are missing from the table, and those cannot be freed.
InTable ==
    \A b \in Bos : bo[b].live /\ bo[b].bo_list # "null" =>
        handle_table[bo[b].handle] = b

\* The handles of the table are open.
TableOpen == \A h \in Handles : handle_table[h] # None => h \in opened

TablesOK ==
    /\ handle_table \in [Handles -> Bos \cup {None}]
    /\ name_table \in [Names -> Bos \cup {None}]
    /\ opened \subseteq Handles
    /\ NoDanglingEntry
    /\ InTable
    /\ TableOpen

\* num_entries and num_mmap_entries are exact.
EntriesOK ==
    /\ num_entries \in [BucketSizes -> Nat]
    /\ \A k \in BucketSizes : num_entries[k] = Cardinality(InBucket(k))

MmapOK ==
    /\ num_mmap \in [BucketSizes -> Nat]
    /\ \A k \in BucketSizes : num_mmap[k] = Cardinality(MmapInBucket(k))

FlagsOK ==
    /\ cleaned \in BOOLEAN
    /\ mmap_cleaned \in BOOLEAN
    /\ crashed \in {"no", "list", "bucket"}

BosOK == bo = [b \in Bos |-> bo[b]] /\ \A b \in Bos : RecOK(bo[b])

IInv == BosOK /\ TablesOK /\ EntriesOK /\ MmapOK /\ FlagsOK

-----------------------------------------------------------------------------
(* No two structs stand for a handle as long as none is opened by its name: *)
(* the others are entered into the table of handles (tegra.c:960).          *)

AllInTable == \A b \in Bos : bo[b].live => handle_table[bo[b].handle] = b

-----------------------------------------------------------------------------
(* What is counted by hand is exact as long as nobody looks for a BO that   *)
(* may wait in a bucket (lookup_bo() adds a reference to the one of         *)
(* drm_tegra_reset_bo(), tegra.c:66) and every mmap() succeeds              *)
(* (drm_tegra_bo_map() does not take mmap_ref back).  A name can be opened, *)
(* but none is given.                                                       *)
NoRevival ==
    /\ Calls \cap {"wrap", "from_handle", "from_dmabuf", "get_name"} = {}
    /\ ~ MapMayFail

RecBalanced(r) == r.live =>
    /\ r.ref = r.holds
    /\ r.ref = 0 => r.bo_list = "bucket"
    /\ r.ref > 0 => r.mmap_ref = r.maps
    /\ r.name # None => r.bo_list = "null"

BalanceInv == /\ \A b \in Bos : RecBalanced(bo[b])
              /\ HandlesBalanced
              /\ NoEvilTwins
=============================================================================
