------------------------------ MODULE MemPool ------------------------------
(***************************************************************************)
(* The pool allocator of src/src/mempool/pool_alloc.c.                     *)
(*                                                                         *)
(* A pool is a block of memory carved into entries.  The entries lie in a  *)
(* table whose used slots are marked in a bitmap; the slot order is the    *)
(* address order.  A client (a pixmap) holds a handle, struct              *)
(* mem_pool_entry, naming the pool and the slot; the allocator rewrites    *)
(* the handle whenever it relocates the entry, behind the client's back.   *)
(*                                                                         *)
(* The driver runs the allocator on the one X server thread.  A call that  *)
(* loops over the entries (defragmentation and the two kinds of transfer)  *)
(* is modelled one loop iteration per step, with the locals of the call in *)
(* op; every other call is one step, and none starts while op is busy.  So *)
(* an invariant of this module is also an invariant of those loops.        *)
(*                                                                         *)
(* Addresses are offsets from the base of the pool, in allocation units.   *)
(***************************************************************************)
EXTENDS Integers, FiniteSets

CONSTANTS
    Pools,      \* the struct mem_pool objects
    Owners,     \* the struct mem_pool_entry handles of the clients
    PoolSize,   \* pool_size, for every pool
    Sizes,      \* the sizes the clients ask for
    WordBits,   \* entries per bitmap word (32 in the code)
    MaxWords,   \* bound: realloc() never gives a longer bitmap than this
    OutOfMemory, \* whether a realloc() below that bound may fail
    MaxAccess,  \* bound on the nesting of mem_pool_open_access()
    UlongMax,   \* ~0ul
    None        \* no owner, no handle, no data

ASSUME MemPoolAssumption ==
    /\ PoolSize \in [Pools -> Nat \ {0}]
    /\ Sizes \subseteq Nat \ {0}
    /\ WordBits \in Nat \ {0, 1}
    /\ MaxWords \in Nat \ {0}
    /\ OutOfMemory \in BOOLEAN
    /\ MaxAccess \in Nat \ {0}
    /\ UlongMax \in Nat
    /\ \A p \in Pools : PoolSize[p] < UlongMax
    /\ None \notin Owners
    /\ None \notin Pools

VARIABLES
    alive,      \* pools between mem_pool_init() and mem_pool_destroy()
    words,      \* bitmap_size
    used,       \* the bitmap, as the set of slots whose bit is set
    entries,    \* entries[pool][slot]: base, size and owner
    remain,     \* remain
    fragmented, \* fragmented
    full,       \* bitmap_full
    access,     \* access_refcount
    handle,     \* the clients' struct mem_pool_entry
    mem,        \* what the memory of the pool holds
    op          \* the allocator call in progress

vars == <<alive, words, used, entries, remain, fragmented, full, access,
          handle, mem, op>>

-----------------------------------------------------------------------------
(* Types.                                                                  *)

Slot == 0 .. MaxWords * WordBits - 1
Cell(p) == 0 .. PoolSize[p] - 1

\* An entry of an unused slot holds nothing a caller may read: the debug
\* build poisons it.
Unused == [base |-> 0, size |-> 0, owner |-> None]
Entry == [base : Nat, size : Nat, owner : Owners \cup {None}]

\* An allocation is filled by its owner with data the model can recognise:
\* the owner and the position within the allocation.
Datum == [owner : Owners \cup {None}, pos : Nat]
Junk == [owner |-> None, pos |-> 0]

Handle == [pool : Pools \cup {None}, id : Nat]
NoHandle == [pool |-> None, id |-> 0]

Op == [pc     : {"idle", "head", "defrag", "transfer", "fast"},
       caller : {"none", "alloc", "defrag", "transfer"},
       to     : Pools \cup {None},  \* the pool worked on, pool_to
       from   : Pools \cup {None},  \* pool_from
       owner  : Owners \cup {None}, \* ret_entry of mem_pool_alloc()
       size   : Nat,                \* needed_size, fail_size
       last   : Int,                \* p of defrag_pool(), b_to
       cur    : Int,                \* b_from
       moved  : BOOLEAN]            \* transferred_entries # 0

Idle == [pc |-> "idle", caller |-> "none", to |-> None, from |-> None,
         owner |-> None, size |-> 0, last |-> 0, cur |-> -1, moved |-> FALSE]

TypeOK ==
    /\ alive \subseteq Pools
    /\ words \in [Pools -> 1 .. MaxWords]
    /\ used \in [Pools -> SUBSET Slot]
    /\ entries \in [Pools -> [Slot -> Entry]]
    /\ remain \in [Pools -> Nat]
    /\ fragmented \in [Pools -> BOOLEAN]
    /\ full \in [Pools -> BOOLEAN]
    /\ access \in [Pools -> 0 .. MaxAccess]
    /\ handle \in [Owners -> Handle]
    /\ DOMAIN mem = Pools
    /\ \A p \in Pools : mem[p] \in [Cell(p) -> Datum]
    /\ op \in Op

-----------------------------------------------------------------------------
(* Reading a pool.                                                         *)

Slots(w) == 0 .. w * WordBits - 1

Base(p, i) == entries[p][i].base
Size(p, i) == entries[p][i].size
End(p, i) == entries[p][i].base + entries[p][i].size

Least(S) == CHOOSE x \in S : \A y \in S : x <= y

\* Results of get_next_unused_entry() and mem_pool_get_next_used_entry().
NextUnused(p, start, w) ==
    LET S == {i \in Slots(w) \ used[p] : i >= start}
    IN  IF S = {} THEN -1 ELSE Least(S)

NextUsed(p, start) ==
    LET S == {i \in used[p] : i >= start}
    IN  IF S = {} THEN -1 ELSE Least(S)

Empty(p) == PoolSize[p] = remain[p]
IsFull(p) == remain[p] = 0 \/ full[p]

\* mem_pool_grow_bitmap(): the words after the call, which are as many as
\* before when realloc() fails.
GrowsTo(w) == {v \in {w, w + 1} : IF v = w THEN OutOfMemory \/ w = MaxWords
                                   ELSE w < MaxWords}

-----------------------------------------------------------------------------
(* mem_pool_alloc(): the walk over the bitmap.                             *)

\* The unused slots the walk stops at when it starts behind slot b: the
\* first one of every run of unused slots.
RunStarts(p, b, w) ==
    {e \in Slots(w) \ used[p] : e > b /\ (e = b + 1 \/ e - 1 \in used[p])}

GapStart(p, e) == IF e = 0 THEN 0 ELSE End(p, e - 1)

GapEnd(p, e) ==
    LET b == NextUsed(p, e + 1)
    IN  IF b = -1 THEN PoolSize[p] ELSE Base(p, b)
Gap(p, e) == GapEnd(p, e) - GapStart(p, e)

Fitting(p, b, w, size) == {e \in RunStarts(p, b, w) : Gap(p, e) >= size}

\* The end of a successful walk: with e taken, the bitmap is full when no
\* unused slot lies behind the used slot that follows e and it cannot grow.
Settle(p, e, w) ==
    IF \A i \in Slots(w) : i > NextUsed(p, e + 1) => i \in used[p] \cup {e}
    THEN {[e |-> e, words |-> v, full |-> v = w] : v \in GrowsTo(w)}
    ELSE {[e |-> e, words |-> w, full |-> FALSE]}

\* Every way the walk from behind slot b can end, with w words in the
\* bitmap: the slot found or -1, the words and bitmap_full.
Walk(p, b, w, size) ==
    LET fits == Fitting(p, b, w, size)
        n    == w * WordBits
        NotFound(v, f) == {[e |-> -1, words |-> v, full |-> f]}
        Grown == IF (RunStarts(p, b, w) # {} \/ b > 0)
                    /\ PoolSize[p] - End(p, n - 1) >= size
                 THEN Settle(p, n, w + 1)
                 ELSE NotFound(w + 1, FALSE)
    IN  IF fits # {} THEN Settle(p, Least(fits), w)
        ELSE IF n - 1 \notin used[p] THEN NotFound(w, FALSE)
        ELSE UNION {IF v = w THEN NotFound(w, TRUE) ELSE Grown : v \in GrowsTo(w)}

\* The words an allocation starts with: a full bitmap has to grow first.
EntryWords(p) == IF full[p] THEN GrowsTo(words[p]) \ {words[p]}
                 ELSE {words[p]}

-----------------------------------------------------------------------------
(* Moving entries.                                                         *)

\* Mutant of MustMemmove: a move towards the base is taken to be safe.
MustMemmoveUpwards(src, dst, size) == dst >= src /\ dst < src + size

\* memmove(dst, src, size), and memcpy() when the caller chose it: memcpy()
\* of ranges that overlap leaves nothing that can be relied on.
MustMemmove(src, dst, size) == ~ (dst >= src + size \/ src >= dst + size)

Overlaps(src, dst, size) == \E c \in src .. src + size - 1 :
                                c \in dst .. dst + size - 1

\* The memory after size units moved from offset src of pool pf to offset
\* dst of pool pt.  What the source range held is not used any more.
MovedData(pf, pt, src, dst, size) ==
    LET In(c, a) == a <= c /\ c < a + size
        safe == \/ pf # pt
                \/ MustMemmove(src, dst, size)
                \/ ~ Overlaps(src, dst, size)
    IN  [p \in Pools |->
            IF pf = pt /\ src = dst THEN mem[p]
            ELSE [c \in Cell(p) |->
                    IF p = pt /\ In(c, dst)
                    THEN IF safe THEN mem[pf][c - dst + src] ELSE Junk
                    ELSE IF p = pf /\ In(c, src) THEN Junk
                    ELSE mem[p][c]]]

\* move_entry(): the bit, the entry and the owner's handle go together.
MoveSlot(pf, pt, i, j) ==
    [[used EXCEPT ![pf] = @ \ {i}] EXCEPT ![pt] = @ \cup {j}]

\* migrate_entry(pool_from, pool_to, from, to, new_base).
MigrateEntry(pf, pt, i, j, new_base) ==
    LET entry == entries[pf][i]
    IN  /\ used' = MoveSlot(pf, pt, i, j)
        /\ entries' = [[entries EXCEPT ![pf][i] = Unused]
                          EXCEPT ![pt][j] = [entry EXCEPT !.base = new_base]]
        /\ handle' = [handle EXCEPT ![entry.owner] = [pool |-> pt, id |-> j]]
        /\ mem' = MovedData(pf, pt, entry.base, new_base, entry.size)

-----------------------------------------------------------------------------
(* Pools come and go.                                                      *)

Init ==
    /\ alive = {}
    /\ words = [p \in Pools |-> 1]
    /\ used = [p \in Pools |-> {}]
    /\ entries = [p \in Pools |-> [i \in Slot |-> Unused]]
    /\ remain = PoolSize
    /\ fragmented = [p \in Pools |-> FALSE]
    /\ full = [p \in Pools |-> FALSE]
    /\ access = [p \in Pools |-> 0]
    /\ handle = [o \in Owners |-> NoHandle]
    /\ mem = [p \in Pools |-> [c \in Cell(p) |-> Junk]]
    /\ op = Idle

\* mem_pool_init().
InitPool(p, bitmap_size) ==
    /\ op = Idle
    /\ p \notin alive
    /\ alive' = alive \cup {p}
    /\ words' = [words EXCEPT ![p] = bitmap_size]
    /\ used' = [used EXCEPT ![p] = {}]
    /\ remain' = [remain EXCEPT ![p] = PoolSize[p]]
    /\ fragmented' = [fragmented EXCEPT ![p] = FALSE]
    /\ full' = [full EXCEPT ![p] = FALSE]
    /\ access' = [access EXCEPT ![p] = 0]
    /\ UNCHANGED <<entries, handle, mem, op>>

\* mem_pool_destroy(); the driver destroys pools it found empty.
DestroyPool(p) ==
    /\ op = Idle
    /\ p \in alive
    /\ Empty(p)
    /\ access[p] = 0
    /\ alive' = alive \ {p}
    /\ UNCHANGED <<words, used, entries, remain, fragmented, full, access,
                   handle, mem, op>>

\* mem_pool_open_access() and mem_pool_close_access().
OpenAccess(p) ==
    /\ op = Idle
    /\ p \in alive
    /\ access[p] < MaxAccess
    /\ access' = [access EXCEPT ![p] = @ + 1]
    /\ UNCHANGED <<alive, words, used, entries, remain, fragmented, full,
                   handle, mem, op>>

CloseAccess(p) ==
    /\ op = Idle
    /\ p \in alive
    /\ access[p] > 0
    /\ access' = [access EXCEPT ![p] = @ - 1]
    /\ UNCHANGED <<alive, words, used, entries, remain, fragmented, full,
                   handle, mem, op>>

-----------------------------------------------------------------------------
(* mem_pool_alloc() and mem_pool_free().                                   *)

\* The walk found slot r.e: the entry is filled in and the client stores its
\* data.
Take(p, o, size, r) ==
    LET start == GapStart(p, r.e)
    IN  /\ used' = [used EXCEPT ![p] = @ \cup {r.e}]
        /\ entries' = [entries EXCEPT ![p][r.e] =
                          [base |-> start, size |-> size, owner |-> o]]
        /\ remain' = [remain EXCEPT ![p] = @ - size]
        /\ handle' = [handle EXCEPT ![o] = [pool |-> p, id |-> r.e]]
        /\ mem' = [mem EXCEPT ![p] = [c \in Cell(p) |->
                      IF start <= c /\ c < start + size
                      THEN [owner |-> o, pos |-> c - start]
                      ELSE mem[p][c]]]

\* The bitmap the walk left behind.
SetBitmap(p, r) ==
    /\ words' = [words EXCEPT ![p] = r.words]
    /\ full' = [full EXCEPT ![p] = r.full]

StartDefrag(p, caller) ==
    [Idle EXCEPT !.caller = caller, !.to = p,
                 !.pc = IF fragmented[p] /\ 0 \notin used[p]
                        THEN "head" ELSE "defrag"]

\* mem_pool_alloc(pool, size, ret_entry, defrag).  A request refused before
\* the walk, for want of space or of a longer bitmap, changes nothing.
MemPoolAlloc(p, o, size, defrag) ==
    /\ op = Idle
    /\ p \in alive
    /\ handle[o] = NoHandle
    /\ size <= remain[p]
    /\ defrag => access[p] > 0
    /\ \E w \in EntryWords(p) : \E r \in Walk(p, -1, w, size) :
          /\ SetBitmap(p, r)
          /\ IF r.e # -1
             THEN Take(p, o, size, r) /\ op' = op
             ELSE /\ op' = IF defrag /\ ~ r.full
                           THEN [StartDefrag(p, "alloc") EXCEPT
                                    !.owner = o, !.size = size]
                           ELSE op
                  /\ UNCHANGED <<used, entries, remain, handle, mem>>
    /\ UNCHANGED <<alive, fragmented, access>>

\* mem_pool_free(): any hole but the last slot leaves the pool fragmented.
MemPoolFree(o) ==
    LET p == handle[o].pool
        i == handle[o].id
    IN  /\ op = Idle
        /\ handle[o] # NoHandle
        /\ fragmented' = [fragmented EXCEPT ![p] =
                             @ \/ NextUnused(p, 0, words[p]) - 1 # i]
        /\ full' = [full EXCEPT ![p] = FALSE]
        /\ remain' = [remain EXCEPT ![p] = @ + Size(p, i)]
        /\ used' = [used EXCEPT ![p] = @ \ {i}]
        /\ entries' = [entries EXCEPT ![p][i] = Unused]
        /\ mem' = [mem EXCEPT ![p] = [c \in Cell(p) |->
                      IF Base(p, i) <= c /\ c < End(p, i)
                      THEN Junk ELSE mem[p][c]]]
        /\ handle' = [handle EXCEPT ![o] = NoHandle]
        /\ UNCHANGED <<alive, words, access, op>>

-----------------------------------------------------------------------------
(* defrag_pool(pool, needed_size, ret_last_busy).                          *)

\* mem_pool_defrag().
MemPoolDefrag(p) ==
    /\ op = Idle
    /\ p \in alive
    /\ access[p] > 0
    /\ ~ Empty(p)
    /\ op' = StartDefrag(p, "defrag")
    /\ UNCHANGED <<alive, words, used, entries, remain, fragmented, full,
                   access, handle, mem>>

\* The first used entry moves to slot 0 and to the base of the pool.
DefragHead ==
    LET p == op.to
    IN  /\ op.pc = "head"
        /\ MigrateEntry(p, p, NextUsed(p, 1), 0, 0)
        /\ op' = [op EXCEPT !.pc = "defrag"]
        /\ UNCHANGED <<alive, words, remain, fragmented, full, access>>

Needed == IF op.caller = "alloc" THEN op.size ELSE UlongMax

\* Mutant of DefragStops: the gap suffices even without an unused slot.
DefragStopsEarly(p, b) == b # -1 => Base(p, b) - End(p, op.last) >= Needed

\* The loop stops at the last entry, or in front of an entry that has an
\* unused slot and a wide enough gap before it.
DefragStops(p, b) ==
    b # -1 =>
        /\ Base(p, b) - End(p, op.last) >= Needed
        /\ \E i \in Slots(words[p]) \ used[p] : op.last <= i /\ i < b

\* Mutant of DefragStep: the last busy slot is not advanced.
DefragStepStuck ==
    LET p == op.to
        b == NextUsed(p, op.last + 1)
    IN  /\ op.pc = "defrag"
        /\ fragmented[p]
        /\ ~ DefragStops(p, b)
        /\ MigrateEntry(p, p, b, op.last + 1, End(p, op.last))
        /\ UNCHANGED <<alive, words, remain, fragmented, full, access, op>>

\* One round of the loop: the next entry closes up with the previous one.
DefragStep ==
    LET p == op.to
        b == NextUsed(p, op.last + 1)
    IN  /\ op.pc = "defrag"
        /\ fragmented[p]
        /\ ~ DefragStops(p, b)
        /\ MigrateEntry(p, p, b, op.last + 1, End(p, op.last))
        /\ op' = [op EXCEPT !.last = @ + 1]
        /\ UNCHANGED <<alive, words, remain, fragmented, full, access>>

\* The last busy slot defrag_pool() returns when the pool is not fragmented.
LastBusy(p) == IF op.caller = "defrag" THEN 0
               ELSE IF IsFull(p) THEN -1
               ELSE NextUnused(p, 0, words[p]) - 1

\* The way out of defrag_pool(), and what its caller does next:
\* mem_pool_alloc() walks once more from behind the last busy slot,
\* mem_pool_transfer_entries() goes on with its loop.
DefragDone ==
    LET p == op.to
        last == IF fragmented[p] THEN op.last ELSE LastBusy(p)
    IN  /\ op.pc = "defrag"
        /\ fragmented[p] => DefragStops(p, NextUsed(p, op.last + 1))
        /\ fragmented' = [fragmented EXCEPT ![p] =
                             @ /\ NextUnused(p, last + 1, words[p]) # -1]
        /\ \/ /\ op.caller = "alloc"
              /\ op' = Idle
              /\ \E r \in Walk(p, last, words[p], op.size) :
                    /\ SetBitmap(p, r)
                    /\ IF r.e # -1 THEN Take(p, op.owner, op.size, r)
                       ELSE UNCHANGED <<used, entries, remain, handle, mem>>
           \/ /\ op.caller = "defrag"
              /\ op' = Idle
              /\ UNCHANGED <<words, used, entries, remain, full, handle, mem>>
           \/ /\ op.caller = "transfer"
              /\ op' = [op EXCEPT !.pc = "transfer", !.last = last]
              /\ UNCHANGED <<words, used, entries, remain, full, handle, mem>>
        /\ UNCHANGED <<alive, access>>

-----------------------------------------------------------------------------
(* mem_pool_transfer_entries() and mem_pool_transfer_entries_fast().       *)

\* Both return at once unless this holds.
MayTransfer(to, from) ==
    /\ op = Idle
    /\ {to, from} \subseteq alive
    /\ access[to] > 0 /\ access[from] > 0
    /\ ~ IsFull(to)
    /\ to # from

TransferEntries(to, from) ==
    /\ MayTransfer(to, from)
    /\ op' = IF Empty(to)
             THEN [Idle EXCEPT !.pc = "transfer", !.caller = "transfer",
                               !.to = to, !.from = from, !.last = -1]
             ELSE [StartDefrag(to, "transfer") EXCEPT !.from = from]
    /\ UNCHANGED <<alive, words, used, entries, remain, fragmented, full,
                   access, handle, mem>>

\* Mutant of Finish: pool_from is not marked fragmented.
FinishUnmarked(from, moved, rem, fulls) ==
    /\ op' = Idle
    /\ full' = IF moved THEN [fulls EXCEPT ![from] = FALSE] ELSE fulls
    /\ UNCHANGED fragmented

\* After the loop, with rem the space left in pool_from.
Finish(from, moved, rem, fulls) ==
    /\ op' = Idle
    /\ IF moved
       THEN /\ full' = [fulls EXCEPT ![from] = FALSE]
            /\ fragmented' = [fragmented EXCEPT
                                 ![from] = PoolSize[from] # rem]
       ELSE full' = fulls /\ UNCHANGED fragmented

\* Mutants of NextFrom: no test of the size, and one that is off by one.
NextFromAny == {b \in used[op.from] : b > op.cur}
NextFromSmaller == {b \in used[op.from] : b > op.cur /\ Size(op.from, b) < remain[op.to]}

\* The next entry of pool_from that pool_to has the space for.
NextFrom == {b \in used[op.from] : b > op.cur /\ Size(op.from, b) <= remain[op.to]}

\* The words with which the search for an unused slot behind slot last ends
\* well: the bitmap grows when it has none.
SearchWords(p, last) ==
    IF NextUnused(p, last + 1, words[p]) # -1 THEN {words[p]}
    ELSE GrowsTo(words[p]) \ {words[p]}

\* One round of the slow transfer: the entry is appended to the compacted
\* entries of pool_to.
TransferStep ==
    LET to   == op.to
        from == op.from
        b    == Least(NextFrom)
        size == Size(from, b)
        base == IF op.last = -1 THEN 0 ELSE End(to, op.last)
    IN  /\ op.pc = "transfer"
        /\ NextFrom # {}
        /\ \E w \in SearchWords(to, op.last) :
              LET e == NextUnused(to, op.last + 1, w)
              IN  /\ words' = [words EXCEPT ![to] = w]
                  /\ MigrateEntry(from, to, b, e, base)
                  /\ IF remain[to] = size
                     THEN Finish(from, TRUE, remain[from] + size, full)
                     ELSE /\ op' = [op EXCEPT !.last = e, !.cur = b, !.moved = TRUE]
                          /\ UNCHANGED <<full, fragmented>>
        /\ remain' = [remain EXCEPT ![from] = @ + size, ![to] = @ - size]
        /\ UNCHANGED <<alive, access>>

\* The loop ends: no slot and no longer bitmap, or no entry left to move.
TransferDone ==
    LET to   == op.to
        from == op.from
    IN  /\ op.pc = "transfer"
        /\ \/ /\ NextUnused(to, op.last + 1, words[to]) = -1
              /\ words[to] \in GrowsTo(words[to])
              /\ Finish(from, op.moved, remain[from], [full EXCEPT ![to] = TRUE])
              /\ UNCHANGED words
           \/ /\ NextFrom = {}
              /\ \E w \in SearchWords(to, op.last) :
                    words' = [words EXCEPT ![to] = w]
              /\ Finish(from, op.moved, remain[from], full)
        /\ UNCHANGED <<alive, used, entries, remain, access, handle, mem>>

TransferEntriesFast(to, from) ==
    /\ MayTransfer(to, from)
    /\ op' = [Idle EXCEPT !.pc = "fast", !.to = to, !.from = from,
                          !.size = UlongMax]
    /\ UNCHANGED <<alive, words, used, entries, remain, fragmented, full,
                   access, handle, mem>>

\* The entries of pool_from smaller than any that failed to fit.
NextFast == {b \in used[op.from] : b > op.cur /\ Size(op.from, b) < op.size}

\* How mem_pool_alloc(pool_to, size, &empty_to, 0) can end for an entry.
FastAlloc(size) ==
    LET to == op.to
        refused == [e |-> -1, words |-> words[to], full |-> full[to]]
    IN  IF size > remain[to] THEN {refused}
        ELSE (UNION {Walk(to, -1, w, size) : w \in EntryWords(to)})
             \cup (IF full[to] /\ words[to] \in GrowsTo(words[to])
                   THEN {refused} ELSE {})

\* One round of the fast transfer: pool_to takes the entry wherever it fits.
FastStep ==
    LET to   == op.to
        from == op.from
        b    == Least(NextFast)
        size == Size(from, b)
    IN  /\ op.pc = "fast"
        /\ NextFast # {}
        /\ \E r \in FastAlloc(size) :
              /\ words' = [words EXCEPT ![to] = r.words]
              /\ IF r.e = -1
                 THEN /\ full' = [full EXCEPT ![to] = r.full]
                      /\ op' = [op EXCEPT !.cur = b, !.size = size]
                      /\ UNCHANGED <<used, entries, remain, fragmented, handle, mem>>
                 ELSE /\ MigrateEntry(from, to, b, r.e, GapStart(to, r.e))
                      /\ remain' = [remain EXCEPT ![from] = @ + size, ![to] = @ - size]
                      /\ IF remain[to] = size \/ r.full
                         THEN Finish(from, TRUE, remain[from] + size,
                                     [full EXCEPT ![to] = r.full])
                         ELSE /\ op' = [op EXCEPT !.cur = b, !.moved = TRUE]
                              /\ full' = [full EXCEPT ![to] = r.full]
                              /\ UNCHANGED fragmented
        /\ UNCHANGED <<alive, access>>

FastDone ==
    /\ op.pc = "fast"
    /\ NextFast = {}
    /\ Finish(op.from, op.moved, remain[op.from], full)
    /\ UNCHANGED <<alive, words, used, entries, remain, access, handle, mem>>

-----------------------------------------------------------------------------
Loop == DefragHead \/ DefragStep \/ DefragDone \/ TransferStep \/ TransferDone
        \/ FastStep \/ FastDone

Next ==
    \/ \E p \in Pools, w \in 1 .. MaxWords : InitPool(p, w)
    \/ \E p \in Pools : DestroyPool(p) \/ OpenAccess(p) \/ CloseAccess(p)
                        \/ MemPoolDefrag(p)
    \/ \E p \in Pools, o \in Owners, s \in Sizes, d \in BOOLEAN :
          MemPoolAlloc(p, o, s, d)
    \/ \E o \in Owners : MemPoolFree(o)
    \/ \E to, from \in Pools : TransferEntries(to, from)
                               \/ TransferEntriesFast(to, from)
    \/ Loop

Spec == Init /\ [][Next]_vars

\* The loops are plain C loops: the thread that entered one runs on.
FairSpec == Spec /\ WF_vars(Loop)
=============================================================================
