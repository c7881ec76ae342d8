--------------------------- MODULE MemPool_proof ---------------------------
(***************************************************************************)
(* The inductive invariant of the pool allocator holds in every reachable  *)
(* state, for every number and size of pools, every number of clients and  *)
(* every bitmap; and what follows from it.                                 *)
(***************************************************************************)
EXTENDS MemPoolLayout_proof

-----------------------------------------------------------------------------
(* Between calls.                                                          *)

\* With no call in progress there is nothing to know about its locals.
LEMMA IdleOp ==
    ASSUME op' = Idle
    PROVE  OpInv' /\ op' \in Op
<1>1. Idle.pc = "idle" /\ Idle \in Op
    BY DEF Idle, Op
<1>. QED
    BY <1>1 DEF OpInv

\* The locals defrag_pool() starts with.
DefragLocals(p, caller, d) ==
    /\ d \in Op
    /\ d.pc \in {"head", "defrag"}
    /\ d.caller = caller /\ d.to = p /\ d.last = 0 /\ d.moved = FALSE
    /\ d.pc = "head" => fragmented[p] /\ 0 \notin used[p]
    /\ d.pc = "defrag" /\ fragmented[p] => CompactTo(p, 0)

LEMMA StartDefragFact ==
    ASSUME TypeOK, Layout, NEW p \in Pools,
           NEW caller \in {"alloc", "defrag", "transfer"}
    PROVE  DefragLocals(p, caller, StartDefrag(p, caller))
<1>0. PICK d : d = StartDefrag(p, caller)
    OBVIOUS
<1>1. d = [pc |-> IF fragmented[p] /\ 0 \notin used[p] THEN "head" ELSE "defrag",
           caller |-> caller, to |-> p, from |-> None, owner |-> None,
           size |-> 0, last |-> 0, cur |-> -1, moved |-> FALSE]
    BY <1>0 DEF StartDefrag, Idle
<1>2. d \in Op
    BY <1>1 DEF Op
<1>3. ASSUME d.pc = "defrag", fragmented[p] PROVE CompactTo(p, 0)
    <2>1. 0 \in used[p]
        BY <1>1, <1>3
    <2>2. Base(p, 0) = 0
        BY <2>1 DEF Layout, FirstAtBase
    <2>. QED
        BY <2>1, <2>2 DEF CompactTo, GapStart
<1>. QED
    BY <1>0, <1>1, <1>2, <1>3 DEF DefragLocals

-----------------------------------------------------------------------------
(* The initial states, and pools that come and go.                         *)

LEMMA InitInv ==
    ASSUME Init
    PROVE  IInv
<1>1. /\ alive = {} /\ used = [p \in Pools |-> {}] /\ remain = PoolSize
      /\ op = Idle /\ handle = [o \in Owners |-> NoHandle]
      /\ words = [p \in Pools |-> 1]
    BY DEF Init
<1>2. TypeOK
    <2>1. NoHandle \in Handle /\ Unused \in Entry /\ Junk \in Datum
        BY DEF NoHandle, Handle, Unused, Entry, Junk, Datum
    <2>2. Idle \in Op
        BY DEF Idle, Op
    <2>3. PoolSize \in [Pools -> Nat] /\ 1 \in 1 .. MaxWords /\ 0 \in 0 .. MaxAccess
        BY MemPoolAssumption
    <2>4. \A p \in Pools : mem[p] \in [Cell(p) -> Datum]
        BY <2>1 DEF Init
    <2>5. DOMAIN mem = Pools
        BY DEF Init
    <2>. QED
        BY <2>1, <2>2, <2>3, <2>4, <2>5 DEF Init, TypeOK
<1>3. RemainExact
    <2>1. ASSUME NEW p \in Pools PROVE FreeCells(p) = Cell(p)
        BY <1>1 DEF FreeCells
    <2>. QED
        BY <1>1, <2>1, CellFinite DEF RemainExact
<1>4. /\ EntriesOrdered /\ DataKept /\ SlotsInBitmap /\ EntriesOwned /\ FirstAtBase
      /\ CompactUnlessFragmented /\ NoSlotMeansFull
    BY <1>1 DEF EntriesOrdered, DataKept, SlotsInBitmap, EntriesOwned, FirstAtBase,
                CompactUnlessFragmented, CompactPool, NoSlotMeansFull
<1>5. HandlesAgree
    BY <1>1 DEF HandlesAgree
<1>6. OpInv
    BY <1>1 DEF OpInv, Idle
<1>. QED
    BY <1>2, <1>3, <1>4, <1>5, <1>6 DEF IInv

LEMMA InitPoolInv ==
    ASSUME IInv, NEW p \in Pools, NEW w \in 1 .. MaxWords, InitPool(p, w)
    PROVE  IInv'
<1>1. TypeOK /\ Layout
    BY DEF IInv, Layout
<1>2. used[p] = {}
    BY <1>1, EntryOwner DEF InitPool
<1>3. Empty(p)
    BY <1>1, <1>2, EmptyFact
<1>4. /\ used' = used /\ remain' = remain /\ entries' = entries /\ handle' = handle
      /\ mem' = mem /\ op' = Idle /\ op = Idle /\ alive' = alive \cup {p}
      /\ words' = [words EXCEPT ![p] = w]
      /\ fragmented' = [fragmented EXCEPT ![p] = FALSE]
      /\ full' = [full EXCEPT ![p] = FALSE]
      /\ access' = [access EXCEPT ![p] = 0]
    BY <1>1, <1>2, <1>3 DEF InitPool, TypeOK, Empty
<1>5. TypeOK'
    <2>1. 0 \in 0 .. MaxAccess
        BY MemPoolAssumption
    <2>2. \A q \in Pools : (mem[q] \in [Cell(q) -> Datum])' <=> mem[q] \in [Cell(q) -> Datum]
        BY <1>4 DEF Cell
    <2>. QED
        BY <1>1, <1>4, <2>1, <2>2 DEF TypeOK
<1>6. EntriesOrdered' /\ DataKept' /\ EntriesOwned' /\ FirstAtBase' /\ RemainExact'
    BY <1>1, <1>4 DEF Layout, EntriesOrdered, DataKept, EntriesOwned, FirstAtBase,
                      RemainExact, FreeCells, Base, Size, End
<1>7. HandlesAgree'
    BY <1>1, <1>4 DEF Layout, HandlesAgree
<1>8. SlotsInBitmap'
    <2>1. \A q \in Pools : q # p => words'[q] = words[q]
        BY <1>1, <1>4 DEF TypeOK
    <2>. QED
        BY <1>1, <1>2, <1>4, <2>1 DEF Layout, SlotsInBitmap
<1>9. CompactUnlessFragmented'
    <2>1. ASSUME NEW q \in Pools, ~ fragmented'[q] PROVE CompactPool(q)'
        <3>1. CASE q = p
            BY <1>2, <1>4, <3>1 DEF CompactPool
        <3>2. CASE q # p
            <4>1. ~ fragmented[q] /\ op.moved = FALSE
                BY <1>1, <1>4, <2>1, <3>2 DEF TypeOK, Idle
            <4>2. CompactPool(q)
                BY <4>1 DEF IInv, CompactUnlessFragmented
            <4>. QED
                BY <1>1, <1>4, <4>2, SameCompact, EntryNumbers
        <3>. QED
            BY <3>1, <3>2
    <2>. QED
        BY <2>1 DEF CompactUnlessFragmented
<1>10. NoSlotMeansFull'
    <2>1. SUFFICES ASSUME NEW q \in alive', (Slots(words[q]) \subseteq used[q])'
                   PROVE  IsFull(q)'
        BY DEF NoSlotMeansFull
    <2>2. q # p
        <3>1. 0 \in Slots(w)
            <4>1. w * WordBits \in Nat /\ w * WordBits >= 1
                BY MemPoolAssumption
            <4>. QED
                BY <4>1 DEF Slots
        <3>. QED
            BY <1>1, <1>2, <1>4, <2>1, <3>1 DEF TypeOK
    <2>3. q \in alive /\ words'[q] = words[q] /\ full'[q] = full[q]
        BY <1>1, <1>4, <2>1, <2>2 DEF TypeOK
    <2>4. IsFull(q)
        BY <1>4, <2>1, <2>3 DEF IInv, NoSlotMeansFull, Idle
    <2>. QED
        BY <1>4, <2>3, <2>4 DEF IsFull
<1>11. OpInv'
    BY <1>4, IdleOp
<1>. QED
    BY <1>5, <1>6, <1>7, <1>8, <1>9, <1>10, <1>11 DEF IInv

LEMMA DestroyPoolInv ==
    ASSUME IInv, NEW p \in Pools, DestroyPool(p)
    PROVE  IInv'
<1>1. TypeOK /\ Layout
    BY DEF IInv, Layout
<1>2. used[p] = {}
    BY <1>1, EmptyFact DEF DestroyPool
<1>3. /\ alive' = alive \ {p} /\ op = Idle /\ op' = Idle
      /\ words' = words /\ used' = used /\ entries' = entries /\ remain' = remain
      /\ fragmented' = fragmented /\ full' = full /\ access' = access
      /\ handle' = handle /\ mem' = mem
    BY DEF DestroyPool
<1>4. TypeOK'
    BY <1>1, <1>3 DEF TypeOK, Cell
<1>5. EntriesOrdered' /\ DataKept' /\ EntriesOwned' /\ FirstAtBase' /\ RemainExact'
    BY <1>1, <1>3 DEF Layout, EntriesOrdered, DataKept, EntriesOwned, FirstAtBase,
                      RemainExact, FreeCells, Base, Size, End
<1>6. HandlesAgree'
    BY <1>1, <1>2, <1>3 DEF Layout, HandlesAgree
<1>7. SlotsInBitmap'
    BY <1>1, <1>3 DEF Layout, SlotsInBitmap
<1>8. CompactUnlessFragmented'
    BY <1>3 DEF IInv, CompactUnlessFragmented, CompactPool, Base, GapStart, End
<1>9. NoSlotMeansFull'
    BY <1>3 DEF IInv, NoSlotMeansFull, IsFull
<1>10. OpInv'
    BY <1>3, IdleOp
<1>. QED
    BY <1>4, <1>5, <1>6, <1>7, <1>8, <1>9, <1>10 DEF IInv

LEMMA AccessInv ==
    ASSUME IInv, NEW p \in Pools, OpenAccess(p) \/ CloseAccess(p)
    PROVE  IInv'
<1>1. TypeOK /\ Layout
    BY DEF IInv, Layout
<1>2. /\ alive' = alive /\ op = Idle /\ op' = Idle
      /\ words' = words /\ used' = used /\ entries' = entries /\ remain' = remain
      /\ fragmented' = fragmented /\ full' = full /\ handle' = handle /\ mem' = mem
    BY DEF OpenAccess, CloseAccess
<1>3. access' \in [Pools -> 0 .. MaxAccess]
    <2>1. CASE OpenAccess(p)
        <3>1. access[p] + 1 \in 0 .. MaxAccess
            BY <1>1, <2>1, MemPoolAssumption DEF OpenAccess, TypeOK
        <3>. QED
            BY <1>1, <2>1, <3>1 DEF OpenAccess, TypeOK
    <2>2. CASE CloseAccess(p)
        <3>1. access[p] - 1 \in 0 .. MaxAccess
            BY <1>1, <2>2, MemPoolAssumption DEF CloseAccess, TypeOK
        <3>. QED
            BY <1>1, <2>2, <3>1 DEF CloseAccess, TypeOK
    <2>. QED
        BY <2>1, <2>2
<1>4. TypeOK'
    BY <1>1, <1>2, <1>3 DEF TypeOK, Cell
<1>5. Layout'
    BY <1>1, <1>2, SameLayout DEF Layout, SlotsInBitmap
<1>6. CompactUnlessFragmented'
    BY <1>2 DEF IInv, CompactUnlessFragmented, CompactPool, Base, GapStart, End
<1>7. NoSlotMeansFull'
    BY <1>2 DEF IInv, NoSlotMeansFull, IsFull
<1>8. OpInv'
    BY <1>2, IdleOp
<1>. QED
    BY <1>4, <1>5, <1>6, <1>7, <1>8 DEF IInv, Layout

-----------------------------------------------------------------------------
(* Allocation and release.                                                 *)

\* An empty pool has room for every request it has the memory for.
LEMMA WalkOfEmpty ==
    ASSUME TypeOK, Layout, NEW p \in Pools, used[p] = {}, NEW w \in 1 .. MaxWords,
           NEW size \in Nat, size <= remain[p], NEW r \in Walk(p, -1, w, size)
    PROVE  r.e # -1
<1>1. 0 \in Slots(w)
    <2>1. w * WordBits \in Nat /\ w * WordBits >= 1
        BY MemPoolAssumption
    <2>. QED
        BY <2>1 DEF Slots
<1>2. Gap(p, 0) = PoolSize[p]
    BY MemPoolAssumption DEF Gap, GapStart, GapEnd, NextUsed
<1>3. Empty(p)
    BY EmptyFact
<1>4. 0 \in Fitting(p, -1, w, size)
    BY <1>1, <1>2, <1>3 DEF Fitting, RunStarts, Empty
<1>5. Slots(w) \subseteq Nat
    BY SlotsAreNat, MemPoolAssumption
<1>6. Fitting(p, -1, w, size) \subseteq Slots(w)
    BY DEF Fitting, RunStarts
<1>7. Least(Fitting(p, -1, w, size)) \in Slots(w)
    BY <1>4, <1>5, <1>6, LeastIsLeast
<1>8. r \in Settle(p, Least(Fitting(p, -1, w, size)), w)
    BY <1>4 DEF Walk
<1>9. r.e = Least(Fitting(p, -1, w, size))
    <2>1. used[p] \subseteq Slots(w)
        OBVIOUS
    <2>2. PICK e \in Slots(w) : e = Least(Fitting(p, -1, w, size))
        BY <1>7
    <2>3. r \in Settle(p, e, w)
        BY <1>8, <2>2
    <2>. QED
        BY <2>1, <2>2, <2>3, SettleFact
<1>. QED
    BY <1>5, <1>7, <1>9

\* A pool whose bitmap a walk settled is full if it has no slot left.
LEMMA SettledIsFull ==
    ASSUME TypeOK, NEW p \in Pools, NEW r \in Outcome, GoodBitmap(p, r), full'[p] = r.full,
           words'[p] = r.words,
           used'[p] = IF r.e = -1 THEN used[p] ELSE used[p] \cup {r.e},
           (Slots(words[p]) \subseteq used[p])'
    PROVE  IsFull(p)'
<1>1. \A i \in Slots(r.words) : i = r.e \/ i \in used[p]
    BY DEF Slots
<1>. QED
    BY <1>1 DEF GoodBitmap, IsFull

\* The end of mem_pool_alloc(), with the slot a walk found or without one.
LEMMA WalkEnd ==
    ASSUME TypeOK, Layout, NEW p \in Pools, p \in alive, NEW o \in Owners,
           handle[o] = NoHandle, NEW size \in Nat \ {0}, NEW r \in Outcome,
           GoodBitmap(p, r),
           r.e # -1 => r.e \in Slots(r.words) /\ Suits(p, r.e, size),
           SetBitmap(p, r),
           IF r.e # -1 THEN Take(p, o, size, r)
           ELSE UNCHANGED <<used, entries, remain, handle, mem>>,
           \A q \in alive : Slots(words[q]) \subseteq used[q] => IsFull(q),
           \A q \in Pools : ~ fragmented'[q] => CompactPool(q),
           alive' = alive, access' = access, fragmented' \in [Pools -> BOOLEAN],
           op' \in Op
    PROVE  TypeOK' /\ Layout' /\ CompactUnlessFragmented' /\ NoSlotMeansFull'
<1>1. /\ words' = [words EXCEPT ![p] = r.words] /\ full' = [full EXCEPT ![p] = r.full]
      /\ words' \in [Pools -> 1 .. MaxWords] /\ full' \in [Pools -> BOOLEAN]
      /\ words'[p] = r.words /\ full'[p] = r.full
      /\ \A q \in Pools : q # p => words'[q] = words[q] /\ full'[q] = full[q]
    BY DEF SetBitmap, GoodBitmap, TypeOK
<1>2. /\ Layout' /\ TableTyped'
      /\ \A q \in Pools : used'[q] = IF q = p /\ r.e # -1 THEN used[q] \cup {r.e} ELSE used[q]
      /\ \A q \in Pools : \A k \in used[q] : entries'[q][k] = entries[q][k]
      /\ r.e # -1 => entries'[p][r.e].base = GapStart(p, r.e)
      /\ \A q \in Pools : q # p => remain'[q] = remain[q]
    <2>1. CASE r.e # -1
        <3>1. r.e \in Slots(r.words) /\ Suits(p, r.e, size) /\ Take(p, o, size, r)
            BY <2>1
        <3>2. SlotTaken(p, r, size)
            BY <1>1, <3>1, TakeLayout
        <3>3. \A q \in Pools : q # p => remain'[q] = remain[q]
            BY <3>1 DEF Take, TypeOK
        <3>. QED
            BY <2>1, <3>2, <3>3 DEF SlotTaken
    <2>2. CASE r.e = -1
        <3>1. /\ used' = used /\ entries' = entries /\ remain' = remain
              /\ handle' = handle /\ mem' = mem
            BY <2>2
        <3>2. \A q \in Pools : used[q] \subseteq Slots(words'[q])
            BY <1>1 DEF GoodBitmap, Layout, SlotsInBitmap
        <3>3. Layout'
            BY <3>1, <3>2, SameLayout
        <3>4. TableTyped'
            BY <3>1 DEF TableTyped, TypeOK, Cell
        <3>. QED
            BY <2>2, <3>1, <3>3, <3>4
    <2>. QED
        BY <2>1, <2>2
<1>3. TypeOK'
    BY <1>1, <1>2 DEF TableTyped, TypeOK
<1>4. CompactUnlessFragmented'
    <2>1. ASSUME NEW q \in Pools, ~ fragmented'[q] PROVE CompactPool(q)'
        <3>1. CompactPool(q)
            BY <2>1
        <3>2. \A k \in used[q] : k \in Nat /\ entries'[q][k] = entries[q][k]
            BY <1>2, EntryNumbers
        <3>3. CASE q # p \/ r.e = -1
            <4>1. used'[q] = used[q]
                BY <1>2, <3>3
            <4>. QED
                BY <3>1, <3>2, <4>1, SameCompact
        <3>4. CASE q = p /\ r.e # -1
            <4>1. r.e \in Nat /\ r.e \notin used[p] /\ (r.e = 0 \/ r.e - 1 \in used[p])
                BY <3>4, SlotsAreNat, MemPoolAssumption DEF Suits, GoodBitmap
            <4>2. used'[p] = used[p] \cup {r.e} /\ entries'[p][r.e].base = GapStart(p, r.e)
                BY <1>2, <3>4
            <4>. QED
                BY <3>1, <3>2, <3>4, <4>1, <4>2, AddCompact
        <3>. QED
            BY <3>3, <3>4
    <2>. QED
        BY <2>1 DEF CompactUnlessFragmented
<1>5. NoSlotMeansFull'
    <2>1. SUFFICES ASSUME NEW q \in alive', (Slots(words[q]) \subseteq used[q])'
                   PROVE  IsFull(q)'
        BY DEF NoSlotMeansFull
    <2>2. q \in Pools /\ q \in alive
        BY <2>1 DEF TypeOK
    <2>3. CASE q = p
        <3>1. used'[p] = IF r.e = -1 THEN used[p] ELSE used[p] \cup {r.e}
            BY <1>2
        <3>. QED
            BY <1>1, <2>1, <2>3, <3>1, SettledIsFull
    <2>4. CASE q # p
        <3>1. IsFull(q)
            BY <1>1, <1>2, <2>1, <2>2, <2>4
        <3>. QED
            BY <1>1, <1>2, <2>2, <2>4, <3>1 DEF IsFull
    <2>. QED
        BY <2>3, <2>4
<1>. QED
    BY <1>2, <1>3, <1>4, <1>5

LEMMA MemPoolAllocInv ==
    ASSUME IInv, NEW p \in Pools, NEW o \in Owners, NEW size \in Sizes,
           NEW defrag \in BOOLEAN, MemPoolAlloc(p, o, size, defrag)
    PROVE  IInv'
<1>1. TypeOK /\ Layout
    BY DEF IInv, Layout
<1>2. /\ op = Idle /\ p \in alive /\ handle[o] = NoHandle /\ size <= remain[p]
      /\ alive' = alive /\ fragmented' = fragmented /\ access' = access
    BY DEF MemPoolAlloc
<1>3. size \in Nat \ {0}
    BY MemPoolAssumption
<1>4a. PICK w \in EntryWords(p) : \E r \in Walk(p, -1, w, size) :
         /\ SetBitmap(p, r)
         /\ IF r.e # -1
            THEN Take(p, o, size, r) /\ op' = op
            ELSE /\ op' = IF defrag /\ ~ r.full
                          THEN [StartDefrag(p, "alloc") EXCEPT !.owner = o, !.size = size]
                          ELSE op
                 /\ UNCHANGED <<used, entries, remain, handle, mem>>
    BY DEF MemPoolAlloc
<1>4. PICK r \in Walk(p, -1, w, size) :
         /\ SetBitmap(p, r)
         /\ IF r.e # -1
            THEN Take(p, o, size, r) /\ op' = op
            ELSE /\ op' = IF defrag /\ ~ r.full
                          THEN [StartDefrag(p, "alloc") EXCEPT !.owner = o, !.size = size]
                          ELSE op
                 /\ UNCHANGED <<used, entries, remain, handle, mem>>
    BY <1>4a
<1>5. w \in 1 .. MaxWords /\ used[p] \subseteq Slots(w)
    <2>1. words[p] \in 1 .. MaxWords /\ used[p] \subseteq Slots(words[p])
        BY <1>1 DEF TypeOK, Layout, SlotsInBitmap
    <2>2. CASE w = words[p]
        BY <2>1, <2>2
    <2>3. CASE w # words[p]
        <3>1. w = words[p] + 1 /\ words[p] < MaxWords
            BY <2>3 DEF EntryWords, GrowsTo
        <3>. QED
            BY <2>1, <3>1, NextWord, MemPoolAssumption
    <2>. QED
        BY <2>2, <2>3
<1>6. /\ r \in Outcome /\ GoodBitmap(p, r)
      /\ r.e # -1 => r.e \in Slots(r.words) /\ Suits(p, r.e, size)
    BY <1>3, <1>5, WalkFact
<1>7. PICK d : d = StartDefrag(p, "alloc")
    OBVIOUS
<1>8. DefragLocals(p, "alloc", d)
    <2>1. DefragLocals(p, "alloc", StartDefrag(p, "alloc"))
        BY <1>1, StartDefragFact
    <2>. QED
        BY <1>7, <2>1
<1>9. \/ op' = Idle
      \/ r.e = -1 /\ op' = [d EXCEPT !.owner = o, !.size = size]
    BY <1>2, <1>4, <1>7
<1>10. op' \in Op
    <2>1. CASE op' = Idle
        BY <2>1, IdleOp
    <2>2. CASE op' = [d EXCEPT !.owner = o, !.size = size]
        BY <1>3, <1>8, <2>2 DEF DefragLocals, Op
    <2>. QED
        BY <1>9, <2>1, <2>2
<1>11. TypeOK' /\ Layout' /\ CompactUnlessFragmented' /\ NoSlotMeansFull'
    <2>1. \A q \in Pools : ~ fragmented'[q] => CompactPool(q)
        BY <1>2 DEF IInv, CompactUnlessFragmented, Idle
    <2>2. \A q \in alive : Slots(words[q]) \subseteq used[q] => IsFull(q)
        BY <1>2 DEF IInv, NoSlotMeansFull, Idle
    <2>3. IF r.e # -1 THEN Take(p, o, size, r)
          ELSE UNCHANGED <<used, entries, remain, handle, mem>>
        BY <1>4
    <2>4. fragmented' \in [Pools -> BOOLEAN] /\ SetBitmap(p, r)
        BY <1>1, <1>2, <1>4 DEF TypeOK
    <2>. QED
        BY <1>1, <1>2, <1>3, <1>6, <1>10, <2>1, <2>2, <2>3, <2>4, WalkEnd
<1>12. OpInv'
    <2>1. CASE op' = Idle
        BY <2>1, IdleOp
    <2>2. CASE r.e = -1 /\ op' = [d EXCEPT !.owner = o, !.size = size]
        <3>1. used[p] # {}
            BY <1>1, <1>2, <1>3, <1>5, <2>2, WalkOfEmpty
        <3>2. /\ op'.pc = d.pc /\ op'.caller = "alloc" /\ op'.to = p
              /\ op'.last = 0 /\ op'.moved = FALSE /\ op'.owner = o
              /\ op'.size = size
            BY <1>8, <2>2 DEF DefragLocals, Op
        <3>3. used' = used /\ entries' = entries /\ handle' = handle /\ remain' = remain
            BY <1>4, <2>2
        <3>4. op'.pc = "defrag" /\ fragmented'[p] => CompactTo(op.to, op.last)'
            BY <1>2, <1>8, <3>2, <3>3 DEF DefragLocals, CompactTo, GapStart, Base, End
        <3>5. ~ full'[p]
            <4>1. op' # op
                BY <1>2, <3>2 DEF Idle
            <4>2. ~ r.full
                BY <1>4, <2>2, <4>1
            <4>. QED
                BY <1>1, <1>4, <4>2 DEF SetBitmap, TypeOK
        <3>. QED
            BY <1>2, <1>3, <1>8, <3>1, <3>2, <3>3, <3>4, <3>5 DEF OpInv, DefragLocals
    <2>. QED
        BY <1>9, <2>1, <2>2
<1>. QED
    BY <1>11, <1>12 DEF IInv, Layout

LEMMA MemPoolFreeInv ==
    ASSUME IInv, NEW x \in Owners, MemPoolFree(x)
    PROVE  IInv'
<1>1. TypeOK /\ Layout
    BY DEF IInv, Layout
<1>2a. EntryFreed(x)
    BY <1>1, FreeLayout
<1>2. /\ Layout'
      /\ handle[x].pool \in Pools
      /\ handle[x].id \in used[handle[x].pool]
      /\ \A q \in Pools :
            used'[q] = IF q = handle[x].pool THEN used[q] \ {handle[x].id} ELSE used[q]
      /\ \A q \in Pools : \A k \in used'[q] : entries'[q][k] = entries[q][k]
    BY <1>2a DEF EntryFreed
<1>3. PICK p \in Pools : p = handle[x].pool
    BY <1>2
<1>4. PICK i \in used[p] : i = handle[x].id
    BY <1>2, <1>3
<1>5. /\ op = Idle /\ op' = Idle /\ alive' = alive /\ words' = words /\ access' = access
      /\ fragmented' = [fragmented EXCEPT ![p] =
                           @ \/ NextUnused(p, 0, words[p]) - 1 # i]
      /\ full' = [full EXCEPT ![p] = FALSE]
      /\ remain' = [remain EXCEPT ![p] = @ + Size(p, i)]
    BY <1>3, <1>4 DEF MemPoolFree
<1>6. /\ \A q \in Pools : used'[q] = IF q = p THEN used[q] \ {i} ELSE used[q]
      /\ \A q \in Pools : \A k \in used'[q] : entries'[q][k] = entries[q][k]
    BY <1>2, <1>3, <1>4
<1>7. TypeOK'
    BY <1>1, <1>2a, <1>5, IdleOp DEF EntryFreed, TableTyped, TypeOK
<1>8. CompactUnlessFragmented'
    <2>1. ASSUME NEW q \in Pools, ~ fragmented'[q] PROVE CompactPool(q)'
        <3>1. ~ fragmented[q] /\ (q = p => NextUnused(p, 0, words[p]) - 1 = i)
            BY <1>1, <1>5, <2>1 DEF TypeOK
        <3>2. CompactPool(q)
            BY <1>5, <3>1 DEF IInv, CompactUnlessFragmented, Idle
        <3>3. \A k \in used[q] : k \in Nat
            BY <1>1, EntryNumbers
        <3>4. CASE q # p
            BY <1>6, <3>2, <3>3, <3>4, SameCompact
        <3>5. CASE q = p
            <4>1. i \in Nat /\ words[p] \in 1 .. MaxWords
                BY <1>1, <3>3, <3>5 DEF TypeOK
            <4>2. i + 1 \notin used[p]
                <5>. DEFINE u == NextUnused(p, 0, words[p])
                <5>1. u = -1 \/ u \in Slots(words[p]) \ used[p]
                    BY <4>1, NextUnusedFact
                <5>2. Slots(words[p]) \subseteq Nat
                    BY <4>1, SlotsAreNat, MemPoolAssumption
                <5>3. u - 1 = i
                    BY <3>1, <3>5
                <5>. HIDE DEF u
                <5>. QED
                    BY <4>1, <5>1, <5>2, <5>3
            <4>3. \A k \in used'[p] : k \in used[p] /\ k # i /\ entries'[p][k] = entries[p][k]
                BY <1>6
            <4>4. SUFFICES ASSUME NEW k \in used'[p]
                           PROVE  /\ k > 0 => k - 1 \in used'[p]
                                  /\ Base(p, k)' = GapStart(p, k)'
                BY <3>5 DEF CompactPool
            <4>5. k \in used[p] /\ k # i /\ k # i + 1 /\ k \in Nat
                BY <3>3, <3>5, <4>2, <4>3
            <4>6. (k > 0 => k - 1 \in used[p]) /\ Base(p, k) = GapStart(p, k)
                BY <3>2, <3>5, <4>5 DEF CompactPool
            <4>7. k > 0 => k - 1 \in used'[p]
                <5>1. k > 0 => k - 1 # i
                    BY <4>1, <4>5
                <5>2. used'[p] = used[p] \ {i}
                    BY <1>6
                <5>. QED
                    BY <4>6, <5>1, <5>2
            <4>8. Base(p, k)' = Base(p, k)
                BY <4>3 DEF Base
            <4>9. GapStart(p, k)' = GapStart(p, k)
                BY <4>3, <4>5, <4>7 DEF GapStart, End
            <4>. QED
                BY <4>6, <4>7, <4>8, <4>9
        <3>. QED
            BY <3>4, <3>5
    <2>. QED
        BY <2>1 DEF CompactUnlessFragmented
<1>9. NoSlotMeansFull'
    <2>1. SUFFICES ASSUME NEW q \in alive', (Slots(words[q]) \subseteq used[q])'
                   PROVE  IsFull(q)'
        BY DEF NoSlotMeansFull
    <2>2. q \in Pools /\ q \in alive
        BY <1>1, <1>5, <2>1 DEF TypeOK
    <2>3. q # p
        <3>1. i \in Slots(words[p])
            BY <1>1 DEF Layout, SlotsInBitmap
        <3>. QED
            BY <1>5, <1>6, <2>1, <3>1
    <2>4. IsFull(q)
        BY <1>5, <1>6, <2>1, <2>2, <2>3 DEF IInv, NoSlotMeansFull, Idle
    <2>5. full'[q] = full[q] /\ remain'[q] = remain[q]
        BY <1>1, <1>5, <2>2, <2>3 DEF TypeOK
    <2>. QED
        BY <2>4, <2>5 DEF IsFull
<1>10. OpInv'
    BY <1>5, IdleOp
<1>. QED
    BY <1>2, <1>7, <1>8, <1>9, <1>10 DEF IInv, Layout

-----------------------------------------------------------------------------
(* Defragmentation.                                                        *)

\* A pool that a step left alone stays as compact and as full as it was.
LEMMA OthersCompact ==
    ASSUME TypeOK, Layout, CompactUnlessFragmented, NEW p \in Pools,
           fragmented'[p] = fragmented[p],
           ~ (op.moved /\ op.from = p), used'[p] = used[p],
           \A k \in used[p] : entries'[p][k] = entries[p][k]
    PROVE  ~ fragmented'[p] => CompactPool(p)'
BY SameCompact, EntryNumbers DEF CompactUnlessFragmented

LEMMA MemPoolDefragInv ==
    ASSUME IInv, NEW p \in Pools, MemPoolDefrag(p)
    PROVE  IInv'
<1>1. TypeOK /\ Layout
    BY DEF IInv, Layout
<1>2. /\ op = Idle /\ p \in alive /\ ~ Empty(p) /\ op' = StartDefrag(p, "defrag")
      /\ alive' = alive /\ words' = words /\ used' = used /\ entries' = entries
      /\ remain' = remain /\ fragmented' = fragmented /\ full' = full
      /\ access' = access /\ handle' = handle /\ mem' = mem
    BY DEF MemPoolDefrag
<1>3. DefragLocals(p, "defrag", op')
    <2>1. DefragLocals(p, "defrag", StartDefrag(p, "defrag"))
        BY <1>1, StartDefragFact
    <2>. QED
        BY <1>2, <2>1
<1>4. used[p] # {}
    BY <1>1, <1>2, EmptyFact
<1>5. TypeOK'
    BY <1>1, <1>2, <1>3 DEF TypeOK, Cell, DefragLocals
<1>6. Layout'
    BY <1>1, <1>2, SameLayout DEF Layout, SlotsInBitmap
<1>7. CompactUnlessFragmented'
    BY <1>2 DEF IInv, CompactUnlessFragmented, CompactPool, Base, GapStart, End, Idle
<1>8. NoSlotMeansFull'
    BY <1>2 DEF IInv, NoSlotMeansFull, IsFull, Idle
<1>9. OpInv'
    <2>1. op'.pc = "defrag" /\ fragmented'[p] => CompactTo(op.to, op.last)'
        BY <1>2, <1>3 DEF DefragLocals, CompactTo, GapStart, Base, End
    <2>. QED
        BY <1>2, <1>3, <1>4, <2>1 DEF OpInv, DefragLocals
<1>. QED
    BY <1>5, <1>6, <1>7, <1>8, <1>9 DEF IInv, Layout

\* A migration within the pool worked on leaves the other pools alone.
LEMMA DefragMove ==
    ASSUME IInv, NEW p \in Pools, p = op.to, p \in alive, fragmented[p],
           op.pc \in {"head", "defrag"}, NEW i \in used[p], NEW j \in Nat, NEW nb \in Nat,
           j <= i, Vacant(p, i, p, j, nb, Size(p, i)), MigrateEntry(p, p, i, j, nb),
           op' \in Op, op'.pc = "defrag", op'.moved = FALSE,
           UNCHANGED <<alive, words, remain, fragmented, full, access>>
    PROVE  /\ EntryMoved(p, i, p, j, nb)
           /\ TypeOK' /\ Layout' /\ CompactUnlessFragmented' /\ NoSlotMeansFull'
<1>1. TypeOK /\ Layout /\ OpInv
    BY DEF IInv, Layout
<1>2. i \in Slots(words[p]) /\ i \in Nat /\ words[p] \in 1 .. MaxWords
    BY <1>1, EntryNumbers DEF Layout, SlotsInBitmap, TypeOK
<1>3. j \in Slots(words[p]) /\ j \in Slot
    <2>1. j \in Slots(words[p])
        BY <1>2, MemPoolAssumption DEF Slots
    <2>. QED
        BY <1>2, <2>1, SlotsAreNat, MemPoolAssumption
<1>4. \A q \in Pools : used[q] \subseteq Slots(words'[q])
    BY <1>1 DEF Layout, SlotsInBitmap
<1>5. EntryMoved(p, i, p, j, nb)
    BY <1>1, <1>3, <1>4, MigrateLayout
<1>6. /\ Layout'
      /\ \A q \in Pools : \A k :
            k \in used'[q] <=> (q = p /\ k = j)
                               \/ (k \in used[q] /\ ~ (q = p /\ k = i))
      /\ \A q \in Pools : \A k \in used[q] :
            ~ (q = p /\ k = i) => entries'[q][k] = entries[q][k]
    BY <1>5 DEF EntryMoved
<1>7. TypeOK'
    BY <1>1, <1>5 DEF EntryMoved, TableTyped, TypeOK
<1>8. ASSUME NEW q \in Pools, q # p
      PROVE  used'[q] = used[q] /\ \A k \in used[q] : entries'[q][k] = entries[q][k]
    BY <1>6, <1>8
<1>9. op.moved = FALSE
    BY <1>1 DEF OpInv
<1>10. CompactUnlessFragmented'
    <2>1. ASSUME NEW q \in Pools, ~ fragmented'[q] PROVE CompactPool(q)'
        BY <1>1, <1>8, <1>9, <2>1, OthersCompact DEF IInv
    <2>. QED
        BY <2>1 DEF CompactUnlessFragmented
<1>11. NoSlotMeansFull'
    <2>1. SUFFICES ASSUME NEW q \in alive', (Slots(words[q]) \subseteq used[q])'
                   PROVE  IsFull(q)'
        BY DEF NoSlotMeansFull
    <2>2. q \in Pools /\ q \in alive
        BY <1>1, <2>1 DEF TypeOK
    <2>3. Slots(words[q]) \subseteq used[q]
        <3>1. CASE q # p
            BY <1>8, <2>1, <2>2, <3>1
        <3>2. CASE q = p
            <4>1. Slots(words[p]) \subseteq used'[p]
                BY <2>1, <3>2
            <4>2. i = j
                BY <1>2, <1>6, <4>1
            <4>. QED
                BY <1>6, <3>2, <4>1, <4>2
        <3>. QED
            BY <3>1, <3>2
    <2>4. IsFull(q)
        BY <2>2, <2>3 DEF IInv, NoSlotMeansFull
    <2>. QED
        BY <2>4 DEF IsFull
<1>. QED
    BY <1>5, <1>6, <1>7, <1>10, <1>11

LEMMA DefragHeadInv ==
    ASSUME IInv, DefragHead
    PROVE  IInv'
<1>1. TypeOK /\ Layout /\ OpInv
    BY DEF IInv, Layout
<1>2. op.pc = "head" /\ op.to \in alive
    BY <1>1 DEF DefragHead, OpInv
<1>3. PICK p \in Pools : p = op.to
    BY <1>1, <1>2 DEF TypeOK
<1>4. /\ p \in alive /\ fragmented[p] /\ 0 \notin used[p] /\ used[p] # {} /\ op.last = 0
      /\ op.caller # "none" /\ op.moved = FALSE
    BY <1>1, <1>2, <1>3 DEF OpInv
<1>5. \A k \in used[p] : /\ k \in Nat /\ k >= 1 /\ Base(p, k) \in Nat /\ Size(p, k) \in Nat
                         /\ End(p, k) = Base(p, k) + Size(p, k)
                         /\ End(p, k) <= PoolSize[p] /\ PoolSize[p] \in Nat
    BY <1>1, <1>4, EntryNumbers
<1>6. PICK b \in used[p] : b = NextUsed(p, 1) /\ \A k \in used[p] : b <= k
    <2>1. used[p] \subseteq Nat
        BY <1>5
    <2>2. \E k \in used[p] : ~ (k < 1)
        BY <1>4, <1>5
    <2>. QED
        BY <1>5, <2>1, <2>2, NextUsedFact
<1>7. /\ MigrateEntry(p, p, b, 0, 0)
      /\ op' = [op EXCEPT !.pc = "defrag"]
      /\ alive' = alive /\ words' = words /\ remain' = remain
      /\ fragmented' = fragmented /\ full' = full /\ access' = access
    BY <1>3, <1>6 DEF DefragHead
<1>8. Vacant(p, b, p, 0, 0, Size(p, b))
    <2>1. ASSUME NEW k \in used[p], k # b
          PROVE  k # 0 /\ ~ (k < 0) /\ Size(p, b) <= Base(p, k)
        <3>1. b < k
            BY <1>5, <1>6, <2>1
        <3>2. End(p, b) <= Base(p, k)
            BY <1>1, <3>1 DEF Layout, EntriesOrdered
        <3>. QED
            BY <1>5, <3>2
    <2>2. 0 + Size(p, b) <= PoolSize[p] /\ 0 + Size(p, b) = Size(p, b)
        BY <1>5
    <2>. QED
        BY <2>1, <2>2 DEF Vacant
<1>9. /\ op' \in Op /\ op'.pc = "defrag" /\ op'.moved = FALSE
      /\ op'.to = p /\ op'.last = 0 /\ op'.caller = op.caller /\ op'.owner = op.owner
      /\ op'.size = op.size /\ op'.from = op.from
    BY <1>1, <1>3, <1>4, <1>7 DEF TypeOK, Op
<1>10. b >= 0 /\ 0 \in Nat
    BY <1>5
<1>11. /\ EntryMoved(p, b, p, 0, 0)
       /\ TypeOK' /\ Layout' /\ CompactUnlessFragmented' /\ NoSlotMeansFull'
    BY <1>2, <1>3, <1>4, <1>7, <1>8, <1>9, <1>10, DefragMove
<1>12. OpInv'
    <2>1. CompactTo(op.to, op.last)'
        <3>1. 0 \in used'[p] /\ entries'[p][0].base = 0
            BY <1>11 DEF EntryMoved
        <3>2. Base(p, 0)' = 0 /\ GapStart(p, 0)' = 0
            BY <3>1 DEF Base, GapStart
        <3>. QED
            BY <1>9, <3>1, <3>2 DEF CompactTo
    <2>2. op.caller = "alloc" => handle'[op.owner] = NoHandle
        BY <1>1, <1>2, <1>11 DEF OpInv, EntryMoved
    <2>3. op.caller = "alloc" => /\ op.owner \in Owners /\ op.size > 0 /\ op.size <= remain[p]
                                 /\ ~ full[p]
        BY <1>1, <1>2, <1>3 DEF OpInv
    <2>4. op.caller = "transfer" => op.from \in alive \ {p} /\ ~ IsFull(p)' /\ ~ Empty(p)'
        BY <1>1, <1>2, <1>3, <1>7 DEF OpInv, IsFull, Empty
    <2>. QED
        BY <1>4, <1>7, <1>9, <2>1, <2>2, <2>3, <2>4 DEF OpInv
<1>. QED
    BY <1>11, <1>12 DEF IInv, Layout

LEMMA DefragStepInv ==
    ASSUME IInv, DefragStep
    PROVE  IInv'
<1>1. TypeOK /\ Layout /\ OpInv
    BY DEF IInv, Layout
<1>2. op.pc = "defrag" /\ op.to \in alive
    BY <1>1 DEF DefragStep, OpInv
<1>3. PICK p \in Pools : p = op.to
    BY <1>1, <1>2 DEF TypeOK
<1>4. PICK last \in Nat : last = op.last
    BY <1>1, <1>2, <1>3 DEF OpInv, DefragStep
<1>5. /\ p \in alive /\ fragmented[p] /\ CompactTo(p, last)
      /\ op.caller # "none" /\ op.moved = FALSE
    BY <1>1, <1>2, <1>3, <1>4 DEF OpInv, DefragStep
<1>6. \A k \in used[p] : /\ k \in Nat /\ Base(p, k) \in Nat /\ Size(p, k) \in Nat
                         /\ End(p, k) \in Nat
                         /\ End(p, k) = Base(p, k) + Size(p, k)
                         /\ End(p, k) <= PoolSize[p] /\ PoolSize[p] \in Nat
    BY <1>1, EntryNumbers
<1>7. last \in used[p]
    BY <1>4, <1>5 DEF CompactTo
<1>8. PICK b \in used[p] : /\ b = NextUsed(p, last + 1) /\ b >= last + 1
                           /\ \A k \in used[p] : k >= last + 1 => b <= k
    <2>1. used[p] \subseteq Nat
        BY <1>6
    <2>2. NextUsed(p, last + 1) # -1
        BY <1>3, <1>4 DEF DefragStep, DefragStops
    <2>. QED
        BY <2>1, <2>2, NextUsedFact
<1>9. /\ MigrateEntry(p, p, b, last + 1, End(p, last))
      /\ op' = [op EXCEPT !.last = @ + 1]
      /\ alive' = alive /\ words' = words /\ remain' = remain
      /\ fragmented' = fragmented /\ full' = full /\ access' = access
    BY <1>3, <1>4, <1>8 DEF DefragStep
<1>10. End(p, last) <= Base(p, b)
    BY <1>1, <1>6, <1>7, <1>8 DEF Layout, EntriesOrdered
<1>11. Vacant(p, b, p, last + 1, End(p, last), Size(p, b))
    <2>1. ASSUME NEW k \in used[p], k # b
          PROVE  /\ k # last + 1
                 /\ k < last + 1 => End(p, k) <= End(p, last)
                 /\ last + 1 < k => End(p, last) + Size(p, b) <= Base(p, k)
        <3>1. k # last + 1
            BY <1>6, <1>8, <2>1
        <3>2. ASSUME k < last + 1 PROVE End(p, k) <= End(p, last)
            <4>1. CASE k = last
                BY <1>6, <4>1
            <4>2. CASE k < last
                <5>1. End(p, k) <= Base(p, last)
                    BY <1>1, <1>7, <4>2 DEF Layout, EntriesOrdered
                <5>. QED
                    BY <1>6, <1>7, <5>1
            <4>. QED
                BY <1>6, <3>2, <4>1, <4>2
        <3>3. ASSUME last + 1 < k PROVE End(p, last) + Size(p, b) <= Base(p, k)
            <4>1. b < k
                BY <1>6, <1>8, <2>1, <3>3
            <4>2. End(p, b) <= Base(p, k)
                BY <1>1, <4>1 DEF Layout, EntriesOrdered
            <4>. QED
                BY <1>6, <1>7, <1>10, <4>2
        <3>. QED
            BY <3>1, <3>2, <3>3
    <2>2. End(p, last) + Size(p, b) <= PoolSize[p] /\ last + 1 # 0
        BY <1>6, <1>7, <1>10
    <2>. QED
        BY <2>1, <2>2 DEF Vacant
<1>12. /\ op' \in Op /\ op'.pc = "defrag" /\ op'.moved = FALSE
       /\ op'.to = p /\ op'.last = last + 1 /\ op'.caller = op.caller
       /\ op'.owner = op.owner /\ op'.size = op.size /\ op'.from = op.from
    <2>1. op' = [op EXCEPT !.last = last + 1] /\ op \in Op
        BY <1>1, <1>4, <1>9 DEF TypeOK
    <2>. QED
        BY <1>2, <1>3, <1>5, <2>1 DEF Op
<1>13. b >= last + 1 /\ last + 1 \in Nat /\ End(p, last) \in Nat
    BY <1>6, <1>7, <1>8
<1>14. /\ EntryMoved(p, b, p, last + 1, End(p, last))
       /\ TypeOK' /\ Layout' /\ CompactUnlessFragmented' /\ NoSlotMeansFull'
    BY <1>2, <1>3, <1>5, <1>9, <1>11, <1>12, <1>13, DefragMove
<1>15. OpInv'
    <2>1. ASSUME NEW k \in 0 .. last + 1
          PROVE  k \in used'[p] /\ Base(p, k)' = GapStart(p, k)'
        <3>1. \A m \in 0 .. last : m \in used[p] /\ m # b /\ Base(p, m) = GapStart(p, m)
            BY <1>5, <1>6, <1>8 DEF CompactTo
        <3>2. \A m \in 0 .. last : /\ m \in used'[p] /\ entries'[p][m] = entries[p][m]
                                   /\ Base(p, m)' = Base(p, m) /\ End(p, m)' = End(p, m)
            BY <1>14, <3>1 DEF EntryMoved, Base, End
        <3>3. CASE k = last + 1
            <4>1. k \in used'[p] /\ entries'[p][k].base = End(p, last)
                BY <1>14, <3>3 DEF EntryMoved
            <4>2. GapStart(p, k)' = End(p, last)'
                BY <3>3 DEF GapStart
            <4>. QED
                BY <3>2, <4>1, <4>2 DEF Base
        <3>4. CASE k \in 0 .. last
            <4>1. GapStart(p, k)' = GapStart(p, k)
                BY <3>2, <3>4 DEF GapStart
            <4>. QED
                BY <3>1, <3>2, <3>4, <4>1
        <3>. QED
            BY <3>3, <3>4
    <2>2. CompactTo(op.to, op.last)'
        BY <1>12, <2>1 DEF CompactTo
    <2>3. op.caller = "alloc" => handle'[op.owner] = NoHandle
        BY <1>1, <1>2, <1>14 DEF OpInv, EntryMoved
    <2>4. op.caller = "alloc" => /\ op.owner \in Owners /\ op.size > 0 /\ op.size <= remain[p]
                                 /\ ~ full[p]
        BY <1>1, <1>2, <1>3 DEF OpInv
    <2>5. op.caller = "transfer" => op.from \in alive \ {p} /\ ~ IsFull(p)' /\ ~ Empty(p)'
        BY <1>1, <1>2, <1>3, <1>9 DEF OpInv, IsFull, Empty
    <2>. QED
        BY <1>5, <1>9, <1>12, <1>13, <2>2, <2>3, <2>4, <2>5 DEF OpInv
<1>. QED
    BY <1>14, <1>15 DEF IInv, Layout

\* What defrag_pool() hands back: in front of the last busy slot the pool is
\* compact, and when it stops being fragmented it is compact altogether.
LEMMA DefragResult ==
    ASSUME IInv, DefragDone, NEW p \in Pools, p = op.to, NEW last,
           last = IF fragmented[p] THEN op.last ELSE LastBusy(p)
    PROVE  /\ last \in Int
           /\ \A q \in Pools : ~ fragmented'[q] => CompactPool(q)
           /\ op.caller = "alloc" =>
                 last = -1 \/ last \in used[p] \/ Slots(words[p]) \subseteq used[p]
           /\ op.caller = "transfer" =>
                 last >= -1 /\ CompactTo(p, last) /\ UsedUpTo(p, last)
<1>1. TypeOK /\ Layout /\ OpInv
    BY DEF IInv, Layout
<1>2. /\ op.pc = "defrag" /\ op.caller # "none" /\ op.moved = FALSE /\ p \in alive
      /\ fragmented[p] => op.last \in Nat /\ CompactTo(p, op.last)
      /\ fragmented[p] => DefragStops(p, NextUsed(p, op.last + 1))
      /\ fragmented' = [fragmented EXCEPT ![p] = @ /\ NextUnused(p, last + 1, words[p]) # -1]
    BY <1>1 DEF DefragDone, OpInv
<1>3. /\ words[p] \in 1 .. MaxWords /\ used[p] \subseteq Slots(words[p])
      /\ Slots(words[p]) \subseteq Nat
      /\ \A k \in used[p] : k \in Nat
    BY <1>1, SlotsAreNat, MemPoolAssumption DEF TypeOK, Layout, SlotsInBitmap
<1>4. \A q \in Pools : ~ fragmented[q] => CompactPool(q)
    BY <1>2 DEF IInv, CompactUnlessFragmented
<1>5. CASE fragmented[p]
    <2>1. last \in Nat /\ last = op.last /\ CompactTo(p, last)
        BY <1>2, <1>5
    <2>2. last \in used[p]
        BY <2>1 DEF CompactTo
    <2>. DEFINE b == NextUsed(p, last + 1)
    <2>3. DefragStops(p, b)
        BY <1>2, <1>5, <2>1
    <2>4. \/ b = -1 /\ \A k \in used[p] : k < last + 1
          \/ b \in used[p] /\ b >= last + 1
        <3>1. used[p] \subseteq Nat
            BY <1>3
        <3>. QED
            BY <2>1, <3>1, NextUsedFact
    <2>. HIDE DEF b
    <2>5. b = -1 => UsedUpTo(p, last)
        BY <1>3, <2>1, <2>4 DEF UsedUpTo
    <2>6. ASSUME ~ fragmented'[p] PROVE CompactPool(p)
        <3>1. NextUnused(p, last + 1, words[p]) = -1
            BY <1>1, <1>2, <1>5, <2>6 DEF TypeOK
        <3>2. \A k \in Slots(words[p]) : k >= last + 1 => k \in used[p]
            <4>1. last + 1 \in Int
                BY <2>1
            <4>2. NextUnused(p, last + 1, words[p]) \notin Slots(words[p])
                BY <1>3, <3>1
            <4>. QED
                BY <1>3, <4>1, <4>2, NextUnusedFact
        <3>3. b = -1
            <4>1. SUFFICES ASSUME b # -1 PROVE FALSE
                OBVIOUS
            <4>2. PICK k \in Slots(words[p]) \ used[p] : last <= k
                BY <2>1, <2>3, <4>1 DEF DefragStops
            <4>. QED
                BY <1>3, <2>1, <2>2, <3>2, <4>2
        <3>4. \A k \in used[p] : k \in 0 .. last
            BY <1>3, <2>1, <2>5, <3>3 DEF UsedUpTo
        <3>5. \A k \in used[p] : Base(p, k) = GapStart(p, k)
            BY <2>1, <3>4 DEF CompactTo
        <3>6. \A k \in used[p] : k > 0 => k - 1 \in used[p]
            <4>1. SUFFICES ASSUME NEW k \in used[p], k > 0 PROVE k - 1 \in used[p]
                OBVIOUS
            <4>2. k - 1 \in 0 .. last
                BY <2>1, <3>4, <4>1
            <4>. QED
                BY <2>1, <4>2 DEF CompactTo
        <3>. QED
            BY <3>5, <3>6 DEF CompactPool
    <2>7. op.caller = "transfer" => b = -1
        <3>1. SUFFICES ASSUME op.caller = "transfer", b # -1 PROVE FALSE
            OBVIOUS
        <3>2. Base(p, b) - End(p, last) >= UlongMax
            BY <2>1, <2>3, <3>1 DEF DefragStops, Needed
        <3>3. /\ Base(p, b) \in Nat /\ End(p, last) \in Nat /\ PoolSize[p] \in Nat
              /\ Base(p, b) <= PoolSize[p]
            BY <1>1, <2>2, <2>4, <3>1, EntryNumbers
        <3>. QED
            BY <3>2, <3>3, MemPoolAssumption
    <2>8. \A q \in Pools : ~ fragmented'[q] => CompactPool(q)
        BY <1>1, <1>2, <1>4, <2>6 DEF TypeOK
    <2>. QED
        BY <2>1, <2>2, <2>5, <2>7, <2>8
<1>6. CASE ~ fragmented[p]
    <2>1. last = LastBusy(p) /\ CompactPool(p)
        BY <1>4, <1>6
    <2>2. \A q \in Pools : ~ fragmented'[q] => CompactPool(q)
        BY <1>1, <1>2, <1>4, <1>6 DEF TypeOK
    <2>. DEFINE u == NextUnused(p, 0, words[p])
    <2>3. \/ u = -1 /\ Slots(words[p]) \subseteq used[p]
          \/ /\ u \in Slots(words[p]) /\ u \notin used[p] /\ u \in Nat
             /\ \A k \in Slots(words[p]) : k < u => k \in used[p]
        <3>1. CASE u = -1
            BY <1>3, <3>1, NextUnusedFact
        <3>2. CASE u # -1
            <4>1. /\ u \in Slots(words[p]) \ used[p]
                  /\ \A k \in Slots(words[p]) \ used[p] : k >= 0 => u <= k
                BY <1>3, <3>2, NextUnusedFact
            <4>. HIDE DEF u
            <4>. QED
                BY <1>3, <4>1
        <3>. QED
            BY <3>1, <3>2
    <2>4. \/ last = 0 /\ op.caller = "defrag"
          \/ last = -1 /\ op.caller # "defrag" /\ IsFull(p)
          \/ last = u - 1 /\ ~ IsFull(p)
        BY <2>1 DEF LastBusy
    <2>. HIDE DEF u
    <2>5. u \in Slots(words[p]) => \A k \in 0 .. u - 1 : k \in Slots(words[p])
        BY <1>3, MemPoolAssumption DEF Slots
    <2>6. last \in Int
        BY <2>3, <2>4
    <2>7. ASSUME op.caller = "alloc"
          PROVE  last = -1 \/ last \in used[p] \/ Slots(words[p]) \subseteq used[p]
        <3>1. CASE last = -1 \/ u = -1
            BY <2>3, <3>1
        <3>2. CASE last # -1 /\ u # -1
            <4>1. last = u - 1 /\ u \in Nat /\ u \in Slots(words[p])
                BY <2>3, <2>4, <2>7, <3>2
            <4>2. last \in 0 .. u - 1
                BY <3>2, <4>1
            <4>. QED
                BY <2>3, <2>5, <3>2, <4>1, <4>2
        <3>. QED
            BY <3>1, <3>2
    <2>8. ASSUME op.caller = "transfer"
          PROVE  last >= -1 /\ CompactTo(p, last) /\ UsedUpTo(p, last)
        <3>1. ~ IsFull(p)
            BY <1>1, <1>2, <2>8 DEF OpInv
        <3>2. ~ Slots(words[p]) \subseteq used[p]
            BY <1>2, <3>1 DEF IInv, NoSlotMeansFull
        <3>3. last = u - 1 /\ u \in Nat /\ u \in Slots(words[p]) /\ u \notin used[p]
            BY <2>3, <2>4, <2>8, <3>1, <3>2
        <3>4. \A k \in 0 .. last : k \in used[p]
            BY <2>3, <2>5, <3>3
        <3>5. CompactTo(p, last)
            BY <2>1, <3>4 DEF CompactTo, CompactPool
        <3>6. UsedUpTo(p, last)
            BY <1>1, <2>1, <3>3, CompactPrefix
        <3>. QED
            BY <3>3, <3>5, <3>6
    <2>. QED
        BY <2>2, <2>6, <2>7, <2>8
<1>. QED
    BY <1>5, <1>6

\* A slot that a walk finds is one of the bitmap.
LEMMA SettleOfFit ==
    ASSUME NEW p \in Pools, NEW w \in 1 .. MaxWords, used[p] \subseteq Slots(w),
           NEW b \in Int, NEW size \in Nat, Fitting(p, b, w, size) # {},
           NEW r \in Settle(p, Least(Fitting(p, b, w, size)), w)
    PROVE  r.e \in Slots(w) /\ r.e \in Nat
<1>1. Fitting(p, b, w, size) \subseteq Slots(w) /\ Slots(w) \subseteq Nat
    BY SlotsAreNat, MemPoolAssumption DEF Fitting, RunStarts
<1>2. PICK e \in Slots(w) : e = Least(Fitting(p, b, w, size))
    BY <1>1, LeastIsLeast
<1>3. r \in Settle(p, e, w)
    BY <1>2
<1>4. r.e = e
    BY <1>3, SettleFact
<1>. QED
    BY <1>1, <1>2, <1>4

\* A compact pool with an unused slot has its entries in front of the first.
LEMMA CompactUpTo ==
    ASSUME TypeOK, Layout, NEW p \in Pools, CompactPool(p),
           ~ Slots(words[p]) \subseteq used[p],
           NEW last, last = NextUnused(p, 0, words[p]) - 1
    PROVE  last \in Int /\ last >= -1 /\ CompactTo(p, last) /\ UsedUpTo(p, last)
<1>1. /\ words[p] \in 1 .. MaxWords /\ Slots(words[p]) \subseteq Nat
      /\ words[p] * WordBits \in Nat
    BY SlotsAreNat, MemPoolAssumption DEF TypeOK
<1>2. PICK u \in Nat : /\ u = NextUnused(p, 0, words[p])
                       /\ u \in Slots(words[p]) /\ u \notin used[p]
                       /\ \A k \in Slots(words[p]) \ used[p] : u <= k
    <2>. DEFINE v == NextUnused(p, 0, words[p])
    <2>1. \/ v = -1 /\ \A i \in Slots(words[p]) : i >= 0 => i \in used[p]
          \/ /\ v \in Slots(words[p]) \ used[p]
             /\ \A i \in Slots(words[p]) \ used[p] : i >= 0 => v <= i
        BY <1>1, NextUnusedFact
    <2>. HIDE DEF v
    <2>2. /\ v \in Slots(words[p]) \ used[p] /\ v \in Nat
          /\ \A i \in Slots(words[p]) \ used[p] : v <= i
        BY <1>1, <2>1
    <2>. QED
        BY <2>2 DEF v
<1>3. last = u - 1 /\ last \in Int /\ last >= -1
    BY <1>2
<1>4. \A k \in 0 .. last : k \in used[p]
    BY <1>1, <1>2, <1>3 DEF Slots
<1>5. CompactTo(p, last)
    BY <1>4 DEF CompactTo, CompactPool
<1>6. UsedUpTo(p, last)
    BY <1>2, <1>3, CompactPrefix
<1>. QED
    BY <1>3, <1>5, <1>6

\* A walk that starts behind the last of a row of compact entries ends in
\* the gap behind them, if the pool has the memory and the bitmap a slot.
LEMMA WalkBehind ==
    ASSUME TypeOK, Layout, NEW p \in Pools, NEW last \in Int, last >= -1,
           CompactTo(p, last), UsedUpTo(p, last), NEW size \in Nat, size <= remain[p],
           NEW r \in Walk(p, last, words[p], size)
    PROVE  r.e # -1 \/ r.full
<1>. DEFINE w == words[p]
            n == w * WordBits
<1>1. /\ w \in 1 .. MaxWords /\ used[p] \subseteq Slots(w) /\ n \in Nat /\ n >= 2
      /\ Slots(w) = 0 .. n - 1 /\ PoolSize[p] \in Nat /\ remain[p] \in Nat
    <2>1. w \in 1 .. MaxWords /\ used[p] \subseteq Slots(w) /\ remain[p] \in Nat
        BY DEF TypeOK, Layout, SlotsInBitmap
    <2>2. n \in Nat /\ n >= 2 /\ PoolSize[p] \in Nat
        <3>1. w \in Nat /\ w >= 1 /\ WordBits \in Nat /\ WordBits >= 2
            BY <2>1, MemPoolAssumption
        <3>. QED
            BY <3>1, MemPoolAssumption
    <2>. QED
        BY <2>1, <2>2 DEF Slots
<1>2. \A k \in used[p] : k \in Nat /\ k <= last /\ End(p, k) \in Nat
    BY EntryNumbers DEF UsedUpTo
<1>3. last >= 0 => last \in used[p]
    BY DEF CompactTo
<1>4. /\ GapStart(p, last + 1) \in Nat
      /\ GapStart(p, last + 1) + remain[p] = PoolSize[p]
    <2>1. GapStart(p, last + 1) = IF last = -1 THEN 0 ELSE End(p, last)
        BY DEF GapStart
    <2>. QED
        BY <2>1, CompactRemain
<1>. HIDE DEF n, w
<1>5. CASE last + 1 \in Slots(w)
    <2>1. last + 1 \in RunStarts(p, last, w)
        BY <1>2, <1>5 DEF RunStarts
    <2>2. NextUsed(p, last + 1 + 1) = -1
        BY <1>2 DEF NextUsed
    <2>3. Gap(p, last + 1) = remain[p]
        BY <1>1, <1>4, <2>2 DEF Gap, GapEnd
    <2>4. last + 1 \in Fitting(p, last, w, size)
        BY <1>1, <2>1, <2>3 DEF Fitting
    <2>5. r \in Settle(p, Least(Fitting(p, last, w, size)), w)
        BY <2>4 DEF Walk, w
    <2>6. r.e \in Slots(w)
        BY <1>1, <2>4, <2>5, SettleOfFit
    <2>. QED
        BY <1>1, <2>6
<1>6. CASE last + 1 \notin Slots(w)
    <2>1. last = n - 1 /\ last > 0
        BY <1>1, <1>2, <1>3, <1>6
    <2>2. RunStarts(p, last, w) = {}
        BY <1>1, <2>1 DEF RunStarts
    <2>3. n - 1 \in used[p] /\ Fitting(p, last, w, size) = {}
        BY <1>3, <2>1, <2>2 DEF Fitting
    <2>4. PoolSize[p] - End(p, n - 1) >= size
        <3>1. GapStart(p, last + 1) = End(p, n - 1)
            BY <1>1, <2>1 DEF GapStart
        <3>. QED
            BY <1>1, <1>4, <3>1
    <2>5. PICK v \in GrowsTo(w) :
             r \in IF v = w THEN {[e |-> -1, words |-> v, full |-> TRUE]}
                   ELSE Settle(p, n, w + 1)
        BY <2>1, <2>3, <2>4 DEF Walk, w, n
    <2>6. CASE v = w
        BY <2>5, <2>6
    <2>7. CASE v # w
        <3>1. r \in Settle(p, n, w + 1)
            BY <2>5, <2>7
        <3>2. r.e = n
            BY <3>1 DEF Settle
        <3>. QED
            BY <1>1, <3>2
    <2>. QED
        BY <2>6, <2>7
<1>. QED
    BY <1>5, <1>6

\* Where defrag_pool() stops, the walk of mem_pool_alloc() finds its slot.
LEMMA DefragRoom ==
    ASSUME IInv, DefragDone, op.caller = "alloc", NEW p \in Pools, p = op.to, NEW last,
           last = IF fragmented[p] THEN op.last ELSE LastBusy(p),
           NEW r \in Walk(p, last, words[p], op.size)
    PROVE  r.e # -1 \/ r.full
<1>1. TypeOK /\ Layout /\ OpInv
    BY DEF IInv, Layout
<1>2. /\ op.pc = "defrag" /\ p \in alive /\ op.size \in Nat /\ op.size <= remain[p]
      /\ op.size > 0 /\ ~ full[p] /\ op.moved = FALSE
      /\ fragmented[p] => op.last \in Nat /\ CompactTo(p, op.last)
      /\ fragmented[p] => DefragStops(p, NextUsed(p, op.last + 1))
    BY <1>1 DEF DefragDone, OpInv, TypeOK, Op
<1>3. /\ words[p] \in 1 .. MaxWords /\ used[p] \subseteq Slots(words[p])
      /\ Slots(words[p]) \subseteq Nat /\ used[p] \subseteq Nat
    BY <1>1, SlotsAreNat, MemPoolAssumption DEF TypeOK, Layout, SlotsInBitmap
<1>4. CASE fragmented[p]
    <2>1. last \in Nat /\ last = op.last /\ CompactTo(p, last)
        BY <1>2, <1>4
    <2>. DEFINE b == NextUsed(p, last + 1)
    <2>2. \/ b = -1 /\ \A k \in used[p] : k < last + 1
          \/ /\ b \in used[p] /\ b >= last + 1
             /\ \A k \in used[p] : k >= last + 1 => b <= k
        BY <1>3, <2>1, NextUsedFact
    <2>3. DefragStops(p, b)
        BY <1>2, <1>4, <2>1
    <2>. HIDE DEF b
    <2>4. CASE b = -1
        <3>1. UsedUpTo(p, last)
            BY <1>3, <2>1, <2>2, <2>4 DEF UsedUpTo
        <3>. QED
            BY <1>1, <1>2, <2>1, <3>1, WalkBehind
    <2>5. CASE b # -1
        <3>1. Base(p, b) - End(p, last) >= op.size
            BY <2>1, <2>3, <2>5 DEF DefragStops, Needed
        <3>2. PICK i \in Slots(words[p]) \ used[p] : last <= i /\ i < b
            BY <2>1, <2>3, <2>5 DEF DefragStops
        <3>3. last \in used[p] /\ b \in Nat /\ i \in Nat
            BY <1>3, <2>1, <2>2, <2>5, <3>2 DEF CompactTo
        <3>4. last < i /\ last + 1 < b
            BY <2>1, <3>2, <3>3
        <3>5. \A k \in used[p] : k >= last + 1 => b <= k
            BY <2>2, <2>5
        <3>6. last + 1 \in Slots(words[p]) \ used[p]
            <4>1. last + 1 \in Slots(words[p])
                BY <1>3, <2>1, <3>2, <3>4, MemPoolAssumption DEF Slots
            <4>. QED
                BY <2>1, <3>3, <3>4, <3>5, <4>1
        <3>7. NextUsed(p, last + 1 + 1) = b
            <4>. DEFINE c == NextUsed(p, last + 1 + 1)
            <4>1. \/ c = -1 /\ \A k \in used[p] : k < last + 1 + 1
                  \/ /\ c \in used[p] /\ c >= last + 1 + 1
                     /\ \A k \in used[p] : k >= last + 1 + 1 => c <= k
                BY <1>3, <2>1, NextUsedFact
            <4>. HIDE DEF c
            <4>2. b \in used[p] /\ b >= last + 1 + 1
                BY <2>1, <2>2, <2>5, <3>3, <3>4
            <4>3. c \in used[p] /\ c <= b /\ c >= last + 1 + 1 /\ c \in Nat
                BY <1>3, <2>1, <3>3, <4>1, <4>2
            <4>4. b <= c
                BY <2>1, <3>5, <4>3
            <4>5. c = b
                BY <3>3, <4>3, <4>4
            <4>. QED
                BY <4>5 DEF c
        <3>8. Gap(p, last + 1) >= op.size
            BY <2>1, <3>1, <3>7, <3>3 DEF Gap, GapStart, GapEnd
        <3>9. last + 1 \in Fitting(p, last, words[p], op.size)
            BY <2>1, <3>6, <3>8 DEF Fitting, RunStarts
        <3>10. r \in Settle(p, Least(Fitting(p, last, words[p], op.size)), words[p])
            BY <3>9 DEF Walk
        <3>11. r.e \in Slots(words[p])
            BY <1>2, <1>3, <2>1, <3>9, <3>10, SettleOfFit
        <3>. QED
            BY <1>3, <3>11
    <2>. QED
        BY <2>4, <2>5
<1>5. CASE ~ fragmented[p]
    <2>1. last = LastBusy(p) /\ CompactPool(p)
        BY <1>2, <1>5 DEF IInv, CompactUnlessFragmented
    <2>2. ~ IsFull(p)
        BY <1>2, <1>1 DEF IsFull, TypeOK
    <2>3. last >= -1 /\ last \in Int /\ CompactTo(p, last) /\ UsedUpTo(p, last)
        <3>1. last = NextUnused(p, 0, words[p]) - 1
            BY <2>1, <2>2 DEF LastBusy
        <3>2. ~ Slots(words[p]) \subseteq used[p]
            BY <1>2, <2>2 DEF IInv, NoSlotMeansFull
        <3>. QED
            BY <1>1, <1>3, <2>1, <3>1, <3>2, CompactUpTo
    <2>. QED
        BY <1>1, <1>2, <2>3, WalkBehind
<1>. QED
    BY <1>4, <1>5

LEMMA DefragDoneInv ==
    ASSUME IInv, DefragDone
    PROVE  IInv'
<1>1. TypeOK /\ Layout /\ OpInv
    BY DEF IInv, Layout
<1>2. op.pc = "defrag" /\ op.to \in alive
    BY <1>1 DEF DefragDone, OpInv
<1>3. PICK p \in Pools : p = op.to
    BY <1>1, <1>2 DEF TypeOK
<1>4. PICK last : last = IF fragmented[p] THEN op.last ELSE LastBusy(p)
    OBVIOUS
<1>5. /\ last \in Int
      /\ \A q \in Pools : ~ fragmented'[q] => CompactPool(q)
      /\ op.caller = "alloc" =>
            last = -1 \/ last \in used[p] \/ Slots(words[p]) \subseteq used[p]
      /\ op.caller = "transfer" =>
            last >= -1 /\ CompactTo(p, last) /\ UsedUpTo(p, last)
    BY <1>3, <1>4, DefragResult
<1>6. /\ alive' = alive /\ access' = access /\ p \in alive /\ op.moved = FALSE
      /\ op.caller # "none"
    BY <1>1, <1>2, <1>3 DEF DefragDone, OpInv
<1>7. fragmented' \in [Pools -> BOOLEAN]
    BY <1>1 DEF DefragDone, TypeOK
<1>8. \A q \in alive : Slots(words[q]) \subseteq used[q] => IsFull(q)
    BY <1>2 DEF IInv, NoSlotMeansFull
<1>9. CASE op.caller = "alloc"
    <2>1. PICK r \in Walk(p, last, words[p], op.size) :
             /\ SetBitmap(p, r)
             /\ IF r.e # -1 THEN Take(p, op.owner, op.size, r)
                ELSE UNCHANGED <<used, entries, remain, handle, mem>>
        BY <1>3, <1>4, <1>9 DEF DefragDone
    <2>2. op' = Idle
        BY <1>9 DEF DefragDone
    <2>3. op.owner \in Owners /\ op.size \in Nat \ {0} /\ handle[op.owner] = NoHandle
        BY <1>1, <1>2, <1>9 DEF OpInv, TypeOK, Op
    <2>4. words[p] \in 1 .. MaxWords /\ used[p] \subseteq Slots(words[p])
        BY <1>1 DEF TypeOK, Layout, SlotsInBitmap
    <2>5. /\ r \in Outcome /\ GoodBitmap(p, r)
          /\ r.e # -1 => r.e \in Slots(r.words) /\ Suits(p, r.e, op.size)
        BY <1>5, <1>9, <2>3, <2>4, WalkFact
    <2>6. OpInv' /\ op' \in Op
        BY <2>2, IdleOp
    <2>7. PICK o \in Owners, size \in Nat \ {0} : o = op.owner /\ size = op.size
        BY <2>3
    <2>8. TypeOK' /\ Layout' /\ CompactUnlessFragmented' /\ NoSlotMeansFull'
        <3>1. /\ handle[o] = NoHandle
              /\ r.e # -1 => r.e \in Slots(r.words) /\ Suits(p, r.e, size)
              /\ IF r.e # -1 THEN Take(p, o, size, r)
                 ELSE UNCHANGED <<used, entries, remain, handle, mem>>
            BY <2>1, <2>3, <2>5, <2>7
        <3>. QED
            BY <1>1, <1>5, <1>6, <1>7, <1>8, <2>1, <2>5, <2>6, <3>1, WalkEnd
    <2>. QED
        BY <2>6, <2>8 DEF IInv, Layout
<1>10. CASE op.caller # "alloc"
    <2>1. /\ words' = words /\ used' = used /\ entries' = entries /\ remain' = remain
          /\ full' = full /\ handle' = handle /\ mem' = mem
          /\ \/ op' = Idle
             \/ op.caller = "transfer" /\ op' = [op EXCEPT !.pc = "transfer", !.last = last]
        BY <1>3, <1>4, <1>10 DEF DefragDone
    <2>2. op' = Idle => op' \in Op /\ OpInv'
        BY IdleOp
    <2>3. op' # Idle => /\ op' \in Op /\ op'.pc = "transfer" /\ op'.to = p
                        /\ op'.last = last /\ op'.moved = FALSE /\ op'.from = op.from
        <3>1. op \in Op /\ op.to = p /\ op.moved = FALSE /\ last \in Int
            BY <1>1, <1>3, <1>5, <1>6 DEF TypeOK
        <3>2. op' # Idle => op' = [op EXCEPT !.pc = "transfer", !.last = last]
            BY <2>1
        <3>. QED
            BY <3>1, <3>2 DEF Op
    <2>4. op'.moved = FALSE
        BY <2>3 DEF Idle
    <2>5. TypeOK'
        BY <1>1, <1>6, <1>7, <2>1, <2>2, <2>3 DEF TypeOK, Cell
    <2>6. Layout'
        BY <1>1, <1>6, <2>1, SameLayout DEF Layout, SlotsInBitmap
    <2>7. CompactUnlessFragmented'
        <3>1. ASSUME NEW q \in Pools, ~ fragmented'[q] PROVE CompactPool(q)'
            BY <1>1, <1>5, <2>1, <3>1, SameCompact, EntryNumbers
        <3>. QED
            BY <3>1 DEF CompactUnlessFragmented
    <2>8. NoSlotMeansFull'
        BY <1>6, <1>8, <2>1 DEF NoSlotMeansFull, IsFull
    <2>9. OpInv'
        <3>1. CASE op' # Idle
            <4>1. op.caller = "transfer" /\ op.from \in alive \ {p}
                BY <1>1, <1>2, <1>3, <2>1, <3>1 DEF OpInv
            <4>2. CompactTo(op.to, op.last)'
                BY <1>5, <2>1, <2>3, <3>1, <4>1 DEF CompactTo, GapStart, Base, End
            <4>3. UsedUpTo(op.to, op.last)'
                BY <1>5, <2>1, <2>3, <3>1, <4>1 DEF UsedUpTo
            <4>. QED
                BY <1>5, <1>6, <2>3, <3>1, <4>1, <4>2, <4>3 DEF OpInv
        <3>. QED
            BY <2>2, <3>1
    <2>. QED
        BY <2>5, <2>6, <2>7, <2>8, <2>9 DEF IInv, Layout
<1>. QED
    BY <1>9, <1>10

-----------------------------------------------------------------------------
(* Transfers.                                                              *)

LEMMA TransferEntriesInv ==
    ASSUME IInv, NEW to \in Pools, NEW from \in Pools,
           TransferEntries(to, from) \/ TransferEntriesFast(to, from)
    PROVE  IInv'
<1>1. TypeOK /\ Layout
    BY DEF IInv, Layout
<1>2. /\ op = Idle /\ to \in alive /\ from \in alive /\ ~ IsFull(to) /\ to # from
      /\ alive' = alive /\ words' = words /\ used' = used /\ entries' = entries
      /\ remain' = remain /\ fragmented' = fragmented /\ full' = full
      /\ access' = access /\ handle' = handle /\ mem' = mem
    BY DEF TransferEntries, TransferEntriesFast, MayTransfer
<1>3. DefragLocals(to, "transfer", StartDefrag(to, "transfer"))
    BY <1>1, StartDefragFact
<1>4. PICK d : d = StartDefrag(to, "transfer")
    OBVIOUS
<1>5. \/ op' = [d EXCEPT !.from = from] /\ ~ Empty(to)
      \/ /\ Empty(to)
         /\ op' = [Idle EXCEPT !.pc = "transfer", !.caller = "transfer",
                               !.to = to, !.from = from, !.last = -1]
      \/ op' = [Idle EXCEPT !.pc = "fast", !.to = to, !.from = from, !.size = UlongMax]
    BY <1>4 DEF TransferEntries, TransferEntriesFast
<1>6. CASE op' = [d EXCEPT !.from = from] /\ ~ Empty(to)
    <2>1. /\ op' \in Op /\ op'.pc = d.pc /\ op'.to = to /\ op'.caller = "transfer"
          /\ op'.last = 0 /\ op'.moved = FALSE /\ op'.from = from
        BY <1>3, <1>4, <1>6 DEF DefragLocals, Op
    <2>2. /\ d.pc \in {"head", "defrag"}
          /\ d.pc = "head" => fragmented[to] /\ 0 \notin used[to]
          /\ d.pc = "defrag" /\ fragmented[to] => CompactTo(to, 0)
        BY <1>3, <1>4 DEF DefragLocals
    <2>3. used[to] # {}
        BY <1>1, <1>6, EmptyFact
    <2>4. op'.pc = "defrag" /\ fragmented'[to] => CompactTo(op.to, op.last)'
        BY <1>2, <2>1, <2>2 DEF CompactTo, GapStart, Base, End
    <2>5. OpInv'
        BY <1>2, <1>6, <2>1, <2>2, <2>3, <2>4 DEF OpInv, IsFull, Empty
    <2>. QED
        <3>1. op'.moved = FALSE /\ op'.pc # "transfer" /\ op' \in Op
            BY <2>1, <2>2
        <3>2. TypeOK'
            BY <1>1, <1>2, <3>1 DEF TypeOK, Cell
        <3>3. Layout'
            BY <1>1, <1>2, SameLayout DEF Layout, SlotsInBitmap
        <3>4. CompactUnlessFragmented'
            BY <1>2 DEF IInv, CompactUnlessFragmented, CompactPool, Base, GapStart, End, Idle
        <3>5. NoSlotMeansFull'
            BY <1>2 DEF IInv, NoSlotMeansFull, IsFull, Idle
        <3>. QED
            BY <2>5, <3>2, <3>3, <3>4, <3>5 DEF IInv, Layout
<1>7. CASE ~ (op' = [d EXCEPT !.from = from] /\ ~ Empty(to))
    <2>1. /\ op' \in Op /\ op'.pc \in {"transfer", "fast"} /\ op'.to = to
          /\ op'.moved = FALSE /\ op'.from = from
          /\ op'.pc = "transfer" => op'.last = -1 /\ Empty(to)
        <3>1. \/ /\ Empty(to)
                 /\ op' = [pc |-> "transfer", caller |-> "transfer", to |-> to,
                           from |-> from, owner |-> None, size |-> 0, last |-> -1,
                           cur |-> -1, moved |-> FALSE]
              \/ op' = [pc |-> "fast", caller |-> "none", to |-> to, from |-> from,
                        owner |-> None, size |-> UlongMax, last |-> 0,
                        cur |-> -1, moved |-> FALSE]
            <4>1. CASE /\ Empty(to)
                       /\ op' = [Idle EXCEPT !.pc = "transfer", !.caller = "transfer",
                                             !.to = to, !.from = from, !.last = -1]
                BY <4>1 DEF Idle
            <4>2. CASE op' = [Idle EXCEPT !.pc = "fast", !.to = to, !.from = from,
                                          !.size = UlongMax]
                BY <4>2 DEF Idle
            <4>. QED
                BY <1>5, <1>7, <4>1, <4>2
        <3>. QED
            <4>1. CASE op'.pc = "transfer"
                <5>1. /\ Empty(to)
                      /\ op' = [pc |-> "transfer", caller |-> "transfer", to |-> to,
                                from |-> from, owner |-> None, size |-> 0, last |-> -1,
                                cur |-> -1, moved |-> FALSE]
                    BY <3>1, <4>1
                <5>. QED
                    BY <5>1 DEF Op
            <4>2. CASE op'.pc # "transfer"
                <5>1. op' = [pc |-> "fast", caller |-> "none", to |-> to, from |-> from,
                             owner |-> None, size |-> UlongMax, last |-> 0,
                             cur |-> -1, moved |-> FALSE]
                    BY <3>1, <4>2
                <5>2. UlongMax \in Nat
                    BY MemPoolAssumption
                <5>. QED
                    BY <5>1, <5>2 DEF Op
            <4>. QED
                BY <4>1, <4>2
    <2>2. op'.pc = "transfer" => used[to] = {}
        BY <1>1, <2>1, EmptyFact
    <2>3. op'.pc = "transfer" => CompactTo(op.to, op.last)' /\ UsedUpTo(op.to, op.last)'
        BY <1>2, <2>1, <2>2 DEF CompactTo, UsedUpTo
    <2>4. OpInv'
        BY <1>2, <2>1, <2>3 DEF OpInv
    <2>5. TypeOK'
        BY <1>1, <1>2, <2>1 DEF TypeOK, Cell
    <2>6. Layout'
        BY <1>1, <1>2, SameLayout DEF Layout, SlotsInBitmap
    <2>7. CompactUnlessFragmented'
        BY <1>2 DEF IInv, CompactUnlessFragmented, CompactPool, Base, GapStart, End, Idle
    <2>8. NoSlotMeansFull'
        BY <1>2 DEF IInv, NoSlotMeansFull, IsFull, Idle
    <2>. QED
        BY <2>4, <2>5, <2>6, <2>7, <2>8 DEF IInv, Layout
<1>. QED
    BY <1>6, <1>7

\* A round of a transfer that moves entry b of pool_from into slot e of
\* pool_to, whose bitmap has w words then.
TransferRound(to, from, b, e, nb, w) ==
    /\ to # from
    /\ op.to = to /\ op.from = from /\ op.pc \in {"transfer", "fast"}
    /\ to \in alive /\ from \in alive
    /\ e \notin used[to] /\ (e = 0 \/ e - 1 \in used[to])
    /\ e \in Slots(w) /\ used[to] \subseteq Slots(w)
    /\ nb = GapStart(to, e)
    /\ Vacant(from, b, to, e, nb, Size(from, b))
    /\ MigrateEntry(from, to, b, e, nb)
    /\ words' = [words EXCEPT ![to] = w]
    /\ remain' = [remain EXCEPT ![from] = @ + Size(from, b), ![to] = @ - Size(from, b)]
    /\ alive' = alive /\ access' = access /\ op' \in Op
    /\ full' \in [Pools -> BOOLEAN]
    /\ \A q \in Pools : q \notin {to, from} => full'[q] = full[q]
    /\ fragmented' \in [Pools -> BOOLEAN]
    /\ \A q \in Pools : q # from => fragmented'[q] = fragmented[q]
    /\ \/ op'.moved /\ op'.from = from
       \/ fragmented'[from] = (PoolSize[from] # remain[from] + Size(from, b))
    /\ \/ op'.pc = "transfer" /\ op'.to = to
       \/ (\A i \in Slots(w) : i = e \/ i \in used[to]) =>
              full'[to] \/ remain[to] = Size(from, b)

LEMMA TransferMove ==
    ASSUME IInv, NEW to \in Pools, NEW from \in Pools,
           NEW b \in used[from], NEW e \in Slot, NEW nb \in Nat,
           NEW w \in 1 .. MaxWords, TransferRound(to, from, b, e, nb, w)
    PROVE  /\ EntryMoved(from, b, to, e, nb)
           /\ TypeOK' /\ Layout' /\ CompactUnlessFragmented' /\ NoSlotMeansFull'
           /\ ~ (Slots(words[from]) \subseteq used[from])'
<1>. /\ to # from
     /\ op.to = to /\ op.from = from /\ op.pc \in {"transfer", "fast"}
     /\ to \in alive /\ from \in alive
     /\ e \notin used[to] /\ (e = 0 \/ e - 1 \in used[to])
     /\ e \in Slots(w) /\ used[to] \subseteq Slots(w)
     /\ nb = GapStart(to, e)
     /\ Vacant(from, b, to, e, nb, Size(from, b))
     /\ MigrateEntry(from, to, b, e, nb)
     /\ words' = [words EXCEPT ![to] = w]
     /\ remain' = [remain EXCEPT ![from] = @ + Size(from, b), ![to] = @ - Size(from, b)]
     /\ alive' = alive /\ access' = access /\ op' \in Op
     /\ full' \in [Pools -> BOOLEAN]
     /\ \A q \in Pools : q \notin {to, from} => full'[q] = full[q]
     /\ fragmented' \in [Pools -> BOOLEAN]
     /\ \A q \in Pools : q # from => fragmented'[q] = fragmented[q]
     /\ \/ op'.moved /\ op'.from = from
        \/ fragmented'[from] = (PoolSize[from] # remain[from] + Size(from, b))
     /\ \/ op'.pc = "transfer" /\ op'.to = to
        \/ (\A i \in Slots(w) : i = e \/ i \in used[to]) =>
               full'[to] \/ remain[to] = Size(from, b)
    BY DEF TransferRound
<1>1. TypeOK /\ Layout
    BY DEF IInv, Layout
<1>2. words' \in [Pools -> 1 .. MaxWords] /\ words'[to] = w
      /\ \A q \in Pools : q # to => words'[q] = words[q]
    BY <1>1 DEF TypeOK
<1>3. \A q \in Pools : used[q] \subseteq Slots(words'[q])
    BY <1>1, <1>2 DEF Layout, SlotsInBitmap
<1>4. EntryMoved(from, b, to, e, nb)
    BY <1>1, <1>2, <1>3, MigrateLayout
<1>5. /\ Layout' /\ TableTyped'
      /\ \A q \in Pools : \A k :
            k \in used'[q] <=> (q = to /\ k = e)
                               \/ (k \in used[q] /\ ~ (q = from /\ k = b))
      /\ \A q \in Pools : \A k \in used[q] :
            ~ (q = from /\ k = b) => entries'[q][k] = entries[q][k]
      /\ entries'[to][e].base = nb
    BY <1>4 DEF EntryMoved
<1>6. TypeOK'
    BY <1>1, <1>2, <1>5 DEF TableTyped, TypeOK
<1>7. \A q \in Pools : remain'[q] = IF q = from THEN remain[q] + Size(from, b)
                                    ELSE IF q = to THEN remain[q] - Size(from, b)
                                    ELSE remain[q]
    BY <1>1 DEF TypeOK
<1>8. \A q \in Pools : \A k \in used[q] : k \in Nat
    BY <1>1, EntryNumbers
<1>8a. ASSUME NEW q \in Pools, q # from, q # to PROVE used'[q] = used[q]
    <2>1. \A k : k \in used'[q] <=> k \in used[q]
        BY <1>5, <1>8a
    <2>. QED
        BY <2>1
<1>9. CompactUnlessFragmented'
    <2>1. SUFFICES ASSUME NEW q \in Pools, ~ fragmented'[q], ~ (op'.moved /\ op'.from = q)
                   PROVE  CompactPool(q)'
        BY DEF CompactUnlessFragmented
    <2>2. CASE q = from
        <3>1. PoolSize[from] = remain[from] + Size(from, b)
            BY <2>1, <2>2
        <3>2. used[from] = {b}
            BY <1>1, <3>1, LastEntry
        <3>3. used'[from] = {}
            BY <1>5, <3>2
        <3>. QED
            BY <2>2, <3>3 DEF CompactPool
    <2>3. CASE q # from
        <3>1. CompactPool(q)
            BY <2>1, <2>3 DEF IInv, CompactUnlessFragmented
        <3>2. \A k \in used[q] : k \in Nat /\ entries'[q][k] = entries[q][k]
            BY <1>5, <1>8, <2>3
        <3>3. CASE q = to
            <4>1. used'[to] = used[to] \cup {e}
                BY <1>5, <2>3, <3>3
            <4>2. e \in Nat
                BY SlotsAreNat, MemPoolAssumption
            <4>. QED
                BY <1>5, <3>1, <3>2, <3>3, <4>1, <4>2, AddCompact
        <3>4. CASE q # to
            <4>1. used'[q] = used[q]
                BY <1>8a, <2>3, <3>4
            <4>. QED
                BY <3>1, <3>2, <4>1, SameCompact
        <3>. QED
            BY <3>3, <3>4
    <2>. QED
        BY <2>2, <2>3
<1>10. ~ (Slots(words[from]) \subseteq used[from])'
    <2>1. b \in Slots(words[from]) /\ words'[from] = words[from]
        BY <1>1, <1>2 DEF Layout, SlotsInBitmap
    <2>2. b \notin used'[from]
        BY <1>5
    <2>. QED
        BY <2>1, <2>2
<1>11. NoSlotMeansFull'
    <2>1. SUFFICES ASSUME NEW q \in alive', (Slots(words[q]) \subseteq used[q])',
                          ~ (op'.pc = "transfer" /\ op'.to = q)
                   PROVE  IsFull(q)'
        BY DEF NoSlotMeansFull
    <2>2. q \in Pools /\ q \in alive /\ q # from
        BY <1>1, <1>10, <2>1 DEF TypeOK
    <2>3. CASE q = to
        <3>1. \A i \in Slots(w) : i = e \/ i \in used[to]
            BY <1>2, <1>5, <2>1, <2>3
        <3>2. full'[to] \/ remain[to] = Size(from, b)
            BY <2>1, <2>3, <3>1
        <3>3. Size(from, b) \in Nat
            BY <1>1, EntryNumbers
        <3>. QED
            <4>1. remain'[to] = remain[to] - Size(from, b) /\ remain[to] \in Nat
                BY <1>1, <1>7 DEF TypeOK
            <4>. QED
                BY <2>3, <3>2, <3>3, <4>1 DEF IsFull
    <2>4. CASE q # to
        <3>1. used'[q] = used[q] /\ words'[q] = words[q] /\ full'[q] = full[q]
              /\ remain'[q] = remain[q]
            BY <1>2, <1>7, <1>8a, <2>2, <2>4
        <3>2. IsFull(q)
            BY <2>1, <2>2, <2>4, <3>1 DEF IInv, NoSlotMeansFull
        <3>. QED
            BY <3>1, <3>2 DEF IsFull
    <2>. QED
        BY <2>3, <2>4
<1>. QED
    BY <1>4, <1>5, <1>6, <1>9, <1>10, <1>11

\* The end of a transfer.
LEMMA TransferEnd ==
    ASSUME IInv, NEW to \in Pools, NEW from \in Pools, to # from,
           op.to = to, op.from = from, op.pc \in {"transfer", "fast"},
           NEW w \in 1 .. MaxWords, words' = [words EXCEPT ![to] = w],
           used[to] \subseteq Slots(w),
           NEW fulls \in [Pools -> BOOLEAN],
           \A q \in Pools : q # to => fulls[q] = full[q],
           Slots(w) \subseteq used[to] => fulls[to] \/ remain[to] = 0,
           Finish(from, op.moved, remain[from], fulls),
           UNCHANGED <<alive, used, entries, remain, access, handle, mem>>
    PROVE  IInv'
<1>1. TypeOK /\ Layout /\ OpInv
    BY DEF IInv, Layout
<1>2. words' \in [Pools -> 1 .. MaxWords] /\ words'[to] = w
      /\ \A q \in Pools : q # to => words'[q] = words[q]
    BY <1>1 DEF TypeOK
<1>3. /\ op' = Idle /\ op' \in Op /\ OpInv'
      /\ full' \in [Pools -> BOOLEAN] /\ fragmented' \in [Pools -> BOOLEAN]
      /\ \A q \in Pools : q # from => fragmented'[q] = fragmented[q] /\ full'[q] = fulls[q]
      /\ op.moved => fragmented'[from] = (PoolSize[from] # remain[from])
      /\ ~ op.moved => fragmented'[from] = fragmented[from] /\ full'[from] = fulls[from]
    BY <1>1, IdleOp DEF Finish, TypeOK
<1>4. TypeOK'
    BY <1>1, <1>2, <1>3 DEF TypeOK, Cell
<1>5. Layout'
    <2>1. \A q \in Pools : used[q] \subseteq Slots(words'[q])
        BY <1>1, <1>2 DEF Layout, SlotsInBitmap
    <2>. QED
        BY <1>1, <2>1, SameLayout
<1>6. CompactUnlessFragmented'
    <2>1. ASSUME NEW q \in Pools, ~ fragmented'[q] PROVE CompactPool(q)'
        <3>1. CASE q = from /\ op.moved
            <4>1. used[q] = {}
                BY <1>1, <1>3, <2>1, <3>1, EmptyFact DEF Empty
            <4>. QED
                BY <4>1 DEF CompactPool
        <3>2. CASE ~ (q = from /\ op.moved)
            <4>1. CompactPool(q)
                BY <1>3, <2>1, <3>2 DEF IInv, CompactUnlessFragmented
            <4>. QED
                BY <1>1, <4>1, SameCompact, EntryNumbers
        <3>. QED
            BY <3>1, <3>2
    <2>. QED
        BY <2>1 DEF CompactUnlessFragmented
<1>7. NoSlotMeansFull'
    <2>1. SUFFICES ASSUME NEW q \in alive', (Slots(words[q]) \subseteq used[q])'
                   PROVE  IsFull(q)'
        BY DEF NoSlotMeansFull
    <2>2. q \in Pools /\ q \in alive
        BY <1>1, <2>1 DEF TypeOK
    <2>3. CASE q = to
        BY <1>2, <1>3, <2>1, <2>3 DEF IsFull
    <2>4. CASE q # to
        <3>1. Slots(words[q]) \subseteq used[q]
            BY <1>2, <2>1, <2>2, <2>4
        <3>2. ~ (q = from /\ op.moved)
            BY <1>1, <3>1 DEF OpInv
        <3>3. IsFull(q)
            BY <2>2, <2>4, <3>1 DEF IInv, NoSlotMeansFull
        <3>4. full'[q] = full[q]
            BY <1>3, <2>2, <2>4, <3>2
        <3>. QED
            BY <3>3, <3>4 DEF IsFull
    <2>. QED
        BY <2>3, <2>4
<1>. QED
    BY <1>3, <1>4, <1>5, <1>6, <1>7 DEF IInv, Layout

\* The search of the slow transfer ends at the slot behind the last busy one.
LEMMA SearchFact ==
    ASSUME TypeOK, Layout, NEW p \in Pools, NEW last \in Int, last >= -1,
           CompactTo(p, last), UsedUpTo(p, last), NEW w \in SearchWords(p, last)
    PROVE  /\ w \in 1 .. MaxWords
           /\ used[p] \subseteq Slots(w)
           /\ last + 1 \in Slots(w) \ used[p]
           /\ NextUnused(p, last + 1, w) = last + 1
<1>. DEFINE m == last + 1
<1>1. /\ words[p] \in 1 .. MaxWords /\ used[p] \subseteq Slots(words[p])
      /\ \A k \in used[p] : k \in Nat /\ k <= last
    BY EntryNumbers DEF TypeOK, Layout, SlotsInBitmap, UsedUpTo
<1>2. m \in Nat /\ m \notin used[p] /\ \A k \in used[p] : k < m
    BY <1>1
<1>3. last = -1 \/ last \in used[p]
    BY DEF CompactTo
<1>4. \A v \in 1 .. MaxWords : Slots(v) \subseteq Nat /\ v * WordBits \in Nat
    BY SlotsAreNat, MemPoolAssumption
<1>5. /\ w \in 1 .. MaxWords /\ used[p] \subseteq Slots(w) /\ m \in Slots(w)
    <2>1. CASE NextUnused(p, m, words[p]) # -1
        <3>1. w = words[p]
            BY <2>1 DEF SearchWords
        <3>2. \E k \in Slots(w) : k >= m
            BY <1>1, <1>2, <2>1, <3>1, NextUnusedFact
        <3>3. m \in Slots(w)
            BY <1>1, <1>2, <1>4, <3>1, <3>2 DEF Slots
        <3>. QED
            BY <1>1, <3>1, <3>3
    <2>2. CASE NextUnused(p, m, words[p]) = -1
        <3>1. w \in GrowsTo(words[p]) \ {words[p]}
            BY <2>2 DEF SearchWords
        <3>2. w = words[p] + 1 /\ words[p] \in 1 .. MaxWords - 1
            BY <1>1, <3>1, MemPoolAssumption DEF GrowsTo
        <3>3. -1 \notin Slots(words[p])
            BY <1>1, <1>4
        <3>4. \A k \in Slots(words[p]) : k >= m => k \in used[p]
            BY <1>1, <1>2, <2>2, <3>3, NextUnusedFact
        <3>5. m \notin Slots(words[p])
            BY <1>2, <3>4
        <3>6. words[p] * WordBits >= 1
            BY <1>1, MemPoolAssumption
        <3>7. m = words[p] * WordBits
            <4>1. m >= words[p] * WordBits
                BY <1>1, <1>2, <1>4, <3>5 DEF Slots
            <4>2. last = -1 \/ last < words[p] * WordBits
                BY <1>1, <1>3, <1>4 DEF Slots
            <4>. QED
                BY <1>1, <1>4, <3>6, <4>1, <4>2
        <3>. QED
            BY <1>1, <3>2, <3>7, NextWord
    <2>. QED
        BY <2>1, <2>2
<1>6. NextUnused(p, m, w) = m
    <2>1. -1 \notin Slots(w)
        BY <1>4, <1>5
    <2>2. NextUnused(p, m, w) # -1
        BY <1>2, <1>5, NextUnusedFact
    <2>3. NextUnused(p, m, w) >= m /\ NextUnused(p, m, w) <= m
          /\ NextUnused(p, m, w) \in Slots(w)
        BY <1>2, <1>5, <2>2, NextUnusedFact
    <2>. QED
        BY <1>2, <1>4, <1>5, <2>3
<1>. QED
    BY <1>2, <1>5, <1>6

LEMMA TransferStepInv ==
    ASSUME IInv, TransferStep
    PROVE  IInv'
<1>1. TypeOK /\ Layout /\ OpInv
    BY DEF IInv, Layout
<1>2. /\ op.pc = "transfer" /\ NextFrom # {} /\ op.to \in alive
      /\ op.from \in alive /\ op.from # op.to
    BY <1>1 DEF TransferStep, OpInv
<1>3. PICK to \in Pools, from \in Pools, last \in Int :
         to = op.to /\ from = op.from /\ last = op.last
    BY <1>1, <1>2 DEF TypeOK, Op
<1>4. last >= -1 /\ CompactTo(to, last) /\ UsedUpTo(to, last)
    BY <1>1, <1>2, <1>3 DEF OpInv
<1>5. PICK b \in used[from] : b = Least(NextFrom) /\ Size(from, b) <= remain[to]
    <2>1. \A k \in used[from] : k \in Nat
        BY <1>1, EntryNumbers
    <2>2. NextFrom \subseteq Nat /\ \A k \in NextFrom : k \in used[from] /\ Size(from, k) <= remain[to]
        BY <1>3, <2>1 DEF NextFrom
    <2>3. Least(NextFrom) \in NextFrom
        BY <1>2, <2>2, LeastIsLeast
    <2>. QED
        BY <2>2, <2>3
<1>. DEFINE size == Size(from, b)
            base == IF last = -1 THEN 0 ELSE End(to, last)
<1>6. PICK w \in SearchWords(to, last) :
         LET e == NextUnused(to, last + 1, w)
         IN  /\ words' = [words EXCEPT ![to] = w]
             /\ MigrateEntry(from, to, b, e, base)
             /\ IF remain[to] = size
                THEN Finish(from, TRUE, remain[from] + size, full)
                ELSE /\ op' = [op EXCEPT !.last = e, !.cur = b, !.moved = TRUE]
                     /\ UNCHANGED <<full, fragmented>>
    BY <1>3, <1>5 DEF TransferStep
<1>7. /\ w \in 1 .. MaxWords /\ used[to] \subseteq Slots(w)
      /\ last + 1 \in Slots(w) \ used[to]
      /\ NextUnused(to, last + 1, w) = last + 1
    BY <1>1, <1>4, SearchFact
<1>8. PICK e \in Slot : e = last + 1 /\ e \notin used[to] /\ e \in Slots(w)
    BY <1>7, SlotsAreNat, MemPoolAssumption
<1>9. /\ words' = [words EXCEPT ![to] = w]
      /\ MigrateEntry(from, to, b, e, base)
      /\ IF remain[to] = size
         THEN Finish(from, TRUE, remain[from] + size, full)
         ELSE /\ op' = [op EXCEPT !.last = e, !.cur = b, !.moved = TRUE]
              /\ UNCHANGED <<full, fragmented>>
    BY <1>6, <1>7, <1>8, Zenon
<1>10. /\ remain' = [remain EXCEPT ![from] = @ + size, ![to] = @ - size]
       /\ alive' = alive /\ access' = access
    BY <1>3, <1>5 DEF TransferStep
<1>11. /\ base \in Nat /\ base + remain[to] = PoolSize[to]
       /\ \A k \in used[to] : End(to, k) <= base
    BY <1>1, <1>4, CompactRemain
<1>12. base = GapStart(to, e)
    <2>1. e = 0 <=> last = -1
        BY <1>8
    <2>2. e - 1 = last
        BY <1>8
    <2>. QED
        BY <2>1, <2>2 DEF GapStart
<1>13. e = 0 \/ e - 1 \in used[to]
    <2>1. e = 0 \/ last \in 0 .. last
        BY <1>4, <1>8
    <2>2. e - 1 = last
        BY <1>8
    <2>. QED
        BY <1>4, <2>1, <2>2 DEF CompactTo
<1>14. PICK nb \in Nat : nb = base
    BY <1>11
<1>. HIDE DEF base
<1>15. size \in Nat /\ size > 0 /\ remain[to] \in Nat /\ PoolSize[to] \in Nat
    BY <1>1, EntryNumbers, MemPoolAssumption DEF TypeOK
<1>16. Vacant(from, b, to, e, nb, size)
    <2>1. ASSUME NEW k \in used[to] PROVE k # e /\ ~ (e < k) /\ End(to, k) <= nb
        <3>1. k \in Nat /\ k <= last
            BY <1>1, <1>4, EntryNumbers DEF UsedUpTo
        <3>. QED
            BY <1>8, <1>11, <1>14, <3>1
    <2>2. nb + size <= PoolSize[to]
        BY <1>5, <1>11, <1>14, <1>15
    <2>3. e = 0 => nb = 0
        BY <1>12, <1>14 DEF GapStart
    <2>. QED
        BY <2>1, <2>2, <2>3 DEF Vacant
<1>17. /\ op' \in Op
       /\ \/ /\ op'.pc = "transfer" /\ op'.moved = TRUE /\ op'.to = to /\ op'.from = from
             /\ op'.last = e /\ full' = full /\ fragmented' = fragmented
          \/ /\ op' = Idle /\ remain[to] = size
             /\ full' = [full EXCEPT ![from] = FALSE]
             /\ fragmented' = [fragmented EXCEPT ![from] = PoolSize[from] # remain[from] + size]
    <2>1. CASE remain[to] = size
        BY <1>9, <2>1, IdleOp DEF Finish
    <2>2. CASE remain[to] # size
        <3>1. op' = [op EXCEPT !.last = e, !.cur = b, !.moved = TRUE]
              /\ full' = full /\ fragmented' = fragmented
            BY <1>9, <2>2
        <3>2. e \in Int /\ b \in Int /\ op \in Op
            BY <1>1, <1>8, EntryNumbers DEF TypeOK
        <3>. QED
            BY <1>2, <1>3, <3>1, <3>2 DEF Op
    <2>. QED
        BY <2>1, <2>2
<1>18. /\ full' \in [Pools -> BOOLEAN]
       /\ \A q \in Pools : q \notin {to, from} => full'[q] = full[q]
       /\ fragmented' \in [Pools -> BOOLEAN]
       /\ \A q \in Pools : q # from => fragmented'[q] = fragmented[q]
       /\ \/ op'.moved /\ op'.from = from
          \/ fragmented'[from] = (PoolSize[from] # remain[from] + size)
       /\ \/ op'.pc = "transfer" /\ op'.to = to
          \/ remain[to] = size
    BY <1>1, <1>17 DEF TypeOK
<1>. HIDE DEF size
<1>19. TransferRound(to, from, b, e, nb, w)
    <2>1. /\ Vacant(from, b, to, e, nb, Size(from, b))
          /\ remain' = [remain EXCEPT ![from] = @ + Size(from, b), ![to] = @ - Size(from, b)]
        BY <1>10, <1>16 DEF size
    <2>2. MigrateEntry(from, to, b, e, nb)
        BY <1>9, <1>14
    <2>3. /\ \/ op'.moved /\ op'.from = from
             \/ fragmented'[from] = (PoolSize[from] # remain[from] + Size(from, b))
          /\ \/ op'.pc = "transfer" /\ op'.to = to
             \/ remain[to] = Size(from, b)
        BY <1>18 DEF size
    <2>. QED
        BY <1>2, <1>3, <1>7, <1>8, <1>9, <1>10, <1>12, <1>13, <1>14, <1>17, <1>18,
           <2>1, <2>2, <2>3 DEF TransferRound
<1>20. /\ EntryMoved(from, b, to, e, nb)
        /\ TypeOK' /\ Layout' /\ CompactUnlessFragmented' /\ NoSlotMeansFull'
        /\ ~ (Slots(words[from]) \subseteq used[from])'
    BY <1>7, <1>19, TransferMove
<1>21. OpInv'
    <2>1. CASE op' = Idle
        BY <2>1, IdleOp
    <2>2. CASE op'.pc = "transfer" /\ op'.moved = TRUE /\ op'.to = to /\ op'.from = from
               /\ op'.last = e
        <3>1. /\ \A k : k \in used'[to] <=> k = e \/ k \in used[to]
              /\ \A k \in used[to] : entries'[to][k] = entries[to][k]
              /\ entries'[to][e].base = nb
            BY <1>2, <1>3, <1>20 DEF EntryMoved
        <3>2. /\ \A k \in used[to] : Base(to, k)' = Base(to, k) /\ End(to, k)' = End(to, k)
              /\ Base(to, e)' = nb
            BY <3>1 DEF Base, End
        <3>3. ASSUME NEW k \in 0 .. e PROVE k \in used'[to] /\ Base(to, k)' = GapStart(to, k)'
            <4>1. CASE k = e
                <5>1. GapStart(to, e)' = GapStart(to, e)
                    BY <1>13, <3>2 DEF GapStart
                <5>. QED
                    BY <1>12, <1>14, <3>1, <3>2, <4>1, <5>1
            <4>2. CASE k # e
                <5>1. k \in 0 .. last /\ (k # 0 => k - 1 \in 0 .. last)
                    BY <1>8, <4>2
                <5>2. /\ k \in used[to] /\ Base(to, k) = GapStart(to, k)
                      /\ k # 0 => k - 1 \in used[to]
                    BY <1>4, <5>1 DEF CompactTo
                <5>3. GapStart(to, k)' = GapStart(to, k)
                    BY <3>2, <5>2 DEF GapStart
                <5>. QED
                    BY <3>1, <3>2, <5>2, <5>3
            <4>. QED
                BY <4>1, <4>2
        <3>4. CompactTo(op.to, op.last)'
            BY <2>2, <3>3 DEF CompactTo
        <3>5. UsedUpTo(op.to, op.last)'
            <4>1. ASSUME NEW k \in used'[to] PROVE k <= e
                <5>1. k = e \/ (k \in Nat /\ k <= last)
                    BY <1>1, <1>4, <3>1, EntryNumbers DEF UsedUpTo
                <5>. QED
                    BY <1>8, <5>1
            <4>. QED
                BY <2>2, <4>1 DEF UsedUpTo
        <3>6. e >= -1
            BY <1>4, <1>8
        <3>. QED
            BY <1>2, <1>3, <1>10, <1>20, <2>2, <3>4, <3>5, <3>6 DEF OpInv
    <2>. QED
        BY <1>17, <2>1, <2>2
<1>. QED
    BY <1>20, <1>21 DEF IInv, Layout

LEMMA TransferDoneInv ==
    ASSUME IInv, TransferDone
    PROVE  IInv'
<1>1. TypeOK /\ Layout /\ OpInv
    BY DEF IInv, Layout
<1>2. /\ op.pc = "transfer" /\ op.to \in alive /\ op.from \in alive /\ op.from # op.to
    BY <1>1 DEF TransferDone, OpInv
<1>3. PICK to \in Pools, from \in Pools, last \in Int :
         to = op.to /\ from = op.from /\ last = op.last
    BY <1>1, <1>2 DEF TypeOK, Op
<1>4. last >= -1 /\ CompactTo(to, last) /\ UsedUpTo(to, last)
    BY <1>1, <1>2, <1>3 DEF OpInv
<1>5. UNCHANGED <<alive, used, entries, remain, access, handle, mem>>
    BY DEF TransferDone
<1>6. words[to] \in 1 .. MaxWords /\ used[to] \subseteq Slots(words[to])
      /\ words = [words EXCEPT ![to] = words[to]]
    BY <1>1 DEF TypeOK, Layout, SlotsInBitmap
<1>7. CASE /\ Finish(from, op.moved, remain[from], [full EXCEPT ![to] = TRUE])
           /\ UNCHANGED words
    <2>1. PICK fulls \in [Pools -> BOOLEAN] :
             /\ fulls = [full EXCEPT ![to] = TRUE]
             /\ \A q \in Pools : q # to => fulls[q] = full[q]
             /\ fulls[to]
        <3>1. [full EXCEPT ![to] = TRUE] \in [Pools -> BOOLEAN]
            BY <1>1 DEF TypeOK
        <3>. QED
            BY <1>1, <3>1 DEF TypeOK
    <2>2. PICK w \in 1 .. MaxWords : /\ words' = [words EXCEPT ![to] = w]
                                     /\ used[to] \subseteq Slots(w)
        BY <1>6, <1>7
    <2>3. Finish(from, op.moved, remain[from], fulls)
        BY <1>7, <2>1
    <2>4. Slots(w) \subseteq used[to] => fulls[to] \/ remain[to] = 0
        BY <2>1
    <2>5. /\ to # from /\ op.to = to /\ op.from = from /\ op.pc \in {"transfer", "fast"}
          /\ \A q \in Pools : q # to => fulls[q] = full[q]
        BY <1>2, <1>3, <2>1
    <2>. QED
        BY <1>5, <2>2, <2>3, <2>4, <2>5, TransferEnd
<1>8. CASE /\ \E w \in SearchWords(to, last) : words' = [words EXCEPT ![to] = w]
           /\ Finish(from, op.moved, remain[from], full)
    <2>1. PICK w \in SearchWords(to, last) : words' = [words EXCEPT ![to] = w]
        BY <1>8
    <2>2. /\ w \in 1 .. MaxWords /\ used[to] \subseteq Slots(w)
          /\ ~ Slots(w) \subseteq used[to]
        BY <1>1, <1>4, SearchFact
    <2>3. full \in [Pools -> BOOLEAN]
        BY <1>1 DEF TypeOK
    <2>. QED
        BY <1>2, <1>3, <1>5, <1>8, <2>1, <2>2, <2>3, TransferEnd
<1>. QED
    BY <1>3, <1>7, <1>8 DEF TransferDone

LEMMA FastStepInv ==
    ASSUME IInv, FastStep
    PROVE  IInv'
<1>1. TypeOK /\ Layout /\ OpInv
    BY DEF IInv, Layout
<1>2. /\ op.pc = "fast" /\ NextFast # {} /\ op.to \in alive
      /\ op.from \in alive /\ op.from # op.to
      /\ alive' = alive /\ access' = access
    BY <1>1 DEF FastStep, OpInv
<1>3. PICK to \in Pools, from \in Pools : to = op.to /\ from = op.from
    BY <1>1, <1>2 DEF TypeOK, Op
<1>4. PICK b \in used[from] : b = Least(NextFast)
    <2>1. \A k \in used[from] : k \in Nat
        BY <1>1, EntryNumbers
    <2>2. NextFast \subseteq Nat /\ NextFast \subseteq used[from]
        BY <1>3, <2>1 DEF NextFast
    <2>3. Least(NextFast) \in NextFast
        BY <1>2, <2>2, LeastIsLeast
    <2>. QED
        BY <2>2, <2>3
<1>5. PICK size \in Nat \ {0} : size = Size(from, b)
    BY <1>1, EntryNumbers
<1>6. PICK r \in FastAlloc(size) :
         /\ words' = [words EXCEPT ![to] = r.words]
         /\ IF r.e = -1
            THEN /\ full' = [full EXCEPT ![to] = r.full]
                 /\ op' = [op EXCEPT !.cur = b, !.size = size]
                 /\ UNCHANGED <<used, entries, remain, fragmented, handle, mem>>
            ELSE /\ MigrateEntry(from, to, b, r.e, GapStart(to, r.e))
                 /\ remain' = [remain EXCEPT ![from] = @ + size, ![to] = @ - size]
                 /\ IF remain[to] = size \/ r.full
                    THEN Finish(from, TRUE, remain[from] + size,
                                [full EXCEPT ![to] = r.full])
                    ELSE /\ op' = [op EXCEPT !.cur = b, !.moved = TRUE]
                         /\ full' = [full EXCEPT ![to] = r.full]
                         /\ UNCHANGED fragmented
    BY <1>3, <1>4, <1>5 DEF FastStep
<1>7. words[to] \in 1 .. MaxWords /\ used[to] \subseteq Slots(words[to])
      /\ full[to] \in BOOLEAN
    BY <1>1 DEF TypeOK, Layout, SlotsInBitmap
<1>8. ASSUME NEW w \in EntryWords(to)
      PROVE  w \in 1 .. MaxWords /\ used[to] \subseteq Slots(w)
    <2>1. CASE w = words[to]
        BY <1>7, <2>1
    <2>2. CASE w # words[to]
        <3>1. w = words[to] + 1 /\ words[to] < MaxWords
            BY <2>2 DEF EntryWords, GrowsTo
        <3>. QED
            BY <1>7, <3>1, NextWord, MemPoolAssumption
    <2>. QED
        BY <2>1, <2>2
\* A refused request leaves the bitmap as it was, a walk leaves it good.
<1>9. \/ r = [e |-> -1, words |-> words[to], full |-> full[to]]
      \/ /\ r \in Outcome /\ GoodBitmap(to, r) /\ size <= remain[to]
         /\ r.e # -1 => r.e \in Slots(r.words) /\ Suits(to, r.e, size)
    <2>1. CASE size > remain[to]
        BY <1>3, <1>6, <2>1 DEF FastAlloc
    <2>2. CASE ~ (size > remain[to])
        <3>1. \/ r = [e |-> -1, words |-> words[to], full |-> full[to]]
              \/ \E w \in EntryWords(to) : r \in Walk(to, -1, w, size)
            BY <1>3, <1>6, <2>2 DEF FastAlloc
        <3>2. ASSUME NEW w \in EntryWords(to), r \in Walk(to, -1, w, size)
              PROVE  /\ r \in Outcome /\ GoodBitmap(to, r)
                     /\ r.e # -1 => r.e \in Slots(r.words) /\ Suits(to, r.e, size)
            BY <1>5, <1>8, <3>2, WalkFact
        <3>3. size <= remain[to]
            BY <1>1, <1>5, <2>2 DEF TypeOK
        <3>. QED
            BY <3>1, <3>2, <3>3
    <2>. QED
        BY <2>1, <2>2
<1>10. CASE r.e = -1
    <2>1. PICK w \in 1 .. MaxWords, f \in BOOLEAN : w = r.words /\ f = r.full
        BY <1>7, <1>9 DEF Outcome
    <2>2. used[to] \subseteq Slots(w) /\ (Slots(w) \subseteq used[to] => f \/ remain[to] = 0)
        <3>1. CASE r = [e |-> -1, words |-> words[to], full |-> full[to]]
            BY <1>2, <1>3, <1>7, <2>1, <3>1 DEF IInv, NoSlotMeansFull, IsFull
        <3>2. CASE GoodBitmap(to, r)
            BY <1>10, <2>1, <3>2 DEF GoodBitmap
        <3>. QED
            BY <1>9, <3>1, <3>2
    <2>3. /\ words' = [words EXCEPT ![to] = w] /\ full' = [full EXCEPT ![to] = f]
          /\ op' = [op EXCEPT !.cur = b, !.size = size]
          /\ used' = used /\ entries' = entries /\ remain' = remain
          /\ fragmented' = fragmented /\ handle' = handle /\ mem' = mem
        BY <1>6, <1>10, <2>1
    <2>4. /\ words' \in [Pools -> 1 .. MaxWords] /\ words'[to] = w
          /\ \A q \in Pools : q # to => words'[q] = words[q]
          /\ full' \in [Pools -> BOOLEAN] /\ full'[to] = f
          /\ \A q \in Pools : q # to => full'[q] = full[q]
        BY <1>1, <2>3 DEF TypeOK
    <2>5. \A q \in Pools : used[q] \subseteq Slots(words'[q])
        BY <1>1, <2>2, <2>4 DEF Layout, SlotsInBitmap
    <2>6. Layout'
        BY <1>1, <1>2, <2>3, <2>5, SameLayout
    <2>7. /\ op' \in Op /\ op'.pc = "fast" /\ op'.to = to /\ op'.from = from
          /\ op'.moved = op.moved /\ op.moved \in BOOLEAN
        <3>1. op \in Op /\ b \in Int /\ size \in Nat
            BY <1>1, <1>5, EntryNumbers DEF TypeOK
        <3>. QED
            BY <1>2, <1>3, <2>3, <3>1 DEF Op
    <2>8. TypeOK'
        BY <1>1, <1>2, <2>3, <2>4, <2>7 DEF TypeOK
    <2>9. CompactUnlessFragmented'
        <3>1. \A q \in Pools : CompactPool(q) => CompactPool(q)'
            BY <2>3 DEF CompactPool, GapStart, Base, End
        <3>. QED
            BY <1>2, <1>3, <2>3, <2>7, <3>1 DEF IInv, CompactUnlessFragmented
    <2>10. NoSlotMeansFull'
        <3>1. ASSUME NEW q \in alive, Slots(words'[q]) \subseteq used[q]
              PROVE  full'[q] \/ remain[q] = 0
            <4>1. CASE q = to
                BY <2>2, <2>4, <3>1, <4>1
            <4>2. CASE q # to
                BY <1>1, <1>2, <2>4, <3>1, <4>2 DEF IInv, NoSlotMeansFull, IsFull, TypeOK
            <4>. QED
                BY <4>1, <4>2
        <3>. QED
            BY <1>2, <2>3, <3>1 DEF NoSlotMeansFull, IsFull
    <2>11. OpInv'
        BY <1>1, <1>2, <1>3, <2>3, <2>4, <2>7 DEF OpInv
    <2>. QED
        BY <2>6, <2>8, <2>9, <2>10, <2>11 DEF IInv, Layout
<1>11. CASE r.e # -1
    <2>1. PICK w \in 1 .. MaxWords, f \in BOOLEAN, e \in Int :
             w = r.words /\ f = r.full /\ e = r.e
        BY <1>9, <1>11 DEF Outcome
    <2>2. /\ used[to] \subseteq Slots(w) /\ e \in Slots(w) /\ Suits(to, e, size)
          /\ (\A i \in Slots(w) : i = e \/ i \in used[to]) => f
          /\ size <= remain[to]
        BY <1>9, <1>11, <2>1 DEF GoodBitmap
    <2>3. /\ MigrateEntry(from, to, b, e, GapStart(to, e))
          /\ remain' = [remain EXCEPT ![from] = @ + size, ![to] = @ - size]
          /\ words' = [words EXCEPT ![to] = w]
          /\ IF remain[to] = size \/ f
             THEN Finish(from, TRUE, remain[from] + size, [full EXCEPT ![to] = f])
             ELSE /\ op' = [op EXCEPT !.cur = b, !.moved = TRUE]
                  /\ full' = [full EXCEPT ![to] = f]
                  /\ UNCHANGED fragmented
        BY <1>6, <1>11, <2>1
    <2>4. e \in Slot /\ e \in Nat
        BY <2>2, SlotsAreNat, MemPoolAssumption
    <2>5. /\ GapStart(to, e) \in Nat
          /\ GapStart(to, e) + size <= PoolSize[to]
          /\ \A k \in used[to] : k # e
          /\ \A k \in used[to] : k < e => End(to, k) <= GapStart(to, e)
          /\ \A k \in used[to] : e < k => GapStart(to, e) + size <= Base(to, k)
          /\ e = 0 => GapStart(to, e) = 0
        BY <1>1, <2>2, <2>4, SuitsFact
    <2>6. PICK nb \in Nat : nb = GapStart(to, e)
        BY <2>5
    <2>7. Vacant(from, b, to, e, nb, size)
        BY <2>5, <2>6 DEF Vacant
    <2>8. PICK fulls \in [Pools -> BOOLEAN] :
             /\ fulls = [full EXCEPT ![to] = f]
             /\ \A q \in Pools : q # to => fulls[q] = full[q]
             /\ fulls[to] = f
        <3>1. [full EXCEPT ![to] = f] \in [Pools -> BOOLEAN]
            BY <1>1 DEF TypeOK
        <3>. QED
            BY <1>1, <3>1 DEF TypeOK
    <2>9. /\ op' \in Op
          /\ \/ /\ op'.pc = "fast" /\ op'.moved = TRUE /\ op'.to = to /\ op'.from = from
                /\ full' = fulls /\ fragmented' = fragmented
             \/ /\ op' = Idle /\ (remain[to] = size \/ f)
                /\ full' = [fulls EXCEPT ![from] = FALSE]
                /\ fragmented' = [fragmented EXCEPT ![from] = PoolSize[from] # remain[from] + size]
        <3>1. CASE remain[to] = size \/ f
            BY <2>3, <2>8, <3>1, IdleOp DEF Finish
        <3>2. CASE ~ (remain[to] = size \/ f)
            <4>1. op' = [op EXCEPT !.cur = b, !.moved = TRUE]
                  /\ full' = fulls /\ fragmented' = fragmented
                BY <2>3, <2>8, <3>2
            <4>2. b \in Int /\ op \in Op
                BY <1>1, EntryNumbers DEF TypeOK
            <4>. QED
                BY <1>2, <1>3, <4>1, <4>2 DEF Op
        <3>. QED
            BY <3>1, <3>2
    <2>10. /\ full' \in [Pools -> BOOLEAN]
           /\ \A q \in Pools : q \notin {to, from} => full'[q] = full[q]
           /\ full'[to] = f
           /\ fragmented' \in [Pools -> BOOLEAN]
           /\ \A q \in Pools : q # from => fragmented'[q] = fragmented[q]
           /\ \/ op'.moved /\ op'.from = from
              \/ fragmented'[from] = (PoolSize[from] # remain[from] + size)
        <3>1. CASE full' = fulls /\ fragmented' = fragmented /\ op'.moved = TRUE /\ op'.from = from
            BY <1>1, <1>2, <1>3, <2>8, <3>1 DEF TypeOK
        <3>2. CASE /\ full' = [fulls EXCEPT ![from] = FALSE]
                   /\ fragmented' = [fragmented EXCEPT ![from] = PoolSize[from] # remain[from] + size]
            BY <1>1, <1>2, <1>3, <2>8, <3>2 DEF TypeOK
        <3>. QED
            BY <2>9, <3>1, <3>2
    <2>11. TransferRound(to, from, b, e, nb, w)
        <3>1. Vacant(from, b, to, e, nb, Size(from, b))
              /\ remain' = [remain EXCEPT ![from] = @ + Size(from, b), ![to] = @ - Size(from, b)]
            BY <1>5, <2>3, <2>7
        <3>2. MigrateEntry(from, to, b, e, nb) /\ nb = GapStart(to, e)
            BY <2>3, <2>6
        <3>3. e \notin used[to] /\ (e = 0 \/ e - 1 \in used[to])
            BY <2>2 DEF Suits
        <3>4. (\A i \in Slots(w) : i = e \/ i \in used[to]) => full'[to]
            BY <2>2, <2>10
        <3>5. \/ op'.moved /\ op'.from = from
              \/ fragmented'[from] = (PoolSize[from] # remain[from] + Size(from, b))
            BY <1>5, <2>10
        <3>. QED
            BY <1>2, <1>3, <2>2, <2>3, <2>9, <2>10, <3>1, <3>2, <3>3, <3>4, <3>5
               DEF TransferRound
    <2>12. /\ TypeOK' /\ Layout' /\ CompactUnlessFragmented' /\ NoSlotMeansFull'
           /\ ~ (Slots(words[from]) \subseteq used[from])'
        BY <2>4, <2>11, TransferMove
    <2>13. OpInv'
        <3>1. CASE op' = Idle
            BY <3>1, IdleOp
        <3>2. CASE op'.pc = "fast" /\ op'.moved = TRUE /\ op'.to = to /\ op'.from = from
            BY <1>2, <1>3, <2>12, <3>2 DEF OpInv
        <3>. QED
            BY <2>9, <3>1, <3>2
    <2>. QED
        BY <2>12, <2>13 DEF IInv, Layout
<1>. QED
    BY <1>10, <1>11

LEMMA FastDoneInv ==
    ASSUME IInv, FastDone
    PROVE  IInv'
<1>1. TypeOK /\ Layout /\ OpInv
    BY DEF IInv, Layout
<1>2. /\ op.pc = "fast" /\ op.to \in alive /\ op.from \in alive /\ op.from # op.to
    BY <1>1 DEF FastDone, OpInv
<1>3. PICK to \in Pools, from \in Pools : to = op.to /\ from = op.from
    BY <1>1, <1>2 DEF TypeOK, Op
<1>4. /\ words[to] \in 1 .. MaxWords /\ used[to] \subseteq Slots(words[to])
      /\ words' = [words EXCEPT ![to] = words[to]]
      /\ full \in [Pools -> BOOLEAN]
    BY <1>1 DEF TypeOK, Layout, SlotsInBitmap, FastDone
<1>5. Slots(words[to]) \subseteq used[to] => full[to] \/ remain[to] = 0
    BY <1>2, <1>3 DEF IInv, NoSlotMeansFull, IsFull
<1>6. /\ Finish(from, op.moved, remain[from], full)
      /\ UNCHANGED <<alive, used, entries, remain, access, handle, mem>>
    BY <1>3 DEF FastDone
<1>. QED
    BY <1>2, <1>3, <1>4, <1>5, <1>6, TransferEnd

-----------------------------------------------------------------------------
(* The theorems.                                                           *)

LEMMA NextInv ==
    ASSUME IInv, [Next]_vars
    PROVE  IInv'
<1>1. CASE \E p \in Pools, w \in 1 .. MaxWords : InitPool(p, w)
    BY <1>1, InitPoolInv
<1>2. CASE \E p \in Pools : DestroyPool(p) \/ OpenAccess(p) \/ CloseAccess(p)
                             \/ MemPoolDefrag(p)
    BY <1>2, DestroyPoolInv, AccessInv, MemPoolDefragInv
<1>3. CASE \E p \in Pools, o \in Owners, s \in Sizes, d \in BOOLEAN :
               MemPoolAlloc(p, o, s, d)
    BY <1>3, MemPoolAllocInv
<1>4. CASE \E o \in Owners : MemPoolFree(o)
    BY <1>4, MemPoolFreeInv
<1>5. CASE \E to, from \in Pools : TransferEntries(to, from)
                                    \/ TransferEntriesFast(to, from)
    BY <1>5, TransferEntriesInv
<1>6. CASE Loop
    BY <1>6, DefragHeadInv, DefragStepInv, DefragDoneInv, TransferStepInv,
       TransferDoneInv, FastStepInv, FastDoneInv DEF Loop
<1>7. CASE UNCHANGED vars
    <2>1. TypeOK'
        BY <1>7 DEF IInv, TypeOK, vars
    <2>2. Layout'
        BY <1>7, SameLayout DEF IInv, Layout, SlotsInBitmap, vars
    <2>3. CompactUnlessFragmented' /\ NoSlotMeansFull'
        BY <1>7 DEF IInv, CompactUnlessFragmented, CompactPool, NoSlotMeansFull,
                    GapStart, Base, End, IsFull, vars
    <2>4. OpInv'
        BY <1>7 DEF IInv, OpInv, CompactTo, UsedUpTo, GapStart, Base, End, IsFull,
                    Empty, vars
    <2>. QED
        BY <2>1, <2>2, <2>3, <2>4 DEF IInv, Layout
<1>. QED
    BY <1>1, <1>2, <1>3, <1>4, <1>5, <1>6, <1>7 DEF Next

\* The inductive invariant holds of every state the allocator reaches,
\* between the calls and between the rounds of its loops.
THEOREM Invariance == Spec => []IInv
<1>1. Init => IInv
    BY InitInv
<1>2. IInv /\ [Next]_vars => IInv'
    BY NextInv
<1>. QED
    BY <1>1, <1>2, PTL DEF Spec

\* Every field keeps its range: remain never goes below zero, a slot never
\* lies outside the bitmap and access_refcount never underflows.
THEOREM TypeCorrect == Spec => []TypeOK
<1>1. IInv => TypeOK
    BY DEF IInv
<1>. QED
    BY <1>1, Invariance, PTL

\* Whatever is allocated, freed, defragmented or transferred, in any order,
\* the entries of a pool are disjoint, lie inside the pool, and slot order is
\* address order.
THEOREM OrderedAlways == Spec => []EntriesOrdered
<1>1. IInv => EntriesOrdered
    BY DEF IInv
<1>. QED
    BY <1>1, Invariance, PTL

\* The clients' handles and the owner pointers of the entries always name
\* each other, so a relocated pixmap is never looked up at its old place.
THEOREM HandlesAlways == Spec => []HandlesAgree
<1>1. IInv => HandlesAgree
    BY DEF IInv
<1>. QED
    BY <1>1, Invariance, PTL

\* No allocation, defragmentation or transfer loses or overwrites the data of
\* a live entry: the memmove() and memcpy() of move_entry() are always the
\* right choice.
THEOREM DataAlways == Spec => []DataKept
<1>1. IInv => DataKept
    BY DEF IInv
<1>. QED
    BY <1>1, Invariance, PTL

\* The remain counters are exact after any sequence of calls.
THEOREM RemainAlways == Spec => []RemainExact
<1>1. IInv => RemainExact
    BY DEF IInv
<1>. QED
    BY <1>1, Invariance, PTL

\* A clear fragmented flag always means a compact pool: defrag_pool() may
\* return at once, and the transfer may append behind the last busy slot.
THEOREM CompactAlways == Spec => []CompactUnlessFragmented
<1>1. IInv => CompactUnlessFragmented
    BY DEF IInv
<1>. QED
    BY <1>1, Invariance, PTL

\* A pool with no unused slot is always reported as full.
THEOREM FullAlways == Spec => []NoSlotMeansFull
<1>1. IInv => NoSlotMeansFull
    BY DEF IInv
<1>. QED
    BY <1>1, Invariance, PTL

\* The book-keeping of the pools is right after any sequence of calls.
THEOREM SoundAlways == Spec => []PoolsSound
<1>1. IInv => PoolsSound
    BY DEF IInv, PoolsSound
<1>. QED
    BY <1>1, Invariance, PTL

\* Every client's handle leads to the bytes it stored.
THEOREM ClientsAlways == Spec => []ClientsKeepTheirs
<1>1. IInv => ClientsKeepTheirs
    BY DEF IInv, ClientsKeepTheirs
<1>. QED
    BY <1>1, Invariance, PTL

\* An allocation that may defragment the pool fails only for want of a slot.
THEOREM DefragSucceeds == Spec => DefragAllocSucceeds
<1>1. ASSUME IInv, Next, op.pc = "defrag", op.caller = "alloc", op' = Idle
      PROVE  handle'[op.owner] # NoHandle \/ full'[op.to]
    <2>1. DefragDone
        <3>1. op # Idle /\ op' # op
            BY <1>1 DEF Idle
        <3>2. Loop
            BY <1>1, <3>1 DEF Next, InitPool, DestroyPool, OpenAccess, CloseAccess,
                MemPoolDefrag, MemPoolAlloc, MemPoolFree, TransferEntries,
                TransferEntriesFast, MayTransfer
        <3>3. ~ DefragStep
            <4>1. SUFFICES ASSUME op' = [op EXCEPT !.last = @ + 1] PROVE FALSE
                BY DEF DefragStep
            <4>2. op'.pc = "defrag"
                BY <1>1, <4>1 DEF IInv, TypeOK, Op
            <4>. QED
                BY <1>1, <4>2 DEF Idle
        <3>. QED
            BY <1>1, <3>2, <3>3 DEF Loop, DefragHead, TransferStep, TransferDone,
                FastStep, FastDone
    <2>2. op.to \in alive /\ op.owner \in Owners /\ TypeOK
        BY <1>1 DEF IInv, OpInv
    <2>3. PICK p \in Pools : p = op.to
        BY <2>2 DEF TypeOK
    <2>4. PICK last : last = IF fragmented[p] THEN op.last ELSE LastBusy(p)
        OBVIOUS
    <2>5. PICK r \in Walk(p, last, words[p], op.size) :
             /\ SetBitmap(p, r)
             /\ IF r.e # -1 THEN Take(p, op.owner, op.size, r)
                ELSE UNCHANGED <<used, entries, remain, handle, mem>>
        BY <1>1, <2>1, <2>3, <2>4 DEF DefragDone
    <2>6. r.e # -1 \/ r.full
        BY <1>1, <2>1, <2>3, <2>4, DefragRoom
    <2>7. CASE r.e # -1
        <3>1. handle'[op.owner] = [pool |-> p, id |-> r.e]
            BY <2>2, <2>5, <2>7 DEF Take, TypeOK
        <3>. QED
            BY <3>1, MemPoolAssumption DEF NoHandle
    <2>8. CASE r.full
        BY <2>2, <2>3, <2>5, <2>8 DEF SetBitmap, TypeOK
    <2>. QED
        BY <2>6, <2>7, <2>8
<1>2. IInv /\ [Next]_vars =>
        (op.pc = "defrag" /\ op.caller = "alloc" /\ op' = Idle
            => handle'[op.owner] # NoHandle \/ full'[op.to]) \/ UNCHANGED vars
    BY <1>1
<1>. QED
    BY <1>2, Invariance, PTL DEF Spec, DefragAllocSucceeds
=============================================================================
