------------------------ MODULE MemPoolLayout_proof ------------------------
(***************************************************************************)
(* Lemmas about the pool allocator: what its searches return, and that the *)
(* three ways it changes the table of entries (taking a slot, moving an    *)
(* entry, freeing one) keep the layout of the pools sound.                 *)
(***************************************************************************)
EXTENDS MemPoolInv, FiniteSetTheorems, TLAPS

-----------------------------------------------------------------------------
(* Searching the bitmap.                                                   *)

\* Least() of a set of naturals is its smallest element.
LEMMA LeastIsLeast ==
    ASSUME NEW S, S \subseteq Nat, S # {}
    PROVE  /\ Least(S) \in S
           /\ \A y \in S : Least(S) <= y
<1>. DEFINE R == {ss \in Nat \X Nat : ss[1] < ss[2]}
<1>1. IsWellFoundedOn(R, Nat)
    BY NatLessThanWellFounded DEF OpToRel
<1>. HIDE DEF R
<1>2. PICK n \in S : \A m \in S : ~ (<<m, n>> \in R)
    BY <1>1, WFMin
<1>3. ASSUME NEW m \in S PROVE n <= m
    <2>1. m \in Nat /\ n \in Nat
        OBVIOUS
    <2>2. m < n => <<m, n>> \in R
        BY <2>1 DEF R
    <2>. QED
        BY <1>2, <2>1, <2>2
<1>. QED
    BY <1>3 DEF Least

\* The slots of a bitmap are naturals within the largest bitmap.
LEMMA SlotsAreNat ==
    ASSUME NEW w \in 0 .. MaxWords
    PROVE  /\ Slots(w) \subseteq Slot
           /\ Slot \subseteq Nat
           /\ w * WordBits \in Nat
<1>1. w * WordBits <= MaxWords * WordBits
    BY MemPoolAssumption
<1>2. w * WordBits \in Nat /\ MaxWords * WordBits \in Nat
    BY MemPoolAssumption
<1>. QED
    BY <1>1, <1>2 DEF Slots, Slot

\* get_next_unused_entry() returns the first unused slot from start on.
LEMMA NextUnusedFact ==
    ASSUME NEW p, NEW start \in Int, NEW w \in 1 .. MaxWords
    PROVE  \/ /\ NextUnused(p, start, w) = -1
              /\ \A i \in Slots(w) : i >= start => i \in used[p]
           \/ /\ NextUnused(p, start, w) \in Slots(w) \ used[p]
              /\ NextUnused(p, start, w) >= start
              /\ \A i \in Slots(w) \ used[p] :
                    i >= start => NextUnused(p, start, w) <= i
<1>. DEFINE S == {i \in Slots(w) \ used[p] : i >= start}
<1>1. S \subseteq Nat
    BY SlotsAreNat, MemPoolAssumption
<1>2. CASE S = {}
    BY <1>2 DEF NextUnused
<1>3. CASE S # {}
    <2>1. Least(S) \in S /\ \A y \in S : Least(S) <= y
        BY <1>1, <1>3, LeastIsLeast
    <2>. QED
        BY <1>3, <2>1 DEF NextUnused
<1>. QED
    BY <1>2, <1>3

\* mem_pool_get_next_used_entry() returns the first used slot from start on.
LEMMA NextUsedFact ==
    ASSUME NEW p, NEW start \in Int, used[p] \subseteq Nat
    PROVE  \/ /\ NextUsed(p, start) = -1
              /\ \A i \in used[p] : i < start
           \/ /\ NextUsed(p, start) \in used[p]
              /\ NextUsed(p, start) >= start
              /\ \A i \in used[p] : i >= start => NextUsed(p, start) <= i
<1>. DEFINE S == {i \in used[p] : i >= start}
<1>1. S \subseteq Nat
    OBVIOUS
<1>2. CASE S = {}
    BY <1>2 DEF NextUsed
<1>3. CASE S # {}
    <2>1. Least(S) \in S /\ \A y \in S : Least(S) <= y
        BY <1>1, <1>3, LeastIsLeast
    <2>. QED
        BY <1>3, <2>1 DEF NextUsed
<1>. QED
    BY <1>2, <1>3

-----------------------------------------------------------------------------
(* The walk of mem_pool_alloc().                                           *)

\* What a slot found by the walk is good for.
Suits(p, e, size) ==
    /\ e \notin used[p]
    /\ e = 0 \/ e - 1 \in used[p]
    /\ Gap(p, e) >= size

\* How a walk ends.
Outcome == [e : Int, words : 1 .. MaxWords, full : BOOLEAN]

\* The bitmap after a walk: r.words words, marked full when no slot is left.
GoodBitmap(p, r) ==
    /\ r.words \in 1 .. MaxWords
    /\ used[p] \subseteq Slots(r.words)
    /\ r.full \in BOOLEAN
    /\ (\A i \in Slots(r.words) : i = r.e \/ i \in used[p]) => r.full

\* A longer bitmap has the slots of the shorter one and some more.
LEMMA NextWord ==
    ASSUME NEW w \in 1 .. MaxWords - 1
    PROVE  /\ w + 1 \in 1 .. MaxWords
           /\ Slots(w) \subseteq Slots(w + 1)
           /\ w * WordBits \in Slots(w + 1)
           /\ w * WordBits + 1 \in Slots(w + 1)
           /\ w * WordBits \notin Slots(w)
           /\ w * WordBits + 1 \notin Slots(w)
<1>1. (w + 1) * WordBits = w * WordBits + WordBits
    BY MemPoolAssumption
<1>2. w * WordBits \in Nat
    BY MemPoolAssumption
<1>. QED
    BY <1>1, <1>2, MemPoolAssumption DEF Slots

LEMMA SettleFact ==
    ASSUME NEW p, NEW w \in 1 .. MaxWords, NEW e \in Slots(w),
           used[p] \subseteq Slots(w), NEW r \in Settle(p, e, w)
    PROVE  /\ r.e = e /\ GoodBitmap(p, r) /\ Slots(w) \subseteq Slots(r.words)
           /\ r \in Outcome
<1>0. ASSUME NEW v \in 1 .. MaxWords, NEW f \in BOOLEAN
      PROVE  [e |-> e, words |-> v, full |-> f] \in Outcome
    BY SlotsAreNat, MemPoolAssumption DEF Outcome
<1>. DEFINE all == \A i \in Slots(w) : i > NextUsed(p, e + 1) => i \in used[p] \cup {e}
<1>1. CASE all
    <2>1. PICK v \in GrowsTo(w) : r = [e |-> e, words |-> v, full |-> v = w]
        BY <1>1 DEF Settle
    <2>2. CASE v = w
        BY <1>0, <2>1, <2>2 DEF GoodBitmap
    <2>3. CASE v # w
        <3>1. w \in 1 .. MaxWords - 1 /\ v = w + 1
            BY <2>1, <2>3, MemPoolAssumption DEF GrowsTo
        <3>2. w * WordBits \in Slots(r.words) /\ w * WordBits \notin used[p] \cup {e}
            BY <2>1, <3>1, NextWord
        <3>. QED
            BY <1>0, <2>1, <2>3, <3>1, <3>2, NextWord DEF GoodBitmap
    <2>. QED
        BY <2>2, <2>3
<1>2. CASE ~ all
    <2>1. r = [e |-> e, words |-> w, full |-> FALSE]
        BY <1>2 DEF Settle
    <2>2. PICK i \in Slots(w) : i \notin used[p] \cup {e}
        BY <1>2
    <2>. QED
        BY <1>0, <2>1, <2>2 DEF GoodBitmap
<1>. QED
    BY <1>1, <1>2

\* Whatever way the walk ends: the slot it found suits, and the bitmap is
\* marked full if it has no slot left.
LEMMA WalkFact ==
    ASSUME NEW p \in Pools, NEW w \in 1 .. MaxWords, NEW size \in Nat,
           used[p] \subseteq Slots(w),
           NEW b \in Int,
           b = -1 \/ b \in used[p] \/ Slots(w) \subseteq used[p],
           NEW r \in Walk(p, b, w, size)
    PROVE  /\ r \in Outcome
           /\ GoodBitmap(p, r)
           /\ r.e # -1 => r.e \in Slots(r.words) /\ Suits(p, r.e, size)
<1>. DEFINE fits == Fitting(p, b, w, size)
            n == w * WordBits
<1>1. n \in Nat /\ Slots(w) \subseteq Nat /\ used[p] \subseteq Nat
    BY SlotsAreNat, MemPoolAssumption
<1>2. CASE fits # {}
    <2>1. fits \subseteq Slots(w)
        BY DEF Fitting, RunStarts
    <2>2. Least(fits) \in fits
        BY <1>1, <1>2, <2>1, LeastIsLeast
    <2>3. r \in Settle(p, Least(fits), w)
        BY <1>2 DEF Walk
    <2>4. Suits(p, Least(fits), size)
        BY <2>2 DEF Suits, Fitting, RunStarts
    <2>5. /\ r.e = Least(fits) /\ GoodBitmap(p, r) /\ Slots(w) \subseteq Slots(r.words)
          /\ r \in Outcome
        BY <2>1, <2>2, <2>3, SettleFact
    <2>. QED
        BY <2>1, <2>2, <2>4, <2>5
<1>3. CASE fits = {} /\ n - 1 \notin used[p]
    <2>1. r = [e |-> -1, words |-> w, full |-> FALSE]
        BY <1>3 DEF Walk
    <2>2. n - 1 \in Slots(w) /\ n - 1 # -1
        <3>1. n >= 1
            BY MemPoolAssumption
        <3>. QED
            BY <1>1, <3>1 DEF Slots
    <2>. QED
        BY <1>3, <2>1, <2>2, MemPoolAssumption DEF GoodBitmap, Outcome
<1>4. CASE fits = {} /\ n - 1 \in used[p]
    <2>1. PICK v \in GrowsTo(w) :
              r \in IF v = w THEN {[e |-> -1, words |-> w, full |-> TRUE]}
                    ELSE IF (RunStarts(p, b, w) # {} \/ b > 0)
                            /\ PoolSize[p] - End(p, n - 1) >= size
                         THEN Settle(p, n, w + 1)
                         ELSE {[e |-> -1, words |-> w + 1, full |-> FALSE]}
        BY <1>4 DEF Walk
    <2>2. CASE v = w
        <3>1. r = [e |-> -1, words |-> w, full |-> TRUE]
            BY <2>1, <2>2
        <3>. QED
            BY <3>1 DEF GoodBitmap, Outcome
    <2>3. CASE v # w
        <3>1. w \in 1 .. MaxWords - 1 /\ w + 1 \in 1 .. MaxWords
            BY <2>1, <2>3, MemPoolAssumption DEF GrowsTo
        <3>2. used[p] \subseteq Slots(w + 1) /\ n \in Slots(w + 1) /\ n \notin used[p]
            BY <3>1, NextWord
        <3>3. CASE r = [e |-> -1, words |-> w + 1, full |-> FALSE]
            BY <1>1, <3>1, <3>2, <3>3 DEF GoodBitmap, Outcome
        <3>4. CASE r \in Settle(p, n, w + 1) /\ PoolSize[p] - End(p, n - 1) >= size
            <4>1. /\ r.e = n /\ GoodBitmap(p, r) /\ Slots(w + 1) \subseteq Slots(r.words)
                  /\ r \in Outcome
                BY <3>1, <3>2, <3>4, SettleFact
            <4>2. NextUsed(p, n + 1) = -1
                BY <1>1, NextUsedFact DEF Slots
            <4>3. n # 0
                BY <1>1, MemPoolAssumption
            <4>4. Gap(p, n) = PoolSize[p] - End(p, n - 1)
                BY <4>2, <4>3 DEF Gap, GapEnd, GapStart
            <4>5. Suits(p, n, size)
                BY <1>4, <3>2, <3>4, <4>4 DEF Suits
            <4>. QED
                BY <3>2, <4>1, <4>5
        <3>. QED
            BY <2>1, <2>3, <3>3, <3>4
    <2>. QED
        BY <2>2, <2>3
<1>. QED
    BY <1>2, <1>3, <1>4

-----------------------------------------------------------------------------
(* Counting free cells.                                                    *)

\* The cells of a range.
Cells(a, n) == a .. a + n - 1

LEMMA CellsCount ==
    ASSUME NEW a \in Nat, NEW n \in Nat
    PROVE  IsFiniteSet(Cells(a, n)) /\ Cardinality(Cells(a, n)) = n
BY FS_Interval DEF Cells

LEMMA CellFinite ==
    ASSUME NEW p \in Pools
    PROVE  /\ IsFiniteSet(Cell(p)) /\ Cardinality(Cell(p)) = PoolSize[p]
           /\ IsFiniteSet(FreeCells(p)) /\ Cardinality(FreeCells(p)) \in Nat
           /\ FreeCells(p) \subseteq Cell(p)
<1>1. PoolSize[p] \in Nat
    BY MemPoolAssumption
<1>2. IsFiniteSet(Cell(p)) /\ Cardinality(Cell(p)) = PoolSize[p]
  <2>1. Cell(p) = Cells(0, PoolSize[p])
    BY <1>1 DEF Cell, Cells
  <2>. QED
    BY <1>1, <2>1, CellsCount
<1>3. FreeCells(p) \subseteq Cell(p)
    BY DEF FreeCells
<1>. QED
    BY <1>2, <1>3, FS_Subset, FS_CardinalityType

\* Taking n cells out of a finite set, and putting n new ones in.
LEMMA CellsOut ==
    ASSUME NEW S, IsFiniteSet(S), NEW a \in Nat, NEW n \in Nat,
           Cells(a, n) \subseteq S
    PROVE  Cardinality(S \ Cells(a, n)) = Cardinality(S) - n
<1>1. S \cap Cells(a, n) = Cells(a, n)
    OBVIOUS
<1>2. Cardinality(S \ Cells(a, n)) = Cardinality(S) - Cardinality(S \cap Cells(a, n))
    BY FS_Difference
<1>3. Cardinality(Cells(a, n)) = n
    BY CellsCount
<1>. QED
    BY <1>1, <1>2, <1>3

LEMMA CellsIn ==
    ASSUME NEW S, IsFiniteSet(S), NEW a \in Nat, NEW n \in Nat,
           Cells(a, n) \cap S = {}
    PROVE  /\ IsFiniteSet(S \cup Cells(a, n))
           /\ Cardinality(S \cup Cells(a, n)) = Cardinality(S) + n
<1>1. S \cap Cells(a, n) = {}
    OBVIOUS
<1>2. Cardinality(S) \in Nat
    BY FS_CardinalityType
<1>3. IsFiniteSet(Cells(a, n)) /\ Cardinality(Cells(a, n)) = n
    BY CellsCount
<1>4. /\ IsFiniteSet(S \cup Cells(a, n))
      /\ Cardinality(S \cup Cells(a, n)) =
            Cardinality(S) + Cardinality(Cells(a, n)) - Cardinality(S \cap Cells(a, n))
    BY <1>3, FS_Union
<1>5. Cardinality(S \cap Cells(a, n)) = 0
    BY <1>1, FS_EmptySet
<1>. QED
    BY <1>2, <1>3, <1>4, <1>5

-----------------------------------------------------------------------------
(* The layout of the pools: what holds of them in every state.             *)

Layout ==
    /\ EntriesOrdered
    /\ HandlesAgree
    /\ DataKept
    /\ RemainExact
    /\ SlotsInBitmap
    /\ EntriesOwned
    /\ FirstAtBase

\* The part of TypeOK about the table of entries, the handles and the memory.
TableTyped ==
    /\ used \in [Pools -> SUBSET Slot]
    /\ entries \in [Pools -> [Slot -> Entry]]
    /\ remain \in [Pools -> Nat]
    /\ handle \in [Owners -> Handle]
    /\ DOMAIN mem = Pools
    /\ \A p \in Pools : mem[p] \in [Cell(p) -> Datum]

\* The numbers in the used entries.
LEMMA EntryNumbers ==
    ASSUME TypeOK, Layout
    PROVE  \A p \in Pools : \A i \in used[p] :
              /\ i \in Nat
              /\ Base(p, i) \in Nat /\ Size(p, i) \in Nat /\ End(p, i) \in Nat
              /\ End(p, i) = Base(p, i) + Size(p, i)
              /\ Size(p, i) > 0
              /\ PoolSize[p] \in Nat
              /\ End(p, i) <= PoolSize[p]
<1>. SUFFICES ASSUME NEW p \in Pools, NEW i \in used[p]
              PROVE  /\ i \in Nat
                     /\ Base(p, i) \in Nat /\ Size(p, i) \in Nat /\ End(p, i) \in Nat
                     /\ End(p, i) = Base(p, i) + Size(p, i)
                     /\ Size(p, i) > 0
                     /\ PoolSize[p] \in Nat
                     /\ End(p, i) <= PoolSize[p]
    OBVIOUS
<1>1. i \in Slot /\ i \in Nat
    BY SlotsAreNat, MemPoolAssumption DEF TypeOK
<1>2. entries[p][i] \in Entry
    BY <1>1 DEF TypeOK
<1>3. Size(p, i) > 0 /\ End(p, i) <= PoolSize[p]
    BY DEF Layout, EntriesOwned, EntriesOrdered
<1>. QED
    BY <1>1, <1>2, <1>3, MemPoolAssumption DEF Entry, Base, Size, End

\* The owner of a used entry.
LEMMA EntryOwner ==
    ASSUME TypeOK, Layout
    PROVE  \A p \in Pools : \A i \in used[p] :
              /\ i \in Slot
              /\ entries[p][i] \in Entry
              /\ entries[p][i].owner \in Owners
              /\ handle[entries[p][i].owner] = [pool |-> p, id |-> i]
              /\ handle[entries[p][i].owner] # NoHandle
              /\ p \in alive
<1>. SUFFICES ASSUME NEW p \in Pools, NEW i \in used[p]
              PROVE  /\ i \in Slot
                     /\ entries[p][i] \in Entry
                     /\ entries[p][i].owner \in Owners
                     /\ handle[entries[p][i].owner] = [pool |-> p, id |-> i]
                     /\ handle[entries[p][i].owner] # NoHandle
                     /\ p \in alive
    OBVIOUS
<1>1. i \in Slot
    BY DEF TypeOK
<1>2. entries[p][i] \in Entry
    BY <1>1 DEF TypeOK
<1>3. entries[p][i].owner \in Owners
    BY DEF Layout, EntriesOwned
<1>4. handle[entries[p][i].owner] = [pool |-> p, id |-> i]
    BY DEF Layout, HandlesAgree
<1>5. handle[entries[p][i].owner] # NoHandle
    BY <1>4, MemPoolAssumption DEF NoHandle
<1>6. p \in alive
    BY <1>3, <1>4, <1>5 DEF Layout, HandlesAgree
<1>. QED
    BY <1>1, <1>2, <1>3, <1>4, <1>5, <1>6

\* A cell is either free or covered by one entry.
LEMMA Covered ==
    ASSUME NEW p \in Pools, NEW c \in Cell(p)
    PROVE  c \notin FreeCells(p) <=> \E i \in used[p] : Base(p, i) <= c /\ c < End(p, i)
BY DEF FreeCells

-----------------------------------------------------------------------------
(* Taking a slot.                                                          *)

\* The room a slot the walk found has.
LEMMA SuitsFact ==
    ASSUME TypeOK, Layout, NEW p \in Pools, NEW size \in Nat \ {0},
           NEW e \in Nat, Suits(p, e, size)
    PROVE  /\ GapStart(p, e) \in Nat
           /\ GapStart(p, e) + size <= PoolSize[p]
           /\ \A k \in used[p] : k # e
           /\ \A k \in used[p] : k < e => End(p, k) <= GapStart(p, e)
           /\ \A k \in used[p] : e < k => GapStart(p, e) + size <= Base(p, k)
           /\ e = 0 => GapStart(p, e) = 0
<1>. DEFINE start == GapStart(p, e)
<1>1. used[p] \subseteq Nat
    BY EntryNumbers
<1>2. start \in Nat /\ (e = 0 => start = 0)
    BY EntryNumbers DEF Suits, GapStart
<1>3. \A k \in used[p] : k < e => End(p, k) <= start
    <2>1. SUFFICES ASSUME NEW k \in used[p], k < e PROVE End(p, k) <= start
        OBVIOUS
    <2>2. e # 0 /\ e - 1 \in used[p] /\ start = End(p, e - 1)
        BY <1>1, <2>1 DEF Suits, GapStart
    <2>3. CASE k = e - 1
        BY <2>2, <2>3, EntryNumbers
    <2>4. CASE k < e - 1
        <3>1. End(p, k) <= Base(p, e - 1)
            BY <2>2, <2>4 DEF Layout, EntriesOrdered
        <3>. QED
            BY <2>2, <3>1, EntryNumbers
    <2>. QED
        BY <1>1, <2>1, <2>3, <2>4
<1>4. GapEnd(p, e) - start >= size
    BY DEF Suits, Gap
<1>5. CASE NextUsed(p, e + 1) = -1
    <2>1. GapEnd(p, e) = PoolSize[p]
        BY <1>5 DEF GapEnd
    <2>2. \A k \in used[p] : k < e + 1
        BY <1>1, <1>5, NextUsedFact
    <2>3. \A k \in used[p] : k # e
        BY DEF Suits
    <2>. QED
        BY <1>1, <1>2, <1>3, <1>4, <2>1, <2>2, <2>3, MemPoolAssumption
<1>6. CASE NextUsed(p, e + 1) # -1
    <2>. DEFINE b == NextUsed(p, e + 1)
    <2>1. b \in used[p] /\ b >= e + 1 /\ \A k \in used[p] : k >= e + 1 => b <= k
        BY <1>1, <1>6, NextUsedFact
    <2>2. GapEnd(p, e) = Base(p, b)
        BY <1>6 DEF GapEnd
    <2>. HIDE DEF b
    <2>3. Base(p, b) \in Nat /\ Base(p, b) <= PoolSize[p] /\ PoolSize[p] \in Nat
        BY <2>1, EntryNumbers
    <2>4. \A k \in used[p] : e < k => start + size <= Base(p, k)
        <3>1. SUFFICES ASSUME NEW k \in used[p], e < k PROVE start + size <= Base(p, k)
            OBVIOUS
        <3>2. CASE k = b
            BY <1>2, <1>4, <2>2, <2>3, <3>2
        <3>3. CASE b < k
            <4>1. End(p, b) <= Base(p, k)
                BY <2>1, <3>3 DEF Layout, EntriesOrdered
            <4>2. Base(p, k) \in Nat /\ Base(p, b) <= End(p, b) /\ End(p, b) \in Nat
                BY <2>1, EntryNumbers
            <4>. QED
                BY <1>2, <1>4, <2>2, <2>3, <4>1, <4>2
        <3>. QED
            BY <1>1, <2>1, <3>1, <3>2, <3>3
    <2>5. \A k \in used[p] : k # e
        BY DEF Suits
    <2>. QED
        BY <1>2, <1>3, <1>4, <2>2, <2>3, <2>4, <2>5
<1>. QED
    BY <1>5, <1>6

\* What a step that takes a slot does to the table.
SlotTaken(p, r, size) ==
    /\ Layout'
    /\ TableTyped'
    /\ remain'[p] = remain[p] - size
    /\ \A q \in Pools : used'[q] = IF q = p THEN used[q] \cup {r.e} ELSE used[q]
    /\ \A q \in Pools : \A k \in used[q] : entries'[q][k] = entries[q][k]
    /\ entries'[p][r.e].base = GapStart(p, r.e)

\* The end of a successful mem_pool_alloc() keeps the layout.
LEMMA TakeLayout ==
    ASSUME TypeOK, Layout, NEW p \in Pools, p \in alive, NEW o \in Owners,
           handle[o] = NoHandle, NEW size \in Nat \ {0}, NEW r \in Outcome,
           GoodBitmap(p, r), r.e \in Slots(r.words), Suits(p, r.e, size),
           Take(p, o, size, r),
           words' = [words EXCEPT ![p] = r.words], alive' = alive
    PROVE  SlotTaken(p, r, size)
<1>. DEFINE e == r.e
            start == GapStart(p, e)
<1>1. e \in Slot /\ e \in Nat /\ r.words \in 1 .. MaxWords
    BY SlotsAreNat, MemPoolAssumption DEF GoodBitmap
<1>2. /\ start \in Nat
      /\ start + size <= PoolSize[p]
      /\ \A k \in used[p] : k # e
      /\ \A k \in used[p] : k < e => End(p, k) <= start
      /\ \A k \in used[p] : e < k => start + size <= Base(p, k)
      /\ e = 0 => start = 0
    BY <1>1, SuitsFact
<1>3. /\ used' = [used EXCEPT ![p] = @ \cup {e}]
      /\ entries' = [entries EXCEPT ![p][e] =
                        [base |-> start, size |-> size, owner |-> o]]
      /\ remain' = [remain EXCEPT ![p] = @ - size]
      /\ handle' = [handle EXCEPT ![o] = [pool |-> p, id |-> e]]
      /\ mem' = [mem EXCEPT ![p] = [c \in Cell(p) |->
                    IF start <= c /\ c < start + size
                    THEN [owner |-> o, pos |-> c - start]
                    ELSE mem[p][c]]]
    BY DEF Take
<1>. HIDE DEF e, start
<1>a. \A q \in Pools : \A k \in used[q] :
         /\ k \in Nat
         /\ Base(q, k) \in Nat /\ Size(q, k) \in Nat /\ End(q, k) \in Nat
         /\ End(q, k) = Base(q, k) + Size(q, k)
         /\ Size(q, k) > 0
         /\ End(q, k) <= PoolSize[q]
    BY EntryNumbers
<1>b. \A q \in Pools : \A k \in used[q] :
         /\ k \in Slot
         /\ entries[q][k].owner \in Owners
         /\ entries[q][k].owner # o
         /\ handle[entries[q][k].owner] = [pool |-> q, id |-> k]
    <2>1. ASSUME NEW q \in Pools, NEW k \in used[q]
          PROVE  entries[q][k].owner # o
        BY EntryOwner
    <2>. QED
        BY <2>1, EntryOwner
<1>4. /\ \A q \in Pools : used'[q] = IF q = p THEN used[q] \cup {e} ELSE used[q]
      /\ used' \in [Pools -> SUBSET Slot]
    BY <1>1, <1>3 DEF TypeOK
<1>5. /\ \A q \in Pools : \A k \in Slot :
            entries'[q][k] = IF q = p /\ k = e
                             THEN [base |-> start, size |-> size, owner |-> o]
                             ELSE entries[q][k]
      /\ entries' \in [Pools -> [Slot -> Entry]]
    BY <1>1, <1>2, <1>3 DEF TypeOK, Entry
<1>5b. /\ \A q \in Pools : \A k \in used[q] : entries'[q][k] = entries[q][k]
       /\ entries'[p][e].base = start
    <2>1. \A q \in Pools : \A k \in used[q] : entries'[q][k] = entries[q][k]
        BY <1>b, <1>2, <1>5
    <2>2. entries'[p][e].base = start
        BY <1>1, <1>5
    <2>. QED
        BY <2>1, <2>2
<1>6. /\ \A q \in Pools : \A k \in used[q] :
            Base(q, k)' = Base(q, k) /\ Size(q, k)' = Size(q, k)
            /\ End(q, k)' = End(q, k) /\ entries'[q][k].owner = entries[q][k].owner
      /\ Base(p, e)' = start /\ Size(p, e)' = size /\ End(p, e)' = start + size
      /\ entries'[p][e].owner = o
    <2>1. \A q \in Pools : \A k \in used[q] : entries'[q][k] = entries[q][k]
        BY <1>b, <1>2, <1>5
    <2>2. entries'[p][e] = [base |-> start, size |-> size, owner |-> o]
        BY <1>1, <1>5
    <2>. QED
        BY <2>1, <2>2 DEF Base, Size, End
<1>7. /\ \A x \in Owners : handle'[x] = IF x = o THEN [pool |-> p, id |-> e] ELSE handle[x]
      /\ handle' \in [Owners -> Handle]
    BY <1>1, <1>3 DEF TypeOK, Handle
<1>8. /\ DOMAIN mem' = Pools
      /\ \A q \in Pools : mem'[q] \in [Cell(q) -> Datum]
      /\ \A q \in Pools : \A c \in Cell(q) :
            mem'[q][c] = IF q = p /\ start <= c /\ c < start + size
                         THEN [owner |-> o, pos |-> c - start] ELSE mem[q][c]
    <2>1. \A c \in Cell(p) : start <= c => c - start \in Nat
        BY <1>2, MemPoolAssumption DEF Cell
    <2>. QED
        BY <1>3, <2>1 DEF TypeOK, Datum
<1>9. \A q \in Pools : words'[q] = IF q = p THEN r.words ELSE words[q]
    BY DEF TypeOK
<1>10. EntriesOrdered'
    <2>1. SUFFICES ASSUME NEW q \in Pools, NEW k \in used'[q]
                   PROVE  /\ End(q, k)' <= PoolSize[q]
                          /\ \A j \in used'[q] : k < j => End(q, k)' <= Base(q, j)'
        BY DEF EntriesOrdered
    <2>. QED
        BY <1>a, <1>1, <1>2, <1>4, <1>6 DEF Layout, EntriesOrdered
<1>11. HandlesAgree'
    <2>2. ASSUME NEW q \in Pools, NEW k \in used'[q]
          PROVE  handle'[entries'[q][k].owner] = [pool |-> q, id |-> k]
        BY <1>b, <1>4, <1>6, <1>7
    <2>3. ASSUME NEW x \in Owners, handle'[x] # NoHandle
          PROVE  /\ handle'[x].pool \in alive'
                 /\ handle'[x].id \in used'[handle'[x].pool]
                 /\ entries'[handle'[x].pool][handle'[x].id].owner = x
        <3>1. CASE x = o
            BY <1>4, <1>6, <1>7, <3>1
        <3>2. CASE x # o
            <4>1. /\ handle[x].pool \in alive
                  /\ handle[x].id \in used[handle[x].pool]
                  /\ entries[handle[x].pool][handle[x].id].owner = x
                BY <1>7, <2>3, <3>2 DEF Layout, HandlesAgree
            <4>2. handle[x].pool \in Pools
                BY <4>1 DEF TypeOK
            <4>. QED
                BY <1>4, <1>6, <1>7, <3>2, <4>1, <4>2
        <3>. QED
            BY <3>1, <3>2
    <2>. QED
        BY <2>2, <2>3 DEF HandlesAgree
<1>12. DataKept'
    <2>1. SUFFICES ASSUME NEW q \in Pools, NEW k \in used'[q], NEW c \in Cell(q),
                          Base(q, k)' <= c, c < End(q, k)'
                   PROVE  mem'[q][c] = [owner |-> entries'[q][k].owner,
                                        pos |-> c - Base(q, k)']
        BY DEF DataKept
    <2>2. CASE q = p /\ k = e
        BY <1>6, <1>8, <2>1, <2>2
    <2>3. CASE ~ (q = p /\ k = e)
        <3>1. k \in used[q] /\ Base(q, k) <= c /\ c < End(q, k)
            BY <1>4, <1>6, <2>1, <2>3
        <3>2. mem[q][c] = [owner |-> entries[q][k].owner, pos |-> c - Base(q, k)]
            BY <3>1 DEF Layout, DataKept
        <3>3. ~ (q = p /\ start <= c /\ c < start + size)
            <4>1. c \in Int
                BY MemPoolAssumption DEF Cell
            <4>2. CASE q # p
                BY <4>2
            <4>3. CASE q = p /\ k < e
                <5>1. End(p, k) <= start /\ End(p, k) \in Nat
                    BY <1>a, <1>2, <3>1, <4>3
                <5>. QED
                    BY <1>2, <3>1, <4>1, <4>3, <5>1
            <4>4. CASE q = p /\ e < k
                <5>1. start + size <= Base(p, k) /\ Base(p, k) \in Nat
                    BY <1>a, <1>2, <3>1, <4>4
                <5>. QED
                    BY <1>2, <3>1, <4>1, <4>4, <5>1
            <4>. QED
                BY <1>a, <1>1, <1>2, <3>1, <4>2, <4>3, <4>4
        <3>. QED
            BY <1>6, <1>8, <3>1, <3>2, <3>3
    <2>. QED
        BY <2>2, <2>3
<1>13. RemainExact' /\ remain' \in [Pools -> Nat] /\ remain'[p] = remain[p] - size
    <2>1. Cells(start, size) \subseteq FreeCells(p)
        <3>1. SUFFICES ASSUME NEW c \in Cells(start, size) PROVE c \in FreeCells(p)
            OBVIOUS
        <3>2. c \in Int /\ start <= c /\ c < start + size
            BY <1>2, <3>1 DEF Cells
        <3>3. c \in Cell(p)
            BY <1>2, <3>2, MemPoolAssumption DEF Cell
        <3>4. ASSUME NEW k \in used[p] PROVE ~ (Base(p, k) <= c /\ c < End(p, k))
            <4>1. k < e \/ e < k
                BY <1>a, <1>1, <1>2
            <4>. QED
                BY <1>a, <1>2, <3>2, <4>1
        <3>. QED
            BY <3>3, <3>4 DEF FreeCells
    <2>2. FreeCells(p)' = FreeCells(p) \ Cells(start, size)
        <3>1. ASSUME NEW c \in Cell(p)
              PROVE  c \in FreeCells(p)' <=> c \in FreeCells(p) /\ c \notin Cells(start, size)
            <4>1. c \in Int
                BY MemPoolAssumption DEF Cell
            <4>2. c \in Cells(start, size) <=> start <= c /\ c < start + size
                BY <1>2, <4>1 DEF Cells
            <4>3. c \in FreeCells(p)' <=>
                     \A k \in used'[p] : ~ (Base(p, k)' <= c /\ c < End(p, k)')
                BY DEF FreeCells
            <4>. QED
                BY <1>4, <1>6, <4>2, <4>3 DEF FreeCells
        <3>2. FreeCells(p)' \subseteq Cell(p)
            BY DEF FreeCells
        <3>. QED
            BY <3>1, <3>2, CellFinite
    <2>3. Cardinality(FreeCells(p)') = Cardinality(FreeCells(p)) - size
        BY <1>2, <2>1, <2>2, CellFinite, CellsOut
    <2>4. size <= remain[p]
        <3>1. Cardinality(Cells(start, size)) <= Cardinality(FreeCells(p))
            BY <2>1, CellFinite, FS_Subset
        <3>. QED
            BY <1>2, <3>1, CellsCount DEF Layout, RemainExact
    <2>5. \A q \in Pools \ {p} : FreeCells(q)' = FreeCells(q)
        BY <1>4, <1>6 DEF FreeCells
    <2>. QED
        BY <1>3, <2>3, <2>4, <2>5 DEF TypeOK, Layout, RemainExact
<1>14. SlotsInBitmap'
    BY <1>4, <1>9 DEF Layout, SlotsInBitmap, GoodBitmap, e
<1>15. EntriesOwned'
    BY <1>b, <1>4, <1>6 DEF Layout, EntriesOwned
<1>16. FirstAtBase'
    BY <1>2, <1>4, <1>6 DEF Layout, FirstAtBase
<1>17. Layout'
    BY <1>10, <1>11, <1>12, <1>13, <1>14, <1>15, <1>16 DEF Layout
<1>18. /\ \A q \in Pools : used'[q] = IF q = p THEN used[q] \cup {r.e} ELSE used[q]
       /\ entries'[p][r.e].base = GapStart(p, r.e)
    BY <1>4, <1>5b DEF e, start
<1>19. TableTyped'
    <2>1. \A q \in Pools : Cell(q)' = Cell(q)
        BY DEF Cell
    <2>. QED
        BY <1>4, <1>5, <1>7, <1>8, <1>13, <2>1 DEF TableTyped
<1>20. remain'[p] = remain[p] - size
    BY <1>13
<1>21. \A q \in Pools : \A k \in used[q] : entries'[q][k] = entries[q][k]
    BY <1>5b
<1>. QED
    BY <1>17, <1>18, <1>19, <1>20, <1>21 DEF SlotTaken

-----------------------------------------------------------------------------
(* Moving an entry.                                                        *)

\* migrate_entry() never uses memcpy() on ranges that overlap.
LEMMA SafeCopy ==
    ASSUME NEW src \in Nat, NEW dst \in Nat, NEW size \in Nat
    PROVE  MustMemmove(src, dst, size) \/ ~ Overlaps(src, dst, size)
BY DEF MustMemmove, Overlaps

\* The place an entry of n units is moved to: no other entry of the pool is
\* in the way.
Vacant(pf, i, pt, j, nb, n) ==
    /\ nb + n <= PoolSize[pt]
    /\ j = 0 => nb = 0
    /\ \A k \in used[pt] : ~ (pf = pt /\ k = i) =>
          /\ k # j
          /\ k < j => End(pt, k) <= nb
          /\ j < k => nb + n <= Base(pt, k)

\* What a step that moves an entry does to the table.
EntryMoved(pf, i, pt, j, nb) ==
    /\ Layout'
    /\ TableTyped'
    /\ \A q \in Pools : \A k :
          k \in used'[q] <=> (q = pt /\ k = j)
                             \/ (k \in used[q] /\ ~ (q = pf /\ k = i))
    /\ \A q \in Pools : \A k \in used[q] :
          ~ (q = pf /\ k = i) => entries'[q][k] = entries[q][k]
    /\ entries'[pt][j].base = nb
    /\ entries'[pt][j].size = Size(pf, i)
    /\ \A x \in Owners : handle[x] = NoHandle => handle'[x] = NoHandle

\* migrate_entry() to such a place keeps the layout, within a pool and, when
\* the two remain counters are adjusted, from one pool to another.
LEMMA MigrateLayout ==
    ASSUME TypeOK, Layout, NEW pf \in Pools, NEW pt \in Pools,
           NEW i \in used[pf], NEW j \in Slot, NEW nb \in Nat,
           pt \in alive, alive' = alive,
           Vacant(pf, i, pt, j, nb, Size(pf, i)),
           MigrateEntry(pf, pt, i, j, nb),
           j \in Slots(words'[pt]),
           \A q \in Pools : used[q] \subseteq Slots(words'[q]),
           remain' = IF pf = pt THEN remain
                     ELSE [remain EXCEPT ![pf] = @ + Size(pf, i),
                                         ![pt] = @ - Size(pf, i)]
    PROVE  EntryMoved(pf, i, pt, j, nb)
<1>. DEFINE o == entries[pf][i].owner
            sz == Size(pf, i)
            b0 == Base(pf, i)
            Stays(q, k) == k \in used[q] /\ ~ (q = pf /\ k = i)
<1>a. \A q \in Pools : \A k \in used[q] :
         /\ k \in Nat
         /\ Base(q, k) \in Nat /\ Size(q, k) \in Nat /\ End(q, k) \in Nat
         /\ End(q, k) = Base(q, k) + Size(q, k)
         /\ Size(q, k) > 0
         /\ End(q, k) <= PoolSize[q]
    BY EntryNumbers
<1>b. \A q \in Pools : \A k \in used[q] :
         /\ k \in Slot
         /\ entries[q][k].owner \in Owners
         /\ handle[entries[q][k].owner] = [pool |-> q, id |-> k]
    BY EntryOwner
<1>c. /\ o \in Owners /\ sz \in Nat /\ sz > 0 /\ b0 \in Nat /\ i \in Slot
      /\ j \in Nat /\ End(pf, i) = b0 + sz /\ b0 + sz <= PoolSize[pf]
      /\ handle[o] = [pool |-> pf, id |-> i]
    BY <1>a, <1>b, SlotsAreNat, MemPoolAssumption
<1>d. \A q \in Pools : \A k \in used[q] : Stays(q, k) => entries[q][k].owner # o
    <2>1. SUFFICES ASSUME NEW q \in Pools, NEW k \in used[q], ~ (q = pf /\ k = i)
                   PROVE  entries[q][k].owner # o
        OBVIOUS
    <2>2. [pool |-> q, id |-> k] # [pool |-> pf, id |-> i]
        BY <2>1
    <2>. QED
        BY <1>b, <1>c, <2>2
<1>e. PoolSize \in [Pools -> Nat]
    BY MemPoolAssumption
<1>1. /\ nb + sz <= PoolSize[pt]
      /\ j = 0 => nb = 0
      /\ \A k \in used[pt] : Stays(pt, k) =>
            /\ k # j
            /\ k < j => End(pt, k) <= nb
            /\ j < k => nb + sz <= Base(pt, k)
    BY DEF Vacant
<1>2. \A k \in used[pf] : Stays(pf, k) =>
         /\ k # i
         /\ k < i => End(pf, k) <= b0
         /\ i < k => b0 + sz <= Base(pf, k)
    BY <1>a, <1>c DEF Layout, EntriesOrdered
<1>3. /\ used' = MoveSlot(pf, pt, i, j)
      /\ entries' = [[entries EXCEPT ![pf][i] = Unused]
                        EXCEPT ![pt][j] = [entries[pf][i] EXCEPT !.base = nb]]
      /\ handle' = [handle EXCEPT ![o] = [pool |-> pt, id |-> j]]
      /\ mem' = MovedData(pf, pt, b0, nb, sz)
    BY DEF MigrateEntry, Base, Size
<1>. HIDE DEF b0, sz, o
<1>4. /\ used' \in [Pools -> SUBSET Slot]
      /\ \A q \in Pools : \A k : k \in used'[q] <=> (q = pt /\ k = j) \/ Stays(q, k)
    <2>1. used' = [[used EXCEPT ![pf] = @ \ {i}] EXCEPT ![pt] = @ \cup {j}]
        BY <1>3 DEF MoveSlot
    <2>2. \A q \in Pools :
             used'[q] = IF q = pt
                        THEN (IF pf = pt THEN used[q] \ {i} ELSE used[q]) \cup {j}
                        ELSE IF q = pf THEN used[q] \ {i} ELSE used[q]
        BY <2>1 DEF TypeOK
    <2>3. used' \in [Pools -> SUBSET Slot]
        BY <2>1 DEF TypeOK
    <2>4. ASSUME NEW q \in Pools, NEW k
          PROVE  k \in used'[q] <=> (q = pt /\ k = j) \/ Stays(q, k)
        <3>1. CASE q = pt /\ pf = pt
            <4>1. used'[q] = (used[q] \ {i}) \cup {j}
                BY <2>2, <3>1
            <4>. QED
                BY <3>1, <4>1
        <3>2. CASE q = pt /\ pf # pt
            <4>1. used'[q] = used[q] \cup {j}
                BY <2>2, <3>2
            <4>. QED
                BY <3>2, <4>1
        <3>3. CASE q # pt
            <4>1. used'[q] = IF q = pf THEN used[q] \ {i} ELSE used[q]
                BY <2>2, <3>3
            <4>. QED
                BY <3>3, <4>1
        <3>. QED
            BY <3>1, <3>2, <3>3
    <2>. QED
        BY <2>3, <2>4
<1>5. entries[pf][i] \in Entry /\ [entries[pf][i] EXCEPT !.base = nb] \in Entry
      /\ [entries[pf][i] EXCEPT !.base = nb] = [base |-> nb, size |-> sz, owner |-> o]
    <2>1. entries[pf][i] \in Entry
        BY EntryOwner
    <2>2. o = entries[pf][i].owner /\ sz = entries[pf][i].size
        BY DEF o, sz, Size
    <2>. QED
        BY <2>1, <2>2 DEF Entry
<1>6. /\ entries' \in [Pools -> [Slot -> Entry]]
      /\ entries'[pt][j] = [base |-> nb, size |-> sz, owner |-> o]
      /\ \A q \in Pools : \A k \in Slot :
            ~ (q = pt /\ k = j) /\ ~ (q = pf /\ k = i) => entries'[q][k] = entries[q][k]
    <2>1. Unused \in Entry
        BY DEF Unused, Entry
    <2>. QED
        BY <1>3, <1>5, <2>1 DEF TypeOK
<1>7. /\ \A q \in Pools : \A k \in used[q] : Stays(q, k) =>
            /\ entries'[q][k] = entries[q][k]
            /\ Base(q, k)' = Base(q, k) /\ Size(q, k)' = Size(q, k)
            /\ End(q, k)' = End(q, k)
      /\ Base(pt, j)' = nb /\ Size(pt, j)' = sz /\ End(pt, j)' = nb + sz
      /\ entries'[pt][j].owner = o
    <2>1. ASSUME NEW q \in Pools, NEW k \in used[q], Stays(q, k)
          PROVE  entries'[q][k] = entries[q][k]
        <3>1. k \in Slot /\ ~ (q = pf /\ k = i)
            BY <1>b, <2>1
        <3>2. ~ (q = pt /\ k = j)
            BY <1>1, <2>1
        <3>. QED
            BY <1>6, <3>1, <3>2
    <2>2. /\ entries'[pt][j].base = nb /\ entries'[pt][j].size = sz
          /\ entries'[pt][j].owner = o
        BY <1>6
    <2>3. Base(pt, j)' = nb /\ Size(pt, j)' = sz /\ End(pt, j)' = nb + sz
        BY <2>2 DEF Base, Size, End
    <2>4. \A q \in Pools : \A k \in used[q] : Stays(q, k) =>
            /\ Base(q, k)' = Base(q, k) /\ Size(q, k)' = Size(q, k)
            /\ End(q, k)' = End(q, k)
        BY <2>1 DEF Base, Size, End
    <2>. QED
        BY <2>1, <2>2, <2>3, <2>4
<1>8. /\ \A x \in Owners : handle'[x] = IF x = o THEN [pool |-> pt, id |-> j] ELSE handle[x]
      /\ handle' \in [Owners -> Handle]
    BY <1>3, <1>c DEF TypeOK, Handle
<1>9. EntriesOrdered'
    <2>1. SUFFICES ASSUME NEW q \in Pools, NEW k \in used'[q]
                   PROVE  /\ End(q, k)' <= PoolSize[q]
                          /\ \A l \in used'[q] : k < l => End(q, k)' <= Base(q, l)'
        BY DEF EntriesOrdered
    <2>2. CASE Stays(q, k)
        <3>1. End(q, k)' = End(q, k) /\ End(q, k) <= PoolSize[q] /\ k \in Nat
            BY <1>7, <1>a, <2>2
        <3>2. ASSUME NEW l \in used'[q], k < l PROVE End(q, k) <= Base(q, l)'
            <4>1. CASE Stays(q, l)
                BY <1>7, <2>2, <3>2, <4>1 DEF Layout, EntriesOrdered
            <4>2. CASE q = pt /\ l = j
                BY <1>1, <1>7, <2>2, <3>2, <4>2
            <4>. QED
                BY <1>4, <4>1, <4>2
        <3>. QED
            BY <3>1, <3>2
    <2>3. CASE q = pt /\ k = j
        <3>1. End(q, k)' = nb + sz /\ nb + sz <= PoolSize[q]
            BY <1>1, <1>7, <2>3
        <3>2. ASSUME NEW l \in used'[q], k < l PROVE End(q, k)' <= Base(q, l)'
            <4>1. Stays(q, l)
                BY <1>4, <1>c, <2>3, <3>2
            <4>. QED
                BY <1>1, <1>7, <2>3, <3>1, <3>2, <4>1
        <3>. QED
            BY <3>1, <3>2
    <2>. QED
        BY <1>4, <2>2, <2>3
<1>10. HandlesAgree'
    <2>1. ASSUME NEW q \in Pools, NEW k \in used'[q]
          PROVE  handle'[entries'[q][k].owner] = [pool |-> q, id |-> k]
        <3>1. CASE q = pt /\ k = j
            BY <1>7, <1>8, <1>c, <3>1
        <3>2. CASE Stays(q, k)
            BY <1>7, <1>8, <1>b, <1>d, <3>2
        <3>. QED
            BY <1>4, <3>1, <3>2
    <2>2. ASSUME NEW x \in Owners, handle'[x] # NoHandle
          PROVE  /\ handle'[x].pool \in alive'
                 /\ handle'[x].id \in used'[handle'[x].pool]
                 /\ entries'[handle'[x].pool][handle'[x].id].owner = x
        <3>1. CASE x = o
            BY <1>4, <1>7, <1>8, <3>1
        <3>2. CASE x # o
            <4>1. /\ handle'[x] = handle[x]
                  /\ handle[x].pool \in alive
                  /\ handle[x].id \in used[handle[x].pool]
                  /\ entries[handle[x].pool][handle[x].id].owner = x
                BY <1>8, <2>2, <3>2 DEF Layout, HandlesAgree
            <4>2. handle[x].pool \in Pools
                BY <4>1 DEF TypeOK
            <4>3. Stays(handle[x].pool, handle[x].id)
                BY <3>2, <4>1 DEF o
            <4>. QED
                BY <1>4, <1>7, <4>1, <4>2, <4>3
        <3>. QED
            BY <3>1, <3>2
    <2>. QED
        BY <2>1, <2>2 DEF HandlesAgree
<1>11. SlotsInBitmap'
    BY <1>4 DEF Layout, SlotsInBitmap
<1>12. EntriesOwned'
    BY <1>4, <1>7, <1>b, <1>c DEF Layout, EntriesOwned
<1>13. FirstAtBase'
    BY <1>1, <1>4, <1>7 DEF Layout, FirstAtBase
<1>14. /\ DOMAIN mem' = Pools
       /\ \A q \in Pools : \A c \in Cell(q) :
             mem'[q][c] =
                IF pf = pt /\ b0 = nb THEN mem[q][c]
                ELSE IF q = pt /\ nb <= c /\ c < nb + sz THEN mem[pf][c - nb + b0]
                ELSE IF q = pf /\ b0 <= c /\ c < b0 + sz THEN Junk
                ELSE mem[q][c]
       /\ \A q \in Pools : DOMAIN mem'[q] = Cell(q)
    <2>1. MustMemmove(b0, nb, sz) \/ ~ Overlaps(b0, nb, sz)
        BY <1>c, SafeCopy
    <2>. QED
        BY <1>3, <2>1 DEF MovedData, TypeOK
<1>15. \A q \in Pools : \A c \in Cell(q) : c \in Int /\ 0 <= c /\ c < PoolSize[q]
    BY <1>e DEF Cell
<1>16. ASSUME NEW c \in Cell(pt), nb <= c, c < nb + sz
       PROVE  c - nb + b0 \in Cell(pf) /\ b0 <= c - nb + b0 /\ c - nb + b0 < b0 + sz
    BY <1>15, <1>16, <1>c, <1>e DEF Cell
<1>17. \A c \in Cell(pf) : b0 <= c /\ c < b0 + sz => mem[pf][c] = [owner |-> o, pos |-> c - b0]
    BY <1>c DEF Layout, DataKept, o, b0
<1>18. \A q \in Pools : mem'[q] \in [Cell(q) -> Datum]
    <2>1. ASSUME NEW q \in Pools, NEW c \in Cell(q)
          PROVE  mem'[q][c] \in Datum
        <3>1. Junk \in Datum /\ mem[q][c] \in Datum
            BY DEF Junk, Datum, TypeOK
        <3>2. q = pt /\ nb <= c /\ c < nb + sz => mem[pf][c - nb + b0] \in Datum
            BY <1>16 DEF TypeOK
        <3>. QED
            BY <1>14, <3>1, <3>2
    <2>2. ASSUME NEW q \in Pools PROVE mem'[q] = [c \in Cell(q) |-> mem'[q][c]]
        BY <1>3 DEF MovedData, TypeOK
    <2>. QED
        BY <2>1, <2>2
<1>19. DataKept'
    <2>1. SUFFICES ASSUME NEW q \in Pools, NEW k \in used'[q], NEW c \in Cell(q),
                          Base(q, k)' <= c, c < End(q, k)'
                   PROVE  mem'[q][c] = [owner |-> entries'[q][k].owner,
                                        pos |-> c - Base(q, k)']
        BY DEF DataKept
    <2>2. CASE q = pt /\ k = j
        <3>1. nb <= c /\ c < nb + sz /\ Base(q, k)' = nb /\ entries'[q][k].owner = o
            BY <1>7, <2>1, <2>2
        <3>2. CASE pf = pt /\ b0 = nb
            <4>1. q = pf /\ c \in Cell(pf) /\ b0 <= c /\ c < b0 + sz
                BY <2>2, <3>1, <3>2
            <4>2. mem'[q][c] = mem[pf][c]
                BY <1>14, <3>2, <4>1
            <4>. QED
                BY <1>17, <3>1, <3>2, <4>1, <4>2
        <3>3. CASE ~ (pf = pt /\ b0 = nb)
            <4>. DEFINE d == c - nb + b0
            <4>1. mem'[q][c] = mem[pf][d]
                BY <1>14, <2>2, <3>1, <3>3
            <4>2. d \in Cell(pf) /\ b0 <= d /\ d < b0 + sz
                BY <1>16, <2>2, <3>1
            <4>3. d - b0 = c - nb
                BY <1>15, <1>c
            <4>. HIDE DEF d
            <4>4. mem[pf][d] = [owner |-> o, pos |-> d - b0]
                BY <4>2, <1>17
            <4>. QED
                BY <3>1, <4>1, <4>3, <4>4
        <3>. QED
            BY <3>2, <3>3
    <2>3. CASE Stays(q, k)
        <3>1. /\ Base(q, k) <= c /\ c < End(q, k)
              /\ Base(q, k)' = Base(q, k) /\ entries'[q][k].owner = entries[q][k].owner
            BY <1>7, <2>1, <2>3
        <3>2. mem[q][c] = [owner |-> entries[q][k].owner, pos |-> c - Base(q, k)]
            BY <2>3, <3>1 DEF Layout, DataKept
        <3>3. /\ k \in Nat /\ c \in Int
              /\ Base(q, k) \in Nat /\ End(q, k) \in Nat
            BY <1>15, <1>a, <2>3
        <3>4. ~ (q = pt /\ nb <= c /\ c < nb + sz)
            <4>1. SUFFICES ASSUME q = pt PROVE ~ (nb <= c /\ c < nb + sz)
                OBVIOUS
            <4>2. k < j \/ j < k
                BY <1>1, <1>c, <2>3, <3>3, <4>1
            <4>. QED
                BY <1>1, <1>c, <2>3, <3>1, <3>3, <4>1, <4>2
        <3>5. ~ (q = pf /\ b0 <= c /\ c < b0 + sz)
            <4>1. SUFFICES ASSUME q = pf PROVE ~ (b0 <= c /\ c < b0 + sz)
                OBVIOUS
            <4>2. k < i \/ i < k
                BY <1>2, <1>a, <2>3, <3>3, <4>1
            <4>. QED
                BY <1>2, <1>c, <2>3, <3>1, <3>3, <4>1, <4>2
        <3>. QED
            BY <1>14, <3>1, <3>2, <3>4, <3>5
    <2>. QED
        BY <1>4, <2>2, <2>3
<1>20. ASSUME NEW q \in Pools, NEW c \in Cell(q)
       PROVE  c \in FreeCells(q)' <=>
                 /\ ~ (q = pt /\ c \in Cells(nb, sz))
                 /\ c \in FreeCells(q) \/ (q = pf /\ c \in Cells(b0, sz))
    <2>1. /\ c \in Cells(nb, sz) <=> nb <= c /\ c < nb + sz
          /\ c \in Cells(b0, sz) <=> b0 <= c /\ c < b0 + sz
        BY <1>15, <1>c DEF Cells
    <2>2. c \in FreeCells(q)' <=>
             \A k \in used'[q] : ~ (Base(q, k)' <= c /\ c < End(q, k)')
        BY DEF FreeCells
    <2>3. c \in FreeCells(q) <=>
             \A k \in used[q] : ~ (Base(q, k) <= c /\ c < End(q, k))
        BY DEF FreeCells
    <2>4. c \in FreeCells(q)' <=>
             /\ ~ (q = pt /\ nb <= c /\ c < nb + sz)
             /\ \A k \in used[q] : Stays(q, k) => ~ (Base(q, k) <= c /\ c < End(q, k))
        BY <1>4, <1>7, <2>2
    <2>5. CASE q = pf /\ b0 <= c /\ c < b0 + sz
        <3>1. ASSUME NEW k \in used[q], Stays(q, k)
              PROVE  ~ (Base(q, k) <= c /\ c < End(q, k))
            <4>1. k < i \/ i < k
                BY <1>2, <1>a, <2>5, <3>1
            <4>. QED
                BY <1>2, <1>15, <1>a, <1>c, <2>5, <3>1, <4>1
        <3>. QED
            BY <2>1, <2>4, <2>5, <3>1
    <2>6. CASE ~ (q = pf /\ b0 <= c /\ c < b0 + sz)
        <3>1. c \in FreeCells(q) <=>
                 \A k \in used[q] : Stays(q, k) => ~ (Base(q, k) <= c /\ c < End(q, k))
            BY <1>c, <2>3, <2>6 DEF b0
        <3>. QED
            BY <2>1, <2>4, <2>6, <3>1
    <2>. QED
        BY <2>5, <2>6
<1>21. /\ Cells(b0, sz) \cap FreeCells(pf) = {}
       /\ Cells(b0, sz) \subseteq Cell(pf)
       /\ Cells(nb, sz) \subseteq Cell(pt)
       /\ Cells(nb, sz) \subseteq FreeCells(pt) \cup (IF pf = pt THEN Cells(b0, sz) ELSE {})
    <2>1. /\ Cells(b0, sz) \subseteq Cell(pf) /\ Cells(nb, sz) \subseteq Cell(pt)
          /\ \A c \in Cells(b0, sz) : c \in Int /\ b0 <= c /\ c < b0 + sz
          /\ \A c \in Cells(nb, sz) : c \in Int /\ nb <= c /\ c < nb + sz
        BY <1>1, <1>c, <1>e DEF Cells, Cell
    <2>2. Cells(b0, sz) \cap FreeCells(pf) = {}
        BY <1>c, <2>1 DEF FreeCells, b0
    <2>3. ASSUME NEW c \in Cells(nb, sz), c \notin FreeCells(pt)
          PROVE  pf = pt /\ c \in Cells(b0, sz)
        <3>1. PICK k \in used[pt] : Base(pt, k) <= c /\ c < End(pt, k)
            BY <2>1, <2>3 DEF FreeCells
        <3>2. ~ Stays(pt, k)
            <4>1. SUFFICES ASSUME Stays(pt, k) PROVE FALSE
                OBVIOUS
            <4>2. k < j \/ j < k
                BY <1>1, <1>a, <1>c, <4>1
            <4>3. Base(pt, k) \in Nat /\ End(pt, k) \in Nat
                BY <1>a
            <4>. QED
                BY <1>1, <1>c, <2>1, <3>1, <4>1, <4>2, <4>3
        <3>. QED
            BY <1>c, <2>1, <3>1, <3>2 DEF Cells, b0
    <2>. QED
        BY <2>1, <2>2, <2>3
<1>22. RemainExact' /\ remain' \in [Pools -> Nat]
    <2>1. \A q \in Pools : /\ FreeCells(q) \subseteq Cell(q) /\ FreeCells(q)' \subseteq Cell(q)
                           /\ IsFiniteSet(FreeCells(q)) /\ remain[q] = Cardinality(FreeCells(q))
                           /\ remain[q] \in Nat
        <3>1. ASSUME NEW q \in Pools
              PROVE  FreeCells(q) \subseteq Cell(q) /\ FreeCells(q)' \subseteq Cell(q)
            BY DEF FreeCells
        <3>2. ASSUME NEW q \in Pools
              PROVE  IsFiniteSet(FreeCells(q)) /\ remain[q] = Cardinality(FreeCells(q))
                     /\ remain[q] \in Nat
            BY CellFinite DEF Layout, RemainExact
        <3>. QED
            BY <3>1, <3>2
    <2>2. /\ IsFiniteSet(FreeCells(pf) \cup Cells(b0, sz))
          /\ Cardinality(FreeCells(pf) \cup Cells(b0, sz)) = remain[pf] + sz
        <3>1. /\ IsFiniteSet(FreeCells(pf)) /\ remain[pf] = Cardinality(FreeCells(pf))
              /\ Cells(b0, sz) \cap FreeCells(pf) = {}
              /\ b0 \in Nat /\ sz \in Nat
            BY <1>21, <1>c, <2>1
        <3>. QED
            BY <3>1, CellsIn
    <2>3. ASSUME NEW q \in Pools, q # pf, q # pt PROVE FreeCells(q)' = FreeCells(q)
        BY <1>20, <2>1, <2>3
    <2>4. CASE pf = pt
        <3>1. FreeCells(pf)' = (FreeCells(pf) \cup Cells(b0, sz)) \ Cells(nb, sz)
            <4>1. \A c \in Cell(pf) :
                     c \in FreeCells(pf)' <=> /\ c \notin Cells(nb, sz)
                                              /\ c \in FreeCells(pf) \/ c \in Cells(b0, sz)
                <5>1. ASSUME NEW c \in Cell(pf)
                      PROVE  c \in FreeCells(pf)' <=>
                                /\ ~ (pf = pt /\ c \in Cells(nb, sz))
                                /\ c \in FreeCells(pf) \/ (pf = pf /\ c \in Cells(b0, sz))
                    BY <1>20
                <5>. QED
                    BY <5>1, <2>4
            <4>2. /\ FreeCells(pf)' \subseteq Cell(pf)
                  /\ (FreeCells(pf) \cup Cells(b0, sz)) \ Cells(nb, sz) \subseteq Cell(pf)
                BY <1>21, <2>1
            <4>. QED
                BY <4>1, <4>2
        <3>2. Cells(nb, sz) \subseteq FreeCells(pf) \cup Cells(b0, sz)
            BY <1>21, <2>4
        <3>. DEFINE S == FreeCells(pf) \cup Cells(b0, sz)
        <3>. HIDE DEF S
        <3>a. sz \in Nat /\ nb \in Nat /\ remain[pf] \in Nat
            BY <1>c, <2>1
        <3>b. IsFiniteSet(S) /\ Cells(nb, sz) \subseteq S /\ Cardinality(S) = remain[pf] + sz
            BY <2>2, <3>2 DEF S
        <3>c. FreeCells(pf)' = S \ Cells(nb, sz)
            BY <3>1 DEF S
        <3>d. Cardinality(S \ Cells(nb, sz)) = Cardinality(S) - sz
            BY <3>a, <3>b, CellsOut
        <3>e. Cardinality(S \ Cells(nb, sz)) = remain[pf]
            BY <3>a, <3>b, <3>d
        <3>3. Cardinality(FreeCells(pf)') = remain[pf]
            BY <3>c, <3>e
        <3>4. remain' = remain
            BY <2>4
        <3>. QED
            BY <1>c, <2>1, <2>3, <2>4, <3>3, <3>4 DEF RemainExact, TypeOK
    <2>5. CASE pf # pt
        <3>1. FreeCells(pf)' = FreeCells(pf) \cup Cells(b0, sz)
            BY <1>20, <1>21, <2>1, <2>5
        <3>2. FreeCells(pt)' = FreeCells(pt) \ Cells(nb, sz)
            BY <1>20, <1>21, <2>1, <2>5
        <3>3. Cells(nb, sz) \subseteq FreeCells(pt)
            BY <1>21, <2>5
        <3>4. Cardinality(FreeCells(pt)') = remain[pt] - sz
            BY <1>c, <2>1, <3>2, <3>3, CellsOut
        <3>5. sz <= remain[pt]
            BY <1>c, <2>1, <3>3, CellsCount, FS_Subset
        <3>6. remain' = [remain EXCEPT ![pf] = @ + sz, ![pt] = @ - sz]
            BY <2>5 DEF sz
        <3>7. /\ \A q \in Pools : remain'[q] = IF q = pf THEN remain[q] + sz
                                             ELSE IF q = pt THEN remain[q] - sz
                                             ELSE remain[q]
              /\ remain' \in [Pools -> Nat]
            <4>1. remain \in [Pools -> Nat]
                BY DEF TypeOK
            <4>2. \A q \in Pools : remain'[q] = IF q = pf THEN remain[q] + sz
                                               ELSE IF q = pt THEN remain[q] - sz
                                               ELSE remain[q]
                BY <2>5, <3>6, <4>1
            <4>3. remain[pf] + sz \in Nat /\ remain[pt] - sz \in Nat
                BY <1>c, <3>5, <4>1
            <4>4. remain' = [q \in Pools |-> remain'[q]]
                BY <3>6, <4>1
            <4>. QED
                BY <4>1, <4>2, <4>3, <4>4
        <3>. QED
            BY <2>1, <2>2, <2>3, <3>1, <3>4, <3>7 DEF RemainExact
    <2>. QED
        BY <2>4, <2>5
<1>23. entries'[pt][j].base = nb /\ entries'[pt][j].size = Size(pf, i)
    BY <1>6 DEF sz
<1>24. \A x \in Owners : handle[x] = NoHandle => handle'[x] = NoHandle
    <2>1. handle[o] # NoHandle
        BY EntryOwner DEF o
    <2>. QED
        BY <1>8, <2>1
<1>25. Layout'
    BY <1>9, <1>10, <1>11, <1>12, <1>13, <1>19, <1>22 DEF Layout
<1>26. DOMAIN mem' = Pools
    BY <1>14
<1>27. \A q \in Pools : \A k :
          k \in used'[q] <=> (q = pt /\ k = j)
                             \/ (k \in used[q] /\ ~ (q = pf /\ k = i))
    BY <1>4
<1>28. \A q \in Pools : \A k \in used[q] :
          ~ (q = pf /\ k = i) => entries'[q][k] = entries[q][k]
    BY <1>7
<1>29. used' \in [Pools -> SUBSET Slot] /\ entries' \in [Pools -> [Slot -> Entry]]
       /\ handle' \in [Owners -> Handle]
    BY <1>4, <1>6, <1>8
<1>30. TableTyped'
    <2>1. \A q \in Pools : Cell(q)' = Cell(q)
        BY DEF Cell
    <2>. QED
        BY <1>18, <1>22, <1>26, <1>29, <2>1 DEF TableTyped
<1>. QED
    BY <1>23, <1>24, <1>25, <1>27, <1>28, <1>30 DEF EntryMoved

-----------------------------------------------------------------------------
(* Freeing an entry.                                                       *)

\* What mem_pool_free() does to the table.
EntryFreed(x) ==
    /\ Layout'
    /\ TableTyped'
    /\ handle[x].pool \in Pools
    /\ handle[x].id \in used[handle[x].pool]
    /\ \A q \in Pools :
          used'[q] = IF q = handle[x].pool THEN used[q] \ {handle[x].id} ELSE used[q]
    /\ \A q \in Pools : \A k \in used'[q] : entries'[q][k] = entries[q][k]

\* mem_pool_free() keeps the layout.
LEMMA FreeLayout ==
    ASSUME TypeOK, Layout, NEW x \in Owners, MemPoolFree(x)
    PROVE  EntryFreed(x)
<1>0. /\ handle[x] # NoHandle
      /\ handle[x].pool \in Pools
      /\ handle[x].id \in used[handle[x].pool]
      /\ entries[handle[x].pool][handle[x].id].owner = x
    BY DEF MemPoolFree, Layout, HandlesAgree, TypeOK
<1>2. PICK p \in Pools : p = handle[x].pool
    BY <1>0
<1>1. PICK i \in used[p] : i = handle[x].id /\ entries[p][i].owner = x
    BY <1>0, <1>2
<1>. DEFINE b0 == Base(p, i)
            sz == Size(p, i)
<1>3. /\ remain' = [remain EXCEPT ![p] = @ + sz]
      /\ used' = [used EXCEPT ![p] = @ \ {i}]
      /\ entries' = [entries EXCEPT ![p][i] = Unused]
      /\ mem' = [mem EXCEPT ![p] = [c \in Cell(p) |->
                    IF b0 <= c /\ c < End(p, i) THEN Junk ELSE mem[p][c]]]
      /\ handle' = [handle EXCEPT ![x] = NoHandle]
      /\ alive' = alive /\ words' = words
    BY <1>1, <1>2 DEF MemPoolFree
<1>. HIDE DEF b0, sz
<1>4. /\ b0 \in Nat /\ sz \in Nat /\ sz > 0 /\ End(p, i) = b0 + sz /\ i \in Slot
      /\ End(p, i) <= PoolSize[p] /\ PoolSize[p] \in Nat
    BY <1>1, <1>2, EntryNumbers, EntryOwner DEF b0, sz
<1>a. \A q \in Pools : \A k \in used[q] :
         /\ k \in Nat
         /\ Base(q, k) \in Nat /\ End(q, k) \in Nat
    BY EntryNumbers
<1>b. \A q \in Pools : \A k \in used[q] :
         /\ k \in Slot
         /\ entries[q][k].owner \in Owners
         /\ handle[entries[q][k].owner] = [pool |-> q, id |-> k]
    BY EntryOwner
<1>5. /\ used' \in [Pools -> SUBSET Slot]
      /\ \A q \in Pools : used'[q] = IF q = p THEN used[q] \ {i} ELSE used[q]
    BY <1>2, <1>3 DEF TypeOK
<1>6. /\ entries' \in [Pools -> [Slot -> Entry]]
      /\ \A q \in Pools : \A k \in Slot :
            ~ (q = p /\ k = i) => entries'[q][k] = entries[q][k]
    <2>1. Unused \in Entry
        BY DEF Unused, Entry
    <2>. QED
        BY <1>2, <1>3, <1>4, <2>1 DEF TypeOK
<1>7. \A q \in Pools : \A k \in used'[q] :
         /\ k \in used[q] /\ ~ (q = p /\ k = i)
         /\ entries'[q][k] = entries[q][k]
         /\ Base(q, k)' = Base(q, k) /\ Size(q, k)' = Size(q, k)
         /\ End(q, k)' = End(q, k)
    <2>1. SUFFICES ASSUME NEW q \in Pools, NEW k \in used'[q]
                   PROVE  /\ k \in used[q] /\ ~ (q = p /\ k = i)
                          /\ entries'[q][k] = entries[q][k]
        BY DEF Base, Size, End
    <2>2. k \in used[q] /\ ~ (q = p /\ k = i)
        BY <1>5
    <2>. QED
        BY <1>6, <1>b, <2>2
<1>8. /\ \A y \in Owners : handle'[y] = IF y = x THEN NoHandle ELSE handle[y]
      /\ handle' \in [Owners -> Handle]
    <2>1. NoHandle \in Handle
        BY DEF NoHandle, Handle
    <2>. QED
        BY <1>3, <2>1 DEF TypeOK
<1>9. /\ DOMAIN mem' = Pools
      /\ \A q \in Pools : mem'[q] \in [Cell(q) -> Datum]
      /\ \A q \in Pools : \A c \in Cell(q) :
            mem'[q][c] = IF q = p /\ b0 <= c /\ c < b0 + sz THEN Junk ELSE mem[q][c]
    <2>1. Junk \in Datum
        BY DEF Junk, Datum
    <2>. QED
        BY <1>2, <1>3, <1>4, <2>1 DEF TypeOK
<1>10. EntriesOrdered'
    BY <1>7 DEF Layout, EntriesOrdered
<1>11. HandlesAgree'
    <2>1. ASSUME NEW q \in Pools, NEW k \in used'[q]
          PROVE  handle'[entries'[q][k].owner] = [pool |-> q, id |-> k]
        <3>1. k \in used[q] /\ ~ (q = p /\ k = i) /\ entries'[q][k] = entries[q][k]
            BY <1>7
        <3>2. handle[x] = [pool |-> p, id |-> i]
            BY <1>1, <1>2, <1>b
        <3>3. entries[q][k].owner # x
            <4>1. [pool |-> q, id |-> k] # [pool |-> p, id |-> i]
                BY <3>1
            <4>. QED
                BY <1>b, <3>1, <3>2, <4>1
        <3>. QED
            BY <1>8, <1>b, <3>1, <3>3
    <2>2. ASSUME NEW y \in Owners, handle'[y] # NoHandle
          PROVE  /\ handle'[y].pool \in alive'
                 /\ handle'[y].id \in used'[handle'[y].pool]
                 /\ entries'[handle'[y].pool][handle'[y].id].owner = y
        <3>1. y # x /\ handle'[y] = handle[y]
            BY <1>8, <2>2
        <3>2. /\ handle[y].pool \in alive
              /\ handle[y].id \in used[handle[y].pool]
              /\ entries[handle[y].pool][handle[y].id].owner = y
            BY <2>2, <3>1 DEF Layout, HandlesAgree
        <3>3. handle[y].pool \in Pools
            BY <3>2 DEF TypeOK
        <3>4. ~ (handle[y].pool = p /\ handle[y].id = i)
            BY <1>1, <3>1, <3>2
        <3>. QED
            BY <1>3, <1>5, <1>7, <3>1, <3>2, <3>3, <3>4
    <2>. QED
        BY <2>1, <2>2 DEF HandlesAgree
<1>12. DataKept'
    <2>1. SUFFICES ASSUME NEW q \in Pools, NEW k \in used'[q], NEW c \in Cell(q),
                          Base(q, k)' <= c, c < End(q, k)'
                   PROVE  mem'[q][c] = [owner |-> entries'[q][k].owner,
                                        pos |-> c - Base(q, k)']
        BY DEF DataKept
    <2>2. /\ k \in used[q] /\ ~ (q = p /\ k = i) /\ entries'[q][k] = entries[q][k]
          /\ Base(q, k)' = Base(q, k) /\ Base(q, k) <= c /\ c < End(q, k)
        BY <1>7, <2>1
    <2>3. mem[q][c] = [owner |-> entries[q][k].owner, pos |-> c - Base(q, k)]
        BY <2>2 DEF Layout, DataKept
    <2>4. ~ (q = p /\ b0 <= c /\ c < b0 + sz)
        <3>1. SUFFICES ASSUME q = p PROVE ~ (b0 <= c /\ c < b0 + sz)
            OBVIOUS
        <3>2. /\ i \in Nat /\ k \in Nat /\ k # i /\ c \in Int
              /\ Base(p, k) \in Nat /\ End(p, k) \in Nat
            BY <1>1, <1>a, <1>2, <2>2, <3>1, MemPoolAssumption DEF Cell
        <3>3. CASE k < i
            <4>1. End(p, k) <= b0
                BY <1>1, <1>2, <2>2, <3>1, <3>3 DEF Layout, EntriesOrdered, b0
            <4>. QED
                BY <1>4, <2>2, <3>1, <3>2, <4>1
        <3>4. CASE i < k
            <4>1. b0 + sz <= Base(p, k)
                BY <1>1, <1>2, <1>4, <2>2, <3>1, <3>4 DEF Layout, EntriesOrdered
            <4>. QED
                BY <1>4, <2>2, <3>1, <3>2, <4>1
        <3>. QED
            BY <3>2, <3>3, <3>4
    <2>. QED
        BY <1>9, <2>2, <2>3, <2>4
<1>13. RemainExact' /\ remain' \in [Pools -> Nat]
    <2>1. ASSUME NEW q \in Pools, q # p PROVE FreeCells(q)' = FreeCells(q)
        BY <1>5, <1>7, <2>1 DEF FreeCells
    <2>2. /\ \A c \in Cells(b0, sz) : c \in Int /\ b0 <= c /\ c < b0 + sz
          /\ Cells(b0, sz) \subseteq Cell(p)
        BY <1>4 DEF Cells, Cell
    <2>3. Cells(b0, sz) \cap FreeCells(p) = {}
        BY <1>1, <1>4, <2>2 DEF FreeCells, b0
    <2>4. ASSUME NEW c \in Cell(p)
          PROVE  c \in FreeCells(p)' <=> c \in FreeCells(p) \cup Cells(b0, sz)
        <3>1. c \in Int
            BY <1>4 DEF Cell
        <3>2. c \in Cells(b0, sz) <=> b0 <= c /\ c < b0 + sz
            BY <1>4, <3>1 DEF Cells
        <3>3. c \in FreeCells(p)' <=>
                 \A k \in used[p] : k # i => ~ (Base(p, k) <= c /\ c < End(p, k))
            <4>1. \A k : k \in used'[p] <=> k \in used[p] /\ k # i
                BY <1>2, <1>5
            <4>2. c \in FreeCells(p)' <=>
                     \A k \in used'[p] : ~ (Base(p, k)' <= c /\ c < End(p, k)')
                BY DEF FreeCells
            <4>. QED
                BY <1>7, <4>1, <4>2
        <3>4. c \in FreeCells(p) <=>
                 \A k \in used[p] : ~ (Base(p, k) <= c /\ c < End(p, k))
            BY DEF FreeCells
        <3>5. CASE c \in Cells(b0, sz)
            <4>1. ASSUME NEW k \in used[p], k # i
                  PROVE  ~ (Base(p, k) <= c /\ c < End(p, k))
                <5>1. /\ k \in Nat /\ i \in Nat /\ Base(p, k) \in Nat /\ End(p, k) \in Nat
                    BY <1>1, <1>2, <1>a
                <5>2. CASE k < i
                    <6>1. End(p, k) <= b0
                        BY <1>1, <1>2, <5>2 DEF Layout, EntriesOrdered, b0
                    <6>. QED
                        BY <1>4, <3>1, <3>2, <3>5, <5>1, <6>1
                <5>3. CASE i < k
                    <6>1. b0 + sz <= Base(p, k)
                        BY <1>1, <1>2, <1>4, <5>3 DEF Layout, EntriesOrdered
                    <6>. QED
                        BY <1>4, <3>1, <3>2, <3>5, <5>1, <6>1
                <5>. QED
                    BY <4>1, <5>1, <5>2, <5>3
            <4>. QED
                BY <3>3, <3>5, <4>1
        <3>6. CASE c \notin Cells(b0, sz)
            BY <1>1, <1>4, <3>2, <3>3, <3>4, <3>6 DEF b0
        <3>. QED
            BY <3>5, <3>6
    <2>5. FreeCells(p)' \subseteq Cell(p) /\ FreeCells(p) \subseteq Cell(p)
        BY DEF FreeCells
    <2>6. FreeCells(p)' = FreeCells(p) \cup Cells(b0, sz)
        BY <2>2, <2>4, <2>5
    <2>7. Cardinality(FreeCells(p) \cup Cells(b0, sz)) = Cardinality(FreeCells(p)) + sz
        BY <1>2, <1>4, <2>3, CellsIn, CellFinite
    <2>8. \A q \in Pools : remain[q] = Cardinality(FreeCells(q))
        BY DEF Layout, RemainExact
    <2>9. /\ remain' \in [Pools -> Nat]
          /\ \A q \in Pools : remain'[q] = IF q = p THEN remain[q] + sz ELSE remain[q]
        BY <1>2, <1>3, <1>4 DEF TypeOK
    <2>10. ASSUME NEW q \in Pools PROVE remain'[q] = Cardinality(FreeCells(q)')
        <3>1. CASE q = p
            BY <1>2, <2>6, <2>7, <2>8, <2>9, <3>1
        <3>2. CASE q # p
            BY <2>1, <2>8, <2>9, <3>2
        <3>. QED
            BY <3>1, <3>2
    <2>. QED
        BY <2>9, <2>10 DEF RemainExact
<1>14. SlotsInBitmap' /\ EntriesOwned' /\ FirstAtBase'
    <2>1. SlotsInBitmap'
        BY <1>3, <1>7 DEF Layout, SlotsInBitmap
    <2>2. EntriesOwned'
        BY <1>7 DEF Layout, EntriesOwned
    <2>3. FirstAtBase'
        BY <1>7 DEF Layout, FirstAtBase
    <2>. QED
        BY <2>1, <2>2, <2>3
<1>15. Layout'
    BY <1>10, <1>11, <1>12, <1>13, <1>14 DEF Layout
<1>16. \A q \in Pools : \A k \in used'[q] : entries'[q][k] = entries[q][k]
    BY <1>7
<1>17. TableTyped'
    <2>1. \A q \in Pools : Cell(q)' = Cell(q)
        BY DEF Cell
    <2>. QED
        BY <1>5, <1>6, <1>8, <1>9, <1>13, <2>1 DEF TableTyped
<1>18. \A q \in Pools :
          used'[q] = IF q = handle[x].pool THEN used[q] \ {handle[x].id} ELSE used[q]
    BY <1>1, <1>2, <1>5
<1>. QED
    BY <1>0, <1>15, <1>16, <1>17, <1>18 DEF EntryFreed

-----------------------------------------------------------------------------
(* What the counters and the marks of a pool tell about its entries.       *)

\* mem_pool_empty() is right: no entry is left.
LEMMA EmptyFact ==
    ASSUME TypeOK, Layout, NEW p \in Pools
    PROVE  Empty(p) <=> used[p] = {}
<1>1. /\ IsFiniteSet(Cell(p)) /\ Cardinality(Cell(p)) = PoolSize[p]
      /\ FreeCells(p) \subseteq Cell(p)
    BY CellFinite
<1>2. remain[p] = Cardinality(FreeCells(p))
    BY DEF Layout, RemainExact
<1>3. ASSUME used[p] = {} PROVE Empty(p)
    <2>1. FreeCells(p) = Cell(p)
        BY <1>3 DEF FreeCells
    <2>. QED
        BY <1>1, <1>2, <2>1 DEF Empty
<1>4. ASSUME NEW i \in used[p] PROVE ~ Empty(p)
    <2>1. Base(p, i) \in Cell(p) /\ Base(p, i) \notin FreeCells(p)
        <3>1. /\ Base(p, i) \in Nat /\ Size(p, i) \in Nat /\ Size(p, i) > 0
              /\ End(p, i) = Base(p, i) + Size(p, i)
              /\ End(p, i) <= PoolSize[p] /\ PoolSize[p] \in Nat
            BY EntryNumbers
        <3>2. Base(p, i) <= Base(p, i) /\ Base(p, i) < End(p, i)
            BY <3>1
        <3>3. Base(p, i) \in Cell(p)
            BY <3>1 DEF Cell
        <3>. QED
            BY <3>2, <3>3 DEF FreeCells
    <2>2. Cardinality(FreeCells(p)) # Cardinality(Cell(p))
        BY <1>1, <2>1, FS_Subset
    <2>. QED
        BY <1>1, <1>2, <2>2 DEF Empty
<1>. QED
    BY <1>3, <1>4

\* A pool that is empty but for one entry has only that one.
LEMMA LastEntry ==
    ASSUME TypeOK, Layout, NEW p \in Pools, NEW i \in used[p],
           remain[p] + Size(p, i) = PoolSize[p]
    PROVE  used[p] = {i}
<1>. SUFFICES ASSUME NEW k \in used[p], k # i PROVE FALSE
    OBVIOUS
<1>. DEFINE b0 == Base(p, i)
            sz == Size(p, i)
            S == FreeCells(p) \cup Cells(b0, sz)
<1>1. /\ b0 \in Nat /\ sz \in Nat /\ i \in Nat /\ k \in Nat
      /\ End(p, i) = b0 + sz /\ End(p, i) <= PoolSize[p] /\ PoolSize[p] \in Nat
      /\ Base(p, k) \in Nat /\ End(p, k) \in Nat /\ Base(p, k) < End(p, k)
      /\ End(p, k) <= PoolSize[p]
    BY EntryNumbers
<1>2. /\ IsFiniteSet(Cell(p)) /\ Cardinality(Cell(p)) = PoolSize[p]
      /\ FreeCells(p) \subseteq Cell(p) /\ IsFiniteSet(FreeCells(p))
      /\ remain[p] = Cardinality(FreeCells(p))
    BY CellFinite DEF Layout, RemainExact
<1>3. \A c \in Cells(b0, sz) : c \in Cell(p) /\ b0 <= c /\ c < End(p, i)
    BY <1>1 DEF Cells, Cell
<1>4. Cells(b0, sz) \cap FreeCells(p) = {}
    BY <1>3 DEF FreeCells
<1>5. Base(p, k) \in Cell(p) /\ Base(p, k) \notin FreeCells(p)
    <2>1. Base(p, k) \in Cell(p) /\ Base(p, k) <= Base(p, k)
        BY <1>1 DEF Cell
    <2>. QED
        BY <1>1, <2>1 DEF FreeCells
<1>6. Base(p, k) \notin Cells(b0, sz)
    <2>1. CASE k < i
        <3>1. End(p, k) <= b0
            BY <2>1 DEF Layout, EntriesOrdered
        <3>. QED
            BY <1>1, <1>3, <3>1
    <2>2. CASE i < k
        <3>1. End(p, i) <= Base(p, k)
            BY <2>2 DEF Layout, EntriesOrdered
        <3>. QED
            BY <1>1, <1>3, <3>1
    <2>. QED
        BY <1>1, <2>1, <2>2
<1>7. Cardinality(S) = PoolSize[p]
    <2>1. Cardinality(S) = Cardinality(FreeCells(p)) + sz
        BY <1>1, <1>2, <1>4, CellsIn
    <2>. HIDE DEF S, sz
    <2>2. remain[p] + sz = PoolSize[p]
        BY DEF sz
    <2>. QED
        BY <1>2, <2>1, <2>2
<1>8. S \subseteq Cell(p) /\ S # Cell(p)
    BY <1>2, <1>3, <1>5, <1>6
<1>. QED
    BY <1>2, <1>7, <1>8, FS_Subset

\* Where the used entries are back to back, the free memory lies in one
\* piece behind the last of them.
LEMMA CompactRemain ==
    ASSUME TypeOK, Layout, NEW p \in Pools, NEW last \in Int, last >= -1,
           CompactTo(p, last), UsedUpTo(p, last), NEW start,
           start = IF last = -1 THEN 0 ELSE End(p, last)
    PROVE  /\ start \in Nat
           /\ start + remain[p] = PoolSize[p]
           /\ \A k \in used[p] : End(p, k) <= start
<1>1. /\ \A i \in used[p] : /\ i \in Nat /\ Base(p, i) \in Nat /\ End(p, i) \in Nat
                             /\ End(p, i) <= PoolSize[p]
                             /\ 0 <= i /\ i <= last
      /\ PoolSize[p] \in Nat
    BY EntryNumbers, MemPoolAssumption DEF UsedUpTo
<1>2. \A i \in 0 .. last : i \in used[p] /\ Base(p, i) = GapStart(p, i)
    BY DEF CompactTo
<1>3. start \in Nat /\ start <= PoolSize[p]
    <2>1. CASE last = -1
        BY <1>1, <2>1
    <2>2. CASE last # -1
        <3>1. last \in used[p]
            BY <1>2, <2>2
        <3>. QED
            BY <1>1, <2>2, <3>1
    <2>. QED
        BY <2>1, <2>2
<1>4. ASSUME NEW k \in used[p] PROVE End(p, k) <= start
    <2>1. last # -1 /\ last \in used[p] /\ k <= last
        BY <1>1, <1>2
    <2>2. CASE k = last
        BY <1>1, <2>1, <2>2
    <2>3. CASE k < last
        <3>1. End(p, k) <= Base(p, last)
            BY <2>1, <2>3 DEF Layout, EntriesOrdered
        <3>2. Base(p, last) <= End(p, last)
            BY <2>1, EntryNumbers
        <3>. QED
            BY <1>1, <2>1, <3>1, <3>2
    <2>. QED
        BY <1>1, <2>1, <2>2, <2>3
<1>5. ASSUME NEW c \in Cell(p), c < start PROVE c \notin FreeCells(p)
    <2>. DEFINE S == {i \in used[p] : c < End(p, i)}
                i == Least(S)
    <2>0. c \in Nat
        BY <1>1 DEF Cell
    <2>1. last # -1 /\ last \in S
        BY <1>2, <1>5, <2>0
    <2>2. S \subseteq Nat
        BY <1>1
    <2>3. i \in S /\ \A y \in S : i <= y
        BY <2>1, <2>2, LeastIsLeast
    <2>. HIDE DEF i
    <2>4. i \in used[p] /\ c < End(p, i) /\ i \in 0 .. last /\ i \in Nat
        BY <1>1, <2>3
    <2>5. Base(p, i) = GapStart(p, i)
        BY <1>2, <2>4
    <2>6. Base(p, i) <= c
        <3>1. CASE i = 0
            BY <2>0, <2>5, <3>1 DEF GapStart
        <3>2. CASE i # 0
            <4>1. i - 1 \in used[p] /\ i - 1 \notin S
                BY <1>2, <2>3, <2>4, <3>2
            <4>2. Base(p, i) = End(p, i - 1)
                BY <2>5, <3>2 DEF GapStart
            <4>3. ~ (c < End(p, i - 1)) /\ End(p, i - 1) \in Nat
                BY <1>1, <4>1
            <4>. QED
                BY <2>0, <4>2, <4>3
        <3>. QED
            BY <3>1, <3>2
    <2>. QED
        BY <2>4, <2>6 DEF FreeCells
<1>6. FreeCells(p) = Cells(start, PoolSize[p] - start)
    <2>1. ASSUME NEW c \in Cell(p), start <= c PROVE c \in FreeCells(p)
        <3>1. c \in Nat
            BY <1>1 DEF Cell
        <3>2. \A k \in used[p] : ~ (c < End(p, k))
            BY <1>1, <1>3, <1>4, <2>1, <3>1
        <3>. QED
            BY <3>2 DEF FreeCells
    <2>2. FreeCells(p) \subseteq Cell(p)
        BY DEF FreeCells
    <2>3. Cells(start, PoolSize[p] - start) = {c \in Cell(p) : start <= c}
        BY <1>1, <1>3 DEF Cells, Cell
    <2>4. \A c \in Cell(p) : c \in Int
        BY <1>1 DEF Cell
    <2>. QED
        BY <1>3, <1>5, <2>1, <2>2, <2>3, <2>4
<1>7. Cardinality(FreeCells(p)) = PoolSize[p] - start
    BY <1>1, <1>3, <1>6, CellsCount
<1>8. remain[p] = Cardinality(FreeCells(p))
    BY DEF Layout, RemainExact
<1>. QED
    BY <1>1, <1>3, <1>4, <1>7, <1>8

\* In a compact pool the used slots are those in front of the first unused
\* one.
LEMMA CompactPrefix ==
    ASSUME TypeOK, Layout, NEW p \in Pools, CompactPool(p),
           NEW u \in Nat, u \notin used[p]
    PROVE  UsedUpTo(p, u - 1)
<1>1. \A i \in used[p] : i \in Nat
    BY EntryNumbers
<1>. DEFINE S == {i \in used[p] : i > u}
            k == Least(S)
<1>2. S = {}
    <2>1. SUFFICES ASSUME S # {} PROVE FALSE
        OBVIOUS
    <2>2. k \in S /\ \A y \in S : k <= y
        BY <1>1, <2>1, LeastIsLeast
    <2>. HIDE DEF k
    <2>3. k - 1 \in used[p]
        BY <1>1, <2>2 DEF CompactPool
    <2>4. k - 1 > u
        BY <1>1, <2>2, <2>3
    <2>. QED
        BY <1>1, <2>2, <2>3, <2>4
<1>. QED
    BY <1>1, <1>2 DEF UsedUpTo

\* What keeps a compact pool compact.
LEMMA SameCompact ==
    ASSUME NEW p \in Pools, CompactPool(p), used'[p] = used[p],
           \A i \in used[p] : i \in Nat /\ entries'[p][i] = entries[p][i]
    PROVE  CompactPool(p)'
<1>1. SUFFICES ASSUME NEW i \in used[p]
               PROVE  /\ i > 0 => i - 1 \in used[p]
                      /\ Base(p, i)' = GapStart(p, i)'
    BY DEF CompactPool
<1>2. (i > 0 => i - 1 \in used[p]) /\ Base(p, i) = GapStart(p, i) /\ i \in Nat
    BY DEF CompactPool
<1>3. Base(p, i)' = Base(p, i) /\ GapStart(p, i)' = GapStart(p, i)
    BY <1>2 DEF Base, GapStart, End
<1>. QED
    BY <1>2, <1>3

LEMMA AddCompact ==
    ASSUME NEW p \in Pools, CompactPool(p), NEW e, e \notin used[p],
           e = 0 \/ e - 1 \in used[p], \A i \in used[p] : i \in Nat, e \in Nat,
           used'[p] = used[p] \cup {e},
           \A i \in used[p] : entries'[p][i] = entries[p][i],
           entries'[p][e].base = GapStart(p, e)
    PROVE  CompactPool(p)'
<1>1. SUFFICES ASSUME NEW i \in used'[p]
               PROVE  /\ i > 0 => i - 1 \in used'[p]
                      /\ Base(p, i)' = GapStart(p, i)'
    BY DEF CompactPool
<1>2. \A k \in used[p] : End(p, k)' = End(p, k) /\ Base(p, k)' = Base(p, k)
    BY DEF End, Base
<1>3. CASE i = e
    <2>1. GapStart(p, e)' = GapStart(p, e)
        BY <1>2 DEF GapStart
    <2>. QED
        BY <1>3, <2>1 DEF Base
<1>4. CASE i # e
    <2>1. i \in used[p] /\ (i > 0 => i - 1 \in used[p]) /\ Base(p, i) = GapStart(p, i)
        BY <1>1, <1>4 DEF CompactPool
    <2>2. GapStart(p, i)' = GapStart(p, i)
        BY <1>2, <2>1 DEF GapStart
    <2>. QED
        BY <1>2, <2>1, <2>2
<1>. QED
    BY <1>3, <1>4

\* The layout does not depend on the locals of a call, and a longer bitmap
\* does not disturb it.
LEMMA SameLayout ==
    ASSUME Layout,
           used' = used, entries' = entries, remain' = remain, handle' = handle,
           mem' = mem, alive' = alive,
           \A q \in Pools : used[q] \subseteq Slots(words'[q])
    PROVE  Layout'
<1>1. EntriesOrdered'
    BY DEF Layout, EntriesOrdered, End, Base
<1>2. HandlesAgree'
    BY DEF Layout, HandlesAgree
<1>3. DataKept'
    BY DEF Layout, DataKept, End, Base
<1>4. RemainExact'
    BY DEF Layout, RemainExact, FreeCells, End, Base
<1>5. SlotsInBitmap' /\ EntriesOwned' /\ FirstAtBase'
    BY DEF Layout, SlotsInBitmap, EntriesOwned, FirstAtBase, Size, Base
<1>. QED
    BY <1>1, <1>2, <1>3, <1>4, <1>5 DEF Layout
=============================================================================
