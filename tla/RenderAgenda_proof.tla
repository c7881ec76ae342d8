------------------------- MODULE RenderAgenda_proof -------------------------
(***************************************************************************)
(* Proofs about accelerated drawing: what the calls do to the fences, and  *)
(* the agenda of the request.                                              *)
(***************************************************************************)
EXTENDS RenderGpu_proof

-----------------------------------------------------------------------------
(* Drawing.                                                                *)

\* What holds of 0, and of n + 1 if of n, holds up to N.
LEMMA UpTo ==
    ASSUME NEW N \in Nat, NEW A, 0 \in A, \A n \in 0..(N - 1) : n \in A => n + 1 \in A
    PROVE  0..N \subseteq A
<1>. DEFINE bad == (0..N) \ A
            R == {ss \in Nat \X Nat : ss[1] < ss[2]}
<1>1. SUFFICES ASSUME bad # {} PROVE FALSE
    OBVIOUS
<1>2. IsWellFoundedOn(R, Nat)
    BY NatLessThanWellFounded DEF OpToRel
<1>3. bad \subseteq Nat
    OBVIOUS
<1>4. PICK n \in bad : \A m \in bad : ~ (<<m, n>> \in R)
    <2>. HIDE DEF R, bad
    <2>. QED
        BY <1>1, <1>2, <1>3, WFMin
<1>5. n \in 1..N /\ n \notin A
    <2>1. n \in 0..N /\ n \notin A
        BY <1>4
    <2>. QED
        BY <2>1
<1>6. n - 1 \notin A
    BY <1>5
<1>7. n - 1 \in bad /\ <<n - 1, n>> \in R
    BY <1>5, <1>6
<1>. QED
    BY <1>4, <1>7

LEMMA ColoursFact == Colours = {0, 1, 2} /\ Clear \in Colours /\ Black \in Colours /\ NoFill \notin Colours
BY DEF Colours, Clear, Black, NoFill

LEMMA CellsFact ==
    ASSUME NEW p
    PROVE  Cells(p) \subseteq {"s", "l"} /\ "s" \in Cells(p)
BY DEF Cells

LEMMA MapsFact ==
    ASSUME NEW m
    PROVE  m \in Maps <=> /\ m = [p \in Pixmaps |-> m[p]]
                          /\ \A p \in Pixmaps : m[p] \in [Cells(p) -> Colours]
<1>1. ASSUME m \in Maps
      PROVE  m = [p \in Pixmaps |-> m[p]] /\ \A p \in Pixmaps : m[p] \in [Cells(p) -> Colours]
    <2>1. /\ m \in [Pixmaps -> UNION {[S -> Colours] : S \in {{"s"}, {"s", "l"}}}]
          /\ \A p \in Pixmaps : DOMAIN m[p] = Cells(p)
        BY <1>1 DEF Maps
    <2>2. \A p \in Pixmaps : \E S \in {{"s"}, {"s", "l"}} : m[p] \in [S -> Colours]
        BY <2>1
    <2>. QED
        BY <2>1, <2>2
<1>2. ASSUME m = [p \in Pixmaps |-> m[p]], \A p \in Pixmaps : m[p] \in [Cells(p) -> Colours]
      PROVE  m \in Maps
    <2>1. \A p \in Pixmaps : Cells(p) \in {{"s"}, {"s", "l"}}
        BY DEF Cells
    <2>2. \A p \in Pixmaps : m[p] \in UNION {[S -> Colours] : S \in {{"s"}, {"s", "l"}}}
        BY <1>2, <2>1
    <2>. QED
        BY <1>2, <2>2 DEF Maps
<1>. QED
    BY <1>1, <1>2

\* Drawing keeps the shape of the contents.
LEMMA DrawFact ==
    ASSUME NEW m \in Maps, NEW o \in Operations
    PROVE  Draw(m, o) \in Maps
<1>1. /\ o.op \in {"Copy", "Src", "Over"} /\ o.dst \in Pixmaps /\ o.src \in Operands /\ o.mask \in Operands
      /\ o.cells \subseteq Cells(o.dst) /\ o.shift \in BOOLEAN
      /\ o.op = "Copy" => \A t \in {o.src, o.mask} : t.pix # NoPixmap =>
            \A x \in o.cells : From(o.shift, x) \in Cells(t.pix)
    BY DEF Operations
<1>2. m = [p \in Pixmaps |-> m[p]] /\ \A p \in Pixmaps : m[p] \in [Cells(p) -> Colours]
    BY MapsFact
<1>3. ASSUME NEW t \in {o.src, o.mask}, NEW x \in o.cells
      PROVE  Texel(m, o.op, t, From(o.shift, x)) \in Colours
    <2>1. t \in Operands
        BY <1>1
    <2>2. t.pix \in Pixmaps \cup {NoPixmap} /\ (t.pix = NoPixmap => t.colour \in Colours)
        BY <2>1, RenderAssumption DEF Operands, Solid, Texture
    <2>3. \A p, c : c \in Colours => View(p, c) \in Colours
        BY ColoursFact DEF View
    <2>4. t.pix \in Pixmaps => \A y \in Cells(t.pix) : m[t.pix][y] \in Colours
        BY <1>2
    <2>5. t.pix \in Pixmaps /\ o.op = "Copy" => From(o.shift, x) \in Cells(t.pix)
        BY <1>1, RenderAssumption
    <2>6. "s" \in Cells(t.pix)
        BY CellsFact
    <2>. QED
        BY <2>2, <2>3, <2>4, <2>5, <2>6, ColoursFact DEF Texel
<1>. DEFINE d == o.dst
            new == [x \in DOMAIN m[d] |->
                       IF x \in o.cells
                       THEN Blend(o.op, m[d][x], Texel(m, o.op, o.src, From(o.shift, x)),
                                                 Texel(m, o.op, o.mask, From(o.shift, x)))
                       ELSE m[d][x]]
<1>4. new \in [Cells(d) -> Colours]
    <2>1. DOMAIN m[d] = Cells(d) /\ \A x \in Cells(d) : m[d][x] \in Colours
        BY <1>1, <1>2
    <2>2. \A c, k, b : c \in Colours /\ k \in Colours /\ b \in Colours => Blend(o.op, c, k, b) \in Colours
        BY ColoursFact DEF Blend
    <2>3. \A x \in Cells(d) : x \in o.cells =>
             Blend(o.op, m[d][x], Texel(m, o.op, o.src, From(o.shift, x)),
                   Texel(m, o.op, o.mask, From(o.shift, x))) \in Colours
        BY <1>3, <2>1, <2>2
    <2>. QED
        BY <2>1, <2>3
<1>5. Draw(m, o) = [m EXCEPT ![d] = new]
    BY DEF Draw
<1>. HIDE DEF new, d
<1>6. /\ Draw(m, o) = [p \in Pixmaps |-> Draw(m, o)[p]]
      /\ \A p \in Pixmaps : Draw(m, o)[p] \in [Cells(p) -> Colours]
    BY <1>2, <1>4, <1>5
<1>. QED
    BY <1>6, MapsFact

\* The recursive function of DrawAll() exists.
LEMMA DrawAllStep ==
    ASSUME NEW m, NEW ops, Len(ops) \in Nat
    PROVE  \E k : /\ DrawAll(m, ops) = k[Len(ops)]
                  /\ k[0] = m
                  /\ \A i \in 1..Len(ops) : k[i] = Draw(k[i - 1], ops[i])
<1>. DEFINE Step(k, i) == IF i = 0 THEN m ELSE Draw(k[i - 1], ops[i])
            A == {n \in Nat : \E k : k = [i \in 0..n |-> Step(k, i)]}
<1>1. 0 \in A
    <2>. DEFINE k == [i \in 0..0 |-> m]
    <2>1. k = [i \in 0..0 |-> Step(k, i)]
        OBVIOUS
    <2>. QED
        BY <2>1
<1>2. ASSUME NEW n \in 0..(Len(ops) - 1), n \in A PROVE n + 1 \in A
    <2>1. PICK k : k = [i \in 0..n |-> Step(k, i)]
        BY <1>2
    <2>. DEFINE g == [i \in 0..(n + 1) |-> IF i <= n THEN k[i] ELSE Step(k, i)]
    <2>2. ASSUME NEW i \in 0..(n + 1) PROVE g[i] = Step(g, i)
        <3>0. \A j \in 0..n : k[j] = Step(k, j)
            BY <2>1
        <3>1. g[i] = Step(k, i)
            BY <3>0
        <3>2. i # 0 => i - 1 \in 0..n
            OBVIOUS
        <3>3. i # 0 => g[i - 1] = k[i - 1]
            BY <3>2
        <3>. HIDE DEF g
        <3>. QED
            BY <3>1, <3>3
    <2>3. g = [i \in 0..(n + 1) |-> Step(g, i)]
        BY <2>2
    <2>. HIDE DEF g
    <2>. QED
        BY <2>3
<1>3. Len(ops) \in A
    <2>. HIDE DEF A
    <2>1. 0..Len(ops) \subseteq A
        BY <1>1, <1>2, UpTo
    <2>. QED
        BY <2>1
<1>. DEFINE f == CHOOSE k : k = [i \in 0..Len(ops) |-> Step(k, i)]
<1>4. f = [i \in 0..Len(ops) |-> Step(f, i)]
    BY <1>3
<1>5. DrawAll(m, ops) = f[Len(ops)]
    BY DEF DrawAll
<1>. HIDE DEF f
<1>. QED
    BY <1>4, <1>5

LEMMA DrawAllFact ==
    ASSUME NEW m \in Maps, NEW ops \in Seq(Operations)
    PROVE  DrawAll(m, ops) \in Maps
<1>1. PICK k : /\ DrawAll(m, ops) = k[Len(ops)]
               /\ k[0] = m
               /\ \A i \in 1..Len(ops) : k[i] = Draw(k[i - 1], ops[i])
    BY DrawAllStep
<1>2. Len(ops) \in Nat /\ \A i \in 1..Len(ops) : ops[i] \in Operations
    OBVIOUS
<1>. DEFINE A == {n \in Nat : n <= Len(ops) /\ k[n] \in Maps}
<1>3. 0 \in A
    BY <1>1, <1>2
<1>4. ASSUME NEW n \in 0..(Len(ops) - 1), n \in A PROVE n + 1 \in A
    <2>1. n + 1 \in 1..Len(ops) /\ (n + 1) - 1 = n
        BY <1>2
    <2>2. k[n + 1] = Draw(k[n], ops[n + 1])
        BY <1>1, <2>1
    <2>. QED
        BY <1>2, <1>4, <2>1, <2>2, DrawFact
<1>5. 0..Len(ops) \subseteq A
    <2>. HIDE DEF A
    <2>. QED
        BY <1>2, <1>3, <1>4, UpTo
<1>. QED
    BY <1>1, <1>2, <1>5

-----------------------------------------------------------------------------
(* What the calls do to the fences and the queues.                         *)

\* A pixmap that is free to access stays so, and no pixmap joins the batch.
CalmBut(P) ==
    /\ \A p \in Pixmaps : /\ batch'.uses[p].write => batch.uses[p].write
                          /\ batch'.uses[p].read => batch.uses[p].read
    /\ \A p \in Pixmaps \ P : \A r \in BOOLEAN : Clean(p, r) => Clean(p, r)'

LEMMA UsesFact ==
    ASSUME GpuInv, NEW p \in Pixmaps
    PROVE  /\ batch.uses[p].write \in BOOLEAN /\ batch.uses[p].read \in BOOLEAN
           /\ InBatch(p) <=> NeedsFlush(p, TRUE, TRUE)
           /\ InBatch(p) => Deferred
<1>1. batch.uses[p].write \in BOOLEAN /\ batch.uses[p].read \in BOOLEAN
    BY BatchFact DEF Use
<1>2. InBatch(p) <=> NeedsFlush(p, TRUE, TRUE)
    BY DEF GpuInv, BatchInv, NeedsFlush
<1>3. InBatch(p) => Deferred
    BY BatchFact, NoBatchFact DEF InBatch
<1>. QED
    BY <1>1, <1>2, <1>3

LEMMA WaitSlotsFact ==
    ASSUME NEW p \in Pixmaps, NEW r \in BOOLEAN, NEW s \in WaitSlots(p, r)
    PROVE  /\ s \in Slots /\ s[2] \in Engines
           /\ \/ s = <<p, "2D", "write">> \/ s = <<p, "3D", "write">>
              \/ (r /\ (s = <<p, "2D", "read">> \/ s = <<p, "3D", "read">>))
BY DEF WaitSlots, Written, Read, Engines, Slots

\* A slot that holds the fence of the batch is one of a pixmap in it.
LEMMA JobSlot ==
    ASSUME GpuInv, Deferred, NEW p \in Pixmaps, NEW r \in BOOLEAN, NEW s \in WaitSlots(p, r),
           held[s] = batch.job_fence
    PROVE  NeedsFlush(p, r, TRUE)
<1>1. s \in Slots /\ s[2] = "3D"
    BY WaitSlotsFact, HeldFact, BatchFact, PastFact, NumbersFact DEF Engines
<1>2. s = <<p, "3D", "write">> \/ (r /\ s = <<p, "3D", "read">>)
    BY <1>1, WaitSlotsFact
<1>3. /\ batch.uses[p].write <=> held[<<p, "3D", "write">>] = batch.job_fence
      /\ batch.uses[p].read  <=> held[<<p, "3D", "read">>] = batch.job_fence
    BY DEF GpuInv, HeldInv
<1>. QED
    BY <1>2, <1>3 DEF NeedsFlush

LEMMA CalmFact ==
    ASSUME GpuInv,
           \A s \in Slots : held'[s] \in {held[s], NoFence},
           \A g \in Fences : \/ fence'[g] = fence[g] \/ fence'[g] = "marked" \/ g >= seqno
                             \/ (Deferred /\ g = batch.job_fence),
           signalled \subseteq signalled',
           batch' = NoBatch \/ batch' = batch
    PROVE  CalmBut({})
<1>1. \A p \in Pixmaps : /\ batch'.uses[p].write => batch.uses[p].write
                         /\ batch'.uses[p].read => batch.uses[p].read
    BY NoBatchFact
<1>2. ASSUME NEW p \in Pixmaps, NEW r \in BOOLEAN, Clean(p, r)
      PROVE  Clean(p, r)'
    <2>1. ~ NeedsFlush(p, r, TRUE) /\ \A s \in WaitSlots(p, r) : Completed(held[s])
        BY <1>2 DEF Clean
    <2>2. ~ NeedsFlush(p, r, TRUE)'
        BY <1>1, <2>1 DEF NeedsFlush
    <2>3. ASSUME NEW s \in WaitSlots(p, r), held'[s] # NoFence, fence'[held'[s]] = "active"
          PROVE  held'[s] \in signalled'
        <3>1. s \in Slots /\ held'[s] = held[s] /\ held[s] \in Fences /\ held[s] < seqno /\ held[s] \in Nat
            BY <2>3, WaitSlotsFact, HeldFact, NumbersFact
        <3>2. ~ (Deferred /\ held[s] = batch.job_fence)
            BY <2>1, JobSlot
        <3>3. ~ (held[s] >= seqno)
            BY <3>1, SeqnoFact
        <3>4. fence[held[s]] = "active"
            BY <2>3, <3>1, <3>2, <3>3
        <3>. QED
            BY <2>1, <2>3, <3>1, <3>4 DEF Completed
    <2>4. \A s \in WaitSlots(p, r) : Completed(held[s])'
        BY <2>3 DEF Completed
    <2>5. WaitSlots(p, r)' = WaitSlots(p, r)
        BY DEF WaitSlots, Written, Read
    <2>. QED
        BY <2>2, <2>4, <2>5 DEF Clean
<1>. QED
    BY <1>1, <1>2 DEF CalmBut

LEMMA FlushBatchStep ==
    ASSUME GpuInv, Deferred, FlushBatch
    PROVE  GpuInv' /\ batch' = NoBatch /\ CalmBut({})
<1>1. PICK f : f = batch.job_fence
    OBVIOUS
<1>2. f \in Fences /\ f \in Nat /\ f < seqno /\ fence[f] = "new" /\ f \notin QF("2D")
    BY <1>1, BatchFact
<1>3. /\ held' = held /\ seqno' = seqno /\ signalled' = signalled /\ batch' = NoBatch
    BY DEF FlushBatch
<1>4. \/ /\ queue' = [queue EXCEPT !["3D"] =
              Append(@, [ops |-> batch.ops, wait |-> KernelFence(batch.explicit_fence), fence |-> f])]
         /\ fence' = [fence EXCEPT ![f] = "active"]
         /\ last' = [last EXCEPT !["3D"] = f]
      \/ /\ Completed(last["3D"])
         /\ fence' = [fence EXCEPT ![f] = "marked"]
         /\ last' = [last EXCEPT !["3D"] = NoFence]
         /\ queue' = queue
    BY <1>1 DEF FlushBatch, Submit
<1>5. /\ fence \in [Fences -> {"none", "new", "active", "marked"}]
      /\ held \in [Slots -> Handle] /\ last \in [Engines -> Handle] /\ seqno \in Fences /\ seqno \in Nat
    BY SeqnoFact DEF GpuInv, GpuType
<1>6. GpuInv'
    <2>1. ASSUME queue' = [queue EXCEPT !["3D"] =
                    Append(@, [ops |-> batch.ops, wait |-> KernelFence(batch.explicit_fence), fence |-> f])],
                 fence' = [fence EXCEPT ![f] = "active"], last' = [last EXCEPT !["3D"] = f]
          PROVE  GpuInv'
        <3>1. PICK ops : ops = batch.ops
            OBVIOUS
        <3>2. PICK x : x = batch.explicit_fence
            OBVIOUS
        <3>3. /\ ops \in Seq(Operations) /\ x \in Handle /\ x < seqno
              /\ x = NoFence \/ x \in QF("2D") \/ Past(x, "2D")
            BY <3>1, <3>2, BatchFact DEF GpuInv, HeldInv
        <3>4. /\ \A p \in Writes(ops) : p \in Pixmaps /\ batch.uses[p].write
              /\ \A p \in Reads(ops) \ {NoPixmap} : p \in Pixmaps /\ batch.uses[p].read
            BY <3>1, <3>3, OpsFact DEF GpuInv, BatchInv
        <3>5. /\ \A p \in Writes(ops) : held[<<p, "3D", "write">>] = f
              /\ \A p \in Reads(ops) \ {NoPixmap} : held[<<p, "3D", "read">>] = f
            BY <1>1, <3>4 DEF GpuInv, HeldInv
        <3>6. \A a \in Queued("2D") : Conflict(a.ops, ops) => x \in QF("2D") /\ x >= a.fence
            BY <3>1, <3>2 DEF GpuInv, OrderInv
        <3>7. Hold({}, f)
            BY <1>3, <1>5 DEF Hold
        <3>8. queue' = [queue EXCEPT !["3D"] =
                    Append(@, [ops |-> ops, wait |-> KernelFence(x), fence |-> f])]
            BY <2>1, <3>1, <3>2
        <3>9. seqno <= seqno' /\ f < seqno' /\ seqno' \in Fences /\ {} \in SUBSET Slots
              /\ \A s \in {} : s[2] = "3D"
            BY <1>2, <1>3, <1>5
        <3>10. /\ \A p \in Writes(ops) : <<p, "3D", "write">> \in {}
                                  \/ (Deferred /\ held[<<p, "3D", "write">>] = f)
               /\ \A p \in Reads(ops) \ {NoPixmap} : <<p, "3D", "read">> \in {}
                                  \/ (Deferred /\ held[<<p, "3D", "read">>] = f)
            BY <3>5
        <3>11. x \in Handle /\ x < seqno /\ ops \in Seq(Operations) /\ f \in Fences
            BY <1>2, <3>3
        <3>12. (Deferred => f = batch.job_fence) /\ (~ Deferred => f = seqno)
            BY <1>1
        <3>. QED
            BY <1>3, <2>1, <3>3, <3>6, <3>7, <3>8, <3>9, <3>10, <3>11, <3>12, Submit3D
    <2>2. ASSUME Completed(last["3D"]), fence' = [fence EXCEPT ![f] = "marked"],
                 last' = [last EXCEPT !["3D"] = NoFence], queue' = queue
          PROVE  GpuInv'
        <3>1. fence' = [g \in Fences |-> IF g \in {f} THEN "marked" ELSE fence[g]]
            BY <1>2, <1>5, <2>2
        <3>2. last' \in [Engines -> Handle] /\ last'["2D"] = last["2D"] /\ last'["3D"] \in {NoFence, last["3D"]}
            BY <1>5, <2>2, NumbersFact, EnginesFact
        <3>3. {f} \in SUBSET Handle /\ {f} \cap QF("2D") = {} /\ seqno <= seqno'
            BY <1>2, <1>3, <1>5, NumbersFact
        <3>. QED
            BY <1>1, <1>3, <1>5, <2>2, <3>1, <3>2, <3>3, Dropped
    <2>. QED
        BY <1>4, <2>1, <2>2
<1>7. CalmBut({})
    <2>1. \A g \in Fences : fence'[g] = fence[g] \/ g = f
        BY <1>4, <1>5
    <2>. QED
        BY <1>1, <1>3, <2>1, CalmFact
<1>. QED
    BY <1>3, <1>6, <1>7

LEMMA ResetStep ==
    ASSUME GpuInv, NEW p \in Pixmaps, Cancellable(p), ResetBatch(p)
    PROVE  GpuInv' /\ batch' = NoBatch /\ CalmBut({})
<1>. DEFINE M == {held[<<p, "3D", "write">>], held[<<p, "3D", "read">>]}
<1>1. /\ Completed(last["3D"]) /\ batch.uses[p].write /\ Deferred
    BY DEF Cancellable, Deferred
<1>2. /\ fence' = [g \in Fences |-> IF g \in M THEN "marked" ELSE fence[g]]
      /\ batch' = NoBatch /\ held' = held /\ seqno' = seqno /\ last' = last /\ queue' = queue /\ signalled' = signalled
    BY DEF ResetBatch, gpu
<1>3. <<p, "3D", "write">> \in Slots /\ <<p, "3D", "read">> \in Slots
      /\ <<p, "3D", "write">>[2] = "3D" /\ <<p, "3D", "read">>[2] = "3D"
    BY SlotsFact, EnginesFact
<1>4. batch.job_fence \in M
    BY <1>1 DEF GpuInv, HeldInv
<1>5. QF("3D") = {}
    BY <1>1, IdleFact, EnginesFact
<1>6. ASSUME NEW s \in Slots, s[2] = "3D" PROVE held[s] \notin QF("2D") /\ held[s] \in Handle
    BY <1>5, <1>6, HeldFact, PastFact, BatchFact, QueuedFact, NumbersFact, EnginesFact
<1>7. M \in SUBSET Handle /\ M \cap QF("2D") = {}
    BY <1>3, <1>6
<1>8. last' \in [Engines -> Handle] /\ seqno' \in Fences /\ seqno <= seqno'
    BY <1>2, SeqnoFact DEF GpuInv, GpuType
<1>. HIDE DEF M
<1>9. GpuInv'
    BY <1>1, <1>2, <1>4, <1>7, <1>8, Dropped
<1>10. \A g \in Fences : fence'[g] = fence[g] \/ fence'[g] = "marked"
    BY <1>2
<1>. QED
    BY <1>2, <1>9, <1>10, CalmFact

LEMMA NoFlushStep ==
    ASSUME GpuInv, NoFlush
    PROVE  GpuInv' /\ batch' = batch /\ CalmBut({})
<1>1. /\ batch' = batch /\ queue' = queue /\ signalled' = signalled
      /\ held' = held /\ fence' = fence /\ seqno' = seqno /\ last' = last
    BY DEF NoFlush, fences
<1>2. GpuInv'
    <2>1. Hold({}, NoFence) /\ {} \in SUBSET Slots
        BY <1>1 DEF Hold, GpuInv, GpuType
    <2>2. /\ fence' \in [Fences -> {"none", "new", "active", "marked"}]
          /\ last' \in [Engines -> Handle] /\ seqno' \in Fences /\ seqno <= seqno'
        BY <1>1, SeqnoFact DEF GpuInv, GpuType
    <2>. QED
        BY <1>1, <2>1, <2>2, Released
<1>. QED
    BY <1>1, <1>2, CalmFact

\* A 2D job leaves the pixmaps it does not draw to as they were.
LEMMA SubmitStep ==
    ASSUME GpuInv, SubmitJob, NEW d \in Pixmaps, NEW srcs \in SUBSET Pixmaps,
           NEW ops \in Seq(Operations),
           me.pix = d, me.srcs = srcs, me.ops = ops,
           Writes(ops) \subseteq {d}, Reads(ops) \subseteq srcs \cup {NoPixmap},
           ~ NeedsFlush(d, TRUE, TRUE), \A q \in srcs : ~ NeedsFlush(q, FALSE, TRUE)
    PROVE  GpuInv' /\ batch' = batch /\ (srcs = {} => CalmBut({d}))
<1>. DEFINE S == {<<d, "2D", "write">>} \cup {<<p, "2D", "read">> : p \in srcs}
<1>1. PICK x : x = ExplicitFence("3D", d, srcs)
    OBVIOUS
<1>2. seqno \in Fences /\ seqno \in Nat /\ seqno + 1 \in Fences
    BY SeqnoFact, NumbersFact, RenderAssumption DEF SubmitJob, Fences
<1>3. PICK out \in {seqno, NoFence} :
          Submit("2D", seqno, ops, x, out) /\ Hold(S, out)
    BY <1>1 DEF SubmitJob
<1>4. seqno' = seqno + 1 /\ batch' = batch /\ signalled' = signalled
    BY DEF SubmitJob
<1>5. /\ S \in SUBSET Slots /\ \A s \in S : s[2] = "2D"
      /\ \A s \in S : \E p \in srcs \cup {d} : s[1] = p
    <2>1. \A s \in S : \E p \in srcs \cup {d} : \E k \in {"write", "read"} : s = <<p, "2D", k>>
        OBVIOUS
    <2>2. \A p \in srcs \cup {d} : p \in Pixmaps
        OBVIOUS
    <2>. HIDE DEF S
    <2>3. ASSUME NEW s \in S
          PROVE  s \in Slots /\ s[2] = "2D" /\ \E p \in srcs \cup {d} : s[1] = p
        <3>1. PICK p \in srcs \cup {d}, k \in {"write", "read"} : s = <<p, "2D", k>>
            BY <2>1
        <3>2. s[1] = p /\ s[2] = "2D" /\ p \in Pixmaps
            BY <2>2, <3>1
        <3>. QED
            BY <3>1, <3>2, SlotsFact, EnginesFact
    <2>. QED
        BY <2>3
<1>. HIDE DEF S
<1>6. /\ fence \in [Fences -> {"none", "new", "active", "marked"}]
      /\ held \in [Slots -> Handle] /\ last \in [Engines -> Handle]
    BY DEF GpuInv, GpuType
<1>7. ASSUME out = seqno,
             queue' = [queue EXCEPT !["2D"] =
                Append(@, [ops |-> ops, wait |-> KernelFence(x), fence |-> seqno])],
             fence' = [fence EXCEPT ![seqno] = "active"],
             last' = [last EXCEPT !["2D"] = seqno]
      PROVE  GpuInv'
    <2>1. queue' = [queue EXCEPT !["2D"] =
             Append(@, [ops |-> ops, wait |-> KernelFence(ExplicitFence("3D", d, srcs)), fence |-> seqno])]
        BY <1>1, <1>7
    <2>2. Hold({<<d, "2D", "write">>} \cup {<<p, "2D", "read">> : p \in srcs}, seqno)
        BY <1>3, <1>7 DEF S
    <2>3. seqno' = seqno + 1 /\ seqno' \in Fences
        BY <1>2, <1>4
    <2>. QED
        BY <1>4, <1>7, <2>1, <2>2, <2>3, Submit2D
<1>8. ASSUME out = NoFence, Completed(last["2D"]),
             fence' = [fence EXCEPT ![seqno] = "marked"],
             last' = [last EXCEPT !["2D"] = NoFence], queue' = queue
      PROVE  GpuInv'
    <2>1. queue["2D"] = <<>> /\ QF("2D") = {}
        BY <1>8, IdleFact, EnginesFact
    <2>2. \A s \in S : /\ held[s] \notin QF(s[2])
                       /\ ~ (s[2] = "3D" /\ Deferred /\ held[s] = batch.job_fence)
        BY <1>5, <2>1
    <2>3. Hold(S, NoFence)
        BY <1>3, <1>8
    <2>4. \A g \in Fences : g < seqno => fence'[g] = fence[g]
        BY <1>2, <1>6, <1>8
    <2>5. /\ fence' \in [Fences -> {"none", "new", "active", "marked"}]
          /\ last' \in [Engines -> Handle]
          /\ \A e \in Engines : last'[e] = last[e] \/ (last'[e] = NoFence /\ queue[e] = <<>>)
        BY <1>6, <1>8, <2>1, NumbersFact
    <2>6. seqno' \in Fences /\ seqno <= seqno'
        BY <1>2, <1>4
    <2>. QED
        BY <1>4, <1>5, <1>8, <2>2, <2>3, <2>4, <2>5, <2>6, Released
<1>9. GpuInv'
    BY <1>3, <1>7, <1>8 DEF Submit
<1>10. ASSUME srcs = {} PROVE CalmBut({d})
    <2>1. \A g \in Fences : fence'[g] = fence[g] \/ g = seqno
        BY <1>2, <1>3, <1>6 DEF Submit
    <2>2. ASSUME NEW p \in Pixmaps \ {d}, NEW r \in BOOLEAN, Clean(p, r)
          PROVE  Clean(p, r)'
        <3>1. ~ NeedsFlush(p, r, TRUE) /\ \A s \in WaitSlots(p, r) : Completed(held[s])
            BY <2>2 DEF Clean
        <3>2. ~ NeedsFlush(p, r, TRUE)'
            BY <1>4, <3>1 DEF NeedsFlush
        <3>3. ASSUME NEW s \in WaitSlots(p, r), held'[s] # NoFence, fence'[held'[s]] = "active"
              PROVE  held'[s] \in signalled'
            <4>1. s \in Slots /\ s[1] = p
                BY WaitSlotsFact
            <4>2. s \notin S
                BY <1>5, <1>10, <2>2, <4>1
            <4>3. held'[s] = held[s] /\ held[s] \in Nat /\ held[s] < seqno /\ held[s] \in Fences
                BY <1>3, <3>3, <4>1, <4>2, HeldFact, NumbersFact DEF Hold
            <4>4. fence[held[s]] = "active"
                BY <1>2, <2>1, <3>3, <4>3
            <4>. QED
                BY <1>4, <3>1, <3>3, <4>3, <4>4 DEF Completed
        <3>4. \A s \in WaitSlots(p, r) : Completed(held[s])'
            BY <3>3 DEF Completed
        <3>5. WaitSlots(p, r)' = WaitSlots(p, r)
            BY DEF WaitSlots, Written, Read
        <3>. QED
            BY <3>2, <3>4, <3>5 DEF Clean
    <2>. QED
        BY <1>4, <2>2 DEF CalmBut
<1>. QED
    BY <1>4, <1>9, <1>10

\* Once it has waited for the jobs that use a pixmap the processor may.
LEMMA WaitStep ==
    ASSUME GpuInv, Wait, NEW p \in Pixmaps, NEW r \in BOOLEAN,
           me.slots = WaitSlots(p, r), ~ NeedsFlush(p, r, TRUE)
    PROVE  GpuInv' /\ batch' = batch /\ CalmBut({}) /\ Clean(p, r)'
<1>1. PICK S : S = WaitSlots(p, r)
    OBVIOUS
<1>2. /\ \A s \in S : Completed(held[s])
      /\ Hold(S, NoFence)
      /\ fence' = fence /\ seqno' = seqno /\ last' = last /\ batch' = batch
      /\ queue' = queue /\ signalled' = signalled
    BY <1>1 DEF Wait, gpu
<1>3. S \in SUBSET Slots
    BY <1>1, WaitSlotsFact
<1>4. ASSUME NEW s \in S
      PROVE  /\ held[s] \notin QF(s[2])
             /\ ~ (s[2] = "3D" /\ Deferred /\ held[s] = batch.job_fence)
    <2>1. s \in Slots /\ s[2] \in Engines
        BY <1>3, HeldFact
    <2>2. held[s] \in QF(s[2]) => FALSE
        BY <1>2, <2>1, QueuedFact, NumbersFact DEF Completed
    <2>3. Deferred /\ held[s] = batch.job_fence => FALSE
        BY <1>1, <2>1, JobSlot
    <2>. QED
        BY <2>2, <2>3
<1>5. /\ fence' \in [Fences -> {"none", "new", "active", "marked"}]
      /\ last' \in [Engines -> Handle] /\ seqno' \in Fences /\ seqno <= seqno'
    BY <1>2, SeqnoFact DEF GpuInv, GpuType
<1>6. GpuInv'
    BY <1>2, <1>3, <1>4, <1>5, Released
<1>7. \A s \in Slots : held'[s] \in {held[s], NoFence}
    BY <1>2 DEF Hold
<1>8. CalmBut({})
    BY <1>2, <1>7, CalmFact
<1>9. Clean(p, r)'
    <2>1. WaitSlots(p, r)' = S /\ NeedsFlush(p, r, TRUE)' = NeedsFlush(p, r, TRUE)
        BY <1>1, <1>2 DEF WaitSlots, Written, Read, NeedsFlush
    <2>2. \A s \in S : held'[s] = NoFence
        BY <1>2, <1>3 DEF Hold
    <2>. QED
        BY <2>1, <2>2 DEF Clean, Completed
<1>. QED
    BY <1>2, <1>6, <1>8, <1>9

-----------------------------------------------------------------------------
(* The operation of a composite joins the batch.                           *)

Fetches(src, mask) == {t.pix : t \in {u \in {src, mask} : ~ IsSolid(u)}}

LEMMA TexturesFact ==
    ASSUME NEW src \in Operands, NEW mask \in Operands
    PROVE  LET reads == Textures(src, mask) IN
           /\ reads \in Seq(Pixmaps)
           /\ {reads[i] : i \in DOMAIN reads} = Fetches(src, mask)
           /\ Fetches(src, mask) \in SUBSET Pixmaps
<1>1. \A t \in {src, mask} : ~ IsSolid(t) => t.pix \in Pixmaps
    BY DEF Operands, Solid, Texture, IsSolid
<1>3. ASSUME NEW a \in Pixmaps, NEW c, c = <<a>> \o <<>> \/ c = <<>> \o <<a>>
      PROVE  c \in Seq(Pixmaps) /\ {c[i] : i \in DOMAIN c} = {a}
    <2>1. c \in Seq(Pixmaps) /\ Len(c) = 1 /\ c[1] = a
        <3>1. CASE c = <<a>> \o <<>>
            BY <3>1
        <3>2. CASE c = <<>> \o <<a>>
            BY <3>2
        <3>. QED
            BY <1>3, <3>1, <3>2
    <2>2. DOMAIN c = {1}
        BY <2>1
    <2>. QED
        BY <2>1, <2>2
<1>4. \A p : p \in Fetches(src, mask) <=> \/ ~ IsSolid(src) /\ p = src.pix
                                          \/ ~ IsSolid(mask) /\ p = mask.pix
    <2>. DEFINE A == {u \in {src, mask} : ~ IsSolid(u)}
    <2>1. \A t : t \in A <=> (t = src \/ t = mask) /\ ~ IsSolid(t)
        OBVIOUS
    <2>2. \A p : p \in Fetches(src, mask) <=> \E t \in A : p = t.pix
        BY DEF Fetches
    <2>. HIDE DEF A
    <2>. QED
        BY <2>1, <2>2
<1>5. Fetches(src, mask) \in SUBSET Pixmaps
    BY <1>1, <1>4
<1>6. CASE IsSolid(src) /\ IsSolid(mask)
    <2>1. Textures(src, mask) = <<>> \o <<>>
        BY <1>6 DEF Textures
    <2>2. PICK c : c = <<>> \o <<>>
        OBVIOUS
    <2>3. c \in Seq(Pixmaps) /\ DOMAIN c = {}
        BY <2>2
    <2>4. Fetches(src, mask) = {}
        BY <1>4, <1>6
    <2>. QED
        BY <1>5, <2>1, <2>2, <2>3, <2>4
<1>7. CASE IsSolid(src) /\ ~ IsSolid(mask)
    <2>1. Textures(src, mask) = <<>> \o <<mask.pix>>
        BY <1>7 DEF Textures
    <2>2. Fetches(src, mask) = {mask.pix} /\ mask.pix \in Pixmaps
        BY <1>1, <1>4, <1>7
    <2>. QED
        BY <1>3, <1>5, <2>1, <2>2
<1>8. CASE ~ IsSolid(src) /\ IsSolid(mask)
    <2>1. Textures(src, mask) = <<src.pix>> \o <<>>
        BY <1>8 DEF Textures
    <2>2. Fetches(src, mask) = {src.pix} /\ src.pix \in Pixmaps
        BY <1>1, <1>4, <1>8
    <2>. QED
        BY <1>3, <1>5, <2>1, <2>2
<1>9. CASE ~ IsSolid(src) /\ ~ IsSolid(mask)
    <2>1. Textures(src, mask) = <<src.pix>> \o <<mask.pix>>
        BY <1>9 DEF Textures
    <2>2. Fetches(src, mask) = {src.pix, mask.pix} /\ src.pix \in Pixmaps /\ mask.pix \in Pixmaps
        BY <1>1, <1>4, <1>9
    <2>3. PICK a \in Pixmaps, b \in Pixmaps : a = src.pix /\ b = mask.pix
        BY <2>2
    <2>4. PICK c : c = <<a>> \o <<b>>
        OBVIOUS
    <2>5. c \in Seq(Pixmaps) /\ Len(c) = 2 /\ c[1] = a /\ c[2] = b
        BY <2>4
    <2>6. DOMAIN c = {1, 2}
        BY <2>5
    <2>7. {c[i] : i \in DOMAIN c} = {a, b}
        BY <2>5, <2>6
    <2>8. Textures(src, mask) = c /\ Fetches(src, mask) = {a, b}
        BY <2>1, <2>2, <2>3, <2>4
    <2>. QED
        BY <1>5, <2>5, <2>7, <2>8
<1>. QED
    BY <1>6, <1>7, <1>8, <1>9

LEMMA NewUses ==
    ASSUME GpuInv, NEW d \in Pixmaps, NEW reads \in Seq(Pixmaps), NEW p \in Pixmaps
    PROVE  LET u == Uses(p, d, reads) IN
           /\ u \in Use
           /\ u.write <=> (batch.uses[p].write \/ p = d)
           /\ u.read <=> (batch.uses[p].read \/ p \in {reads[i] : i \in DOMAIN reads})
           /\ u.refcnt > 0 <=> (u.read \/ u.write)
<1>. DEFINE N == {i \in DOMAIN reads : reads[i] = p}
<1>1. PICK n : n = Cardinality(N)
    OBVIOUS
<1>2. N \subseteq 1..Len(reads) /\ Len(reads) \in Nat
    OBVIOUS
<1>3. IsFiniteSet(N)
    BY <1>2, FS_Interval, FS_Subset
<1>4. n \in Nat /\ (n = 0 <=> N = {})
    BY <1>1, <1>3, FS_CardinalityType, FS_EmptySet
<1>5. n > 0 <=> p \in {reads[i] : i \in DOMAIN reads}
    BY <1>4
<1>6. Uses(p, d, reads) =
        [refcnt |-> batch.uses[p].refcnt + n + (IF p = d THEN 1 ELSE 0),
         read   |-> batch.uses[p].read \/ n > 0,
         write  |-> batch.uses[p].write \/ p = d]
    BY <1>1 DEF Uses
<1>7. /\ batch.uses[p].refcnt \in Nat /\ batch.uses[p].read \in BOOLEAN /\ batch.uses[p].write \in BOOLEAN
      /\ batch.uses[p].refcnt > 0 <=> batch.uses[p].read \/ batch.uses[p].write
    BY BatchFact DEF Use, GpuInv, BatchInv, InBatch
<1>. HIDE DEF N
<1>8. PICK u : u = Uses(p, d, reads)
    OBVIOUS
<1>9. PICK c : c = batch.uses[p].refcnt + n + (IF p = d THEN 1 ELSE 0)
    OBVIOUS
<1>10. c \in Nat /\ (c > 0 <=> batch.uses[p].refcnt > 0 \/ n > 0 \/ p = d)
    <2>1. PICK m \in Nat : m = batch.uses[p].refcnt
        BY <1>7
    <2>2. CASE p = d
        <3>1. c = m + n + 1
            BY <1>9, <2>1, <2>2
        <3>. QED
            BY <1>4, <2>2, <3>1
    <2>3. CASE p # d
        <3>1. c = m + n + 0
            BY <1>9, <2>1, <2>3
        <3>2. c \in Nat /\ (c > 0 <=> m > 0 \/ n > 0)
            BY <1>4, <3>1
        <3>. QED
            BY <2>1, <2>3, <3>2
    <2>. QED
        BY <2>2, <2>3
<1>11. PICK b1 \in BOOLEAN : b1 = (batch.uses[p].read \/ n > 0)
    OBVIOUS
<1>12. PICK b2 \in BOOLEAN : b2 = (batch.uses[p].write \/ p = d)
    OBVIOUS
<1>13. u = [refcnt |-> c, read |-> b1, write |-> b2]
    BY <1>6, <1>8, <1>9, <1>11, <1>12
<1>14. u \in Use /\ u.refcnt = c /\ u.read = b1 /\ u.write = b2
    BY <1>10, <1>13 DEF Use
<1>. QED
    BY <1>5, <1>7, <1>8, <1>10, <1>11, <1>12, <1>14

\* What a job draws and fetches that is made of two.
LEMMA JoinedFact ==
    ASSUME NEW a \in Seq(Operations), NEW b \in Seq(Operations)
    PROVE  /\ a \o b \in Seq(Operations)
           /\ Writes(a \o b) = Writes(a) \cup Writes(b)
           /\ Reads(a \o b) = Reads(a) \cup Reads(b)
<1>1. /\ a \o b \in Seq(Operations) /\ Len(a) \in Nat /\ Len(b) \in Nat
      /\ Len(a \o b) = Len(a) + Len(b)
      /\ \A i \in 1..(Len(a) + Len(b)) :
            (a \o b)[i] = IF i <= Len(a) THEN a[i] ELSE b[i - Len(a)]
    OBVIOUS
<1>2. PICK c : c = a \o b
    OBVIOUS
<1>3. \A i \in DOMAIN c : (\E j \in DOMAIN a : c[i] = a[j]) \/ (\E j \in DOMAIN b : c[i] = b[j])
    BY <1>1, <1>2
<1>4. \A j \in DOMAIN a : \E i \in DOMAIN c : c[i] = a[j]
    BY <1>1, <1>2
<1>5. \A j \in DOMAIN b : \E i \in DOMAIN c : c[i] = b[j]
    <2>1. \A j \in DOMAIN b : j + Len(a) \in DOMAIN c /\ c[j + Len(a)] = b[j]
        BY <1>1, <1>2
    <2>. QED
        BY <2>1
<1>6. Writes(c) = Writes(a) \cup Writes(b)
    BY <1>3, <1>4, <1>5 DEF Writes
<1>7. Reads(c) = Reads(a) \cup Reads(b)
    BY <1>3, <1>4, <1>5 DEF Reads
<1>. QED
    BY <1>1, <1>2, <1>6, <1>7

LEMMA AppendStep ==
    ASSUME GpuInv, AppendJob, NEW d \in Pixmaps, NEW src \in Operands, NEW mask \in Operands,
           req.want.dst = d, me.src = src, req.mask = mask, req.src \in Operands,
           req.src.pix = src.pix,
           req.ops \in Seq(Operations), req.op # "Copy",
           \A i \in DOMAIN req.ops : /\ req.ops[i].op = req.op /\ req.ops[i].dst = d
                                     /\ req.ops[i].mask = mask
    PROVE  /\ GpuInv'
           /\ \A p \in Pixmaps : InBatch(p)' => InBatch(p) \/ p = d
                                    \/ \E t \in {src, mask} : ~ IsSolid(t) /\ p = t.pix
<1>. DEFINE more == [i \in DOMAIN req.ops |-> [req.ops[i] EXCEPT !.src = me.src]]
            R == Fetches(src, mask)
            slots == {<<d, "3D", "write">>} \cup {<<p, "3D", "read">> : p \in R}
            reads0 == Textures(me.src, req.mask)
            x0 == ExplicitFence("2D", req.want.dst, {reads0[i] : i \in DOMAIN reads0})
            later0 == Latest({batch.explicit_fence, x0})
            new0 == batch.job_fence = NoFence
            f0 == IF new0 THEN seqno ELSE batch.job_fence
            ops0 == batch.ops \o more
            slots0 == {<<req.want.dst, "3D", "write">>} \cup
                      {<<t.pix, "3D", "read">> :
                          t \in {u \in {req.src, req.mask} : ~ IsSolid(u)}}
<1>1. /\ new0 => seqno < MaxFences
      /\ seqno' = IF new0 THEN seqno + 1 ELSE seqno
      /\ IF TooMany(reads0)
         THEN \E out \in {f0, NoFence} :
              /\ Submit("3D", f0, ops0, later0, out)
              /\ IF out = NoFence THEN held' = held ELSE Hold(slots0, f0)
              /\ batch' = NoBatch
         ELSE /\ batch' = [num_jobs |-> batch.num_jobs + 1, ops |-> ops0,
                           uses |-> [p \in Pixmaps |-> Uses(p, req.want.dst, reads0)],
                           explicit_fence |-> later0, job_fence |-> f0,
                           cur |-> req.want.dst]
              /\ Hold(slots0, f0)
              /\ fence' = IF new0 THEN [fence EXCEPT ![f0] = "new"] ELSE fence
              /\ last' = last /\ queue' = queue
      /\ signalled' = signalled
    BY DEF AppendJob
<1>2. PICK reads : reads = reads0
    OBVIOUS
<1>3. reads \in Seq(Pixmaps) /\ R = {reads[i] : i \in DOMAIN reads} /\ R \in SUBSET Pixmaps
    BY <1>2, TexturesFact
<1>4. PICK x : x = x0
    OBVIOUS
<1>5. x = ExplicitFence("2D", d, R)
    BY <1>2, <1>3, <1>4
<1>6. PICK later : later = later0
    OBVIOUS
<1>7. PICK f : f = f0
    OBVIOUS
<1>8. PICK ops : ops = ops0
    OBVIOUS
<1>9. slots0 = slots
    <2>1. IsSolid(req.src) <=> IsSolid(src)
        BY DEF IsSolid
    <2>2. {<<t.pix, "3D", "read">> : t \in {u \in {req.src, req.mask} : ~ IsSolid(u)}}
             = {<<p, "3D", "read">> : p \in R}
        BY <2>1 DEF Fetches
    <2>. QED
        BY <2>2
<1>a. new0 <=> ~ Deferred
    BY <1>7, BatchFact, NoBatchFact, NumbersFact
<1>. HIDE DEF slots0, reads0, ops0, later0, x0, new0, f0
<1>b. f = IF Deferred THEN batch.job_fence ELSE seqno
    BY <1>7, <1>a DEF f0, new0
<1>c. later = Latest({batch.explicit_fence, x})
    BY <1>4, <1>6 DEF later0
<1>d. ops = batch.ops \o more
    BY <1>8 DEF ops0
<1>. HIDE DEF slots, R, more
<1>e. /\ ~ Deferred => seqno < MaxFences
      /\ seqno' = IF ~ Deferred THEN seqno + 1 ELSE seqno
      /\ signalled' = signalled
    BY <1>1, <1>a
<1>f. TooMany(reads) => \E out \in {f, NoFence} :
              /\ Submit("3D", f, ops, later, out)
              /\ IF out = NoFence THEN held' = held ELSE Hold(slots, f)
              /\ batch' = NoBatch
    BY <1>1, <1>2, <1>6, <1>7, <1>8, <1>9
<1>g. ~ TooMany(reads) =>
              /\ batch' = [num_jobs |-> batch.num_jobs + 1, ops |-> ops,
                           uses |-> [p \in Pixmaps |-> Uses(p, d, reads)],
                           explicit_fence |-> later, job_fence |-> f,
                           cur |-> d]
              /\ Hold(slots, f)
              /\ fence' = IF ~ Deferred THEN [fence EXCEPT ![f] = "new"] ELSE fence
              /\ last' = last /\ queue' = queue
    BY <1>1, <1>2, <1>6, <1>7, <1>8, <1>9, <1>a
<1>10. /\ slots \in SUBSET Slots /\ \A s \in slots : s[2] = "3D"
       /\ <<d, "3D", "write">> \in slots /\ \A p \in R : <<p, "3D", "read">> \in slots
    <2>1. \A s \in slots : \E p \in R \cup {d} : \E k \in {"write", "read"} : s = <<p, "3D", k>>
        BY DEF slots
    <2>2. ASSUME NEW s \in slots PROVE s \in Slots /\ s[2] = "3D"
        <3>1. PICK p \in R \cup {d}, k \in {"write", "read"} : s = <<p, "3D", k>>
            BY <2>1
        <3>2. p \in Pixmaps
            BY <1>3
        <3>. QED
            BY <3>1, <3>2, SlotsFact, EnginesFact
    <2>. QED
        BY <2>2 DEF slots
<1>11. more \in Seq(Operations) /\ Writes(more) \subseteq {d} /\ Reads(more) \subseteq R \cup {NoPixmap}
    <2>1. \A i \in DOMAIN req.ops : more[i] = [req.ops[i] EXCEPT !.src = src]
        BY DEF more
    <2>2. ASSUME NEW o \in Operations, o.op # "Copy"
          PROVE  /\ [o EXCEPT !.src = src] \in Operations
                 /\ [o EXCEPT !.src = src].dst = o.dst /\ [o EXCEPT !.src = src].src = src
                 /\ [o EXCEPT !.src = src].mask = o.mask
        BY <2>2 DEF Operations
    <2>3. \A i \in DOMAIN req.ops :
              more[i] \in Operations /\ more[i].dst = d /\ more[i].src = src /\ more[i].mask = mask
        <3>1. ASSUME NEW i \in DOMAIN req.ops
              PROVE  more[i] \in Operations /\ more[i].dst = d /\ more[i].src = src /\ more[i].mask = mask
            <4>1. PICK o : o = req.ops[i]
                OBVIOUS
            <4>2. o \in Operations /\ o.op # "Copy" /\ o.dst = d /\ o.mask = mask
                BY <4>1
            <4>3. more[i] = [o EXCEPT !.src = src]
                BY <2>1, <4>1
            <4>. QED
                BY <2>2, <4>2, <4>3
        <3>. QED
            BY <3>1
    <2>4. more \in Seq(Operations) /\ DOMAIN more = DOMAIN req.ops
        <3>1. DOMAIN req.ops = 1..Len(req.ops) /\ Len(req.ops) \in Nat
            OBVIOUS
        <3>2. more = [i \in 1..Len(req.ops) |-> more[i]]
            BY <3>1 DEF more
        <3>3. \A i \in 1..Len(req.ops) : more[i] \in Operations
            BY <2>3, <3>1
        <3>4. more \in [1..Len(req.ops) -> Operations]
            BY <3>2, <3>3
        <3>. QED
            BY <3>1, <3>4
    <2>5. Writes(more) \subseteq {d}
        BY <2>3, <2>4 DEF Writes
    <2>6. \A t \in {src, mask} : t.pix \in R \cup {NoPixmap}
        BY DEF R, IsSolid, Fetches
    <2>7. Reads(more) \subseteq R \cup {NoPixmap}
        BY <2>3, <2>4, <2>6 DEF Reads
    <2>. QED
        BY <2>4, <2>5, <2>7
<1>12. /\ ops \in Seq(Operations) /\ Writes(ops) = Writes(batch.ops) \cup Writes(more)
       /\ Reads(ops) = Reads(batch.ops) \cup Reads(more)
    BY <1>d, <1>11, BatchFact, JoinedFact
<1>13. /\ x \in Handle /\ x \in Nat /\ x < seqno
       /\ x = NoFence \/ x \in QF("2D") \/ Past(x, "2D")
       /\ \A a \in Queued("2D") : Conflict(a.ops, more) => x \in QF("2D") /\ x >= a.fence
    BY <1>3, <1>5, <1>11, ExplicitFact, EnginesFact
<1>14. /\ batch.explicit_fence \in Handle /\ batch.explicit_fence \in Nat /\ batch.explicit_fence < seqno
       /\ \/ batch.explicit_fence = NoFence \/ batch.explicit_fence \in QF("2D")
          \/ Past(batch.explicit_fence, "2D")
       /\ \A a \in Queued("2D") : Conflict(a.ops, batch.ops) =>
             batch.explicit_fence \in QF("2D") /\ batch.explicit_fence >= a.fence
    BY BatchFact DEF GpuInv, HeldInv, OrderInv
<1>15. later \in {batch.explicit_fence, x} /\ later >= x /\ later >= batch.explicit_fence
    <2>1. {batch.explicit_fence, x} \subseteq Handle /\ NoFence <= x /\ NoFence <= batch.explicit_fence
        BY <1>13, <1>14, NumbersFact
    <2>2. \A g \in {batch.explicit_fence, x} : g <= later
        BY <1>c, <2>1, LatestFact
    <2>3. later = NoFence \/ later \in {batch.explicit_fence, x}
        BY <1>c, <2>1, LatestFact
    <2>. QED
        BY <1>13, <1>14, <2>1, <2>2, <2>3, NumbersFact
<1>16. /\ later \in Handle /\ later \in Nat /\ later < seqno
       /\ later = NoFence \/ later \in QF("2D") \/ Past(later, "2D")
    BY <1>13, <1>14, <1>15
<1>17. \A g \in QF("2D") : later >= g => later \in QF("2D")
    <2>1. \A g \in QF("2D") : g \in Nat /\ g # NoFence
        BY QueuedFact, NumbersFact, EnginesFact
    <2>2. Past(later, "2D") => \A g \in QF("2D") : later < g
        BY DEF Past
    <2>. QED
        BY <1>16, <2>1, <2>2, NumbersFact
<1>18. ASSUME NEW a \in Queued("2D"), Conflict(a.ops, ops)
       PROVE  later \in QF("2D") /\ later >= a.fence
    <2>1. Conflict(a.ops, batch.ops) \/ Conflict(a.ops, more)
        BY <1>12, <1>18 DEF Conflict
    <2>2. a.fence \in QF("2D") /\ a.fence \in Nat
        BY JobsFact, QueuedFact, EnginesFact
    <2>3. later >= a.fence
        BY <1>13, <1>14, <1>15, <1>16, <2>1, <2>2
    <2>. QED
        BY <1>17, <2>2, <2>3
<1>19. f \in Fences /\ f \in Nat /\ seqno \in Fences /\ seqno \in Nat /\ seqno' \in Fences
       /\ f < seqno' /\ seqno <= seqno'
    BY <1>b, <1>e, SeqnoFact, BatchFact, NumbersFact, RenderAssumption DEF Fences
<1>20. /\ \A p \in Writes(batch.ops) : p \in Pixmaps /\ batch.uses[p].write
       /\ \A p \in Reads(batch.ops) \ {NoPixmap} : p \in Pixmaps /\ batch.uses[p].read
    BY BatchFact, OpsFact DEF GpuInv, BatchInv
<1>21. /\ fence \in [Fences -> {"none", "new", "active", "marked"}]
       /\ held \in [Slots -> Handle] /\ last \in [Engines -> Handle]
    BY DEF GpuInv, GpuType
<1>22. CASE TooMany(reads)
    <2>1. PICK out \in {f, NoFence} :
              /\ Submit("3D", f, ops, later, out)
              /\ IF out = NoFence THEN held' = held ELSE Hold(slots, f)
              /\ batch' = NoBatch
        BY <1>f, <1>22
    <2>2. f # NoFence
        BY <1>19, NumbersFact
    <2>3. ASSUME out = f,
                 queue' = [queue EXCEPT !["3D"] =
                    Append(@, [ops |-> ops, wait |-> KernelFence(later), fence |-> f])],
                 fence' = [fence EXCEPT ![f] = "active"], last' = [last EXCEPT !["3D"] = f]
          PROVE  GpuInv'
        <3>1. ~ Deferred => Writes(batch.ops) = {} /\ Reads(batch.ops) = {}
            BY BatchFact, NoBatchFact
        <3>2. Deferred => f = batch.job_fence
            BY <1>b
        <3>3. \A p \in Writes(ops) : <<p, "3D", "write">> \in slots
                                  \/ (Deferred /\ held[<<p, "3D", "write">>] = f)
            <4>1. \A p \in Writes(batch.ops) : Deferred /\ held[<<p, "3D", "write">>] = f
                BY <1>20, <3>1, <3>2 DEF GpuInv, HeldInv
            <4>. QED
                BY <1>10, <1>11, <1>12, <4>1
        <3>4. \A p \in Reads(ops) \ {NoPixmap} : <<p, "3D", "read">> \in slots
                                  \/ (Deferred /\ held[<<p, "3D", "read">>] = f)
            <4>1. \A p \in Reads(batch.ops) \ {NoPixmap} : Deferred /\ held[<<p, "3D", "read">>] = f
                BY <1>20, <3>1, <3>2 DEF GpuInv, HeldInv
            <4>. QED
                BY <1>10, <1>11, <1>12, <4>1
        <3>5. ~ Deferred => f = seqno
            BY <1>b
        <3>6. Hold(slots, f)
            BY <2>1, <2>2, <2>3
        <3>. QED
            BY <1>e, <1>10, <1>12, <1>16, <1>18, <1>19, <2>1, <2>3, <3>2, <3>3, <3>4, <3>5, <3>6, Submit3D
    <2>4. ASSUME out = NoFence, Completed(last["3D"]), fence' = [fence EXCEPT ![f] = "marked"],
                 last' = [last EXCEPT !["3D"] = NoFence], queue' = queue
          PROVE  GpuInv'
        <3>1. fence' = [g \in Fences |-> IF g \in {f} THEN "marked" ELSE fence[g]]
            BY <1>19, <1>21, <2>4
        <3>2. last' \in [Engines -> Handle] /\ last'["2D"] = last["2D"] /\ last'["3D"] \in {NoFence, last["3D"]}
            BY <1>21, <2>4, NumbersFact, EnginesFact
        <3>3. {f} \in SUBSET Handle /\ (Deferred => batch.job_fence \in {f})
            BY <1>b, <1>19, NumbersFact
        <3>4. {f} \cap QF("2D") = {}
            BY <1>b, <1>19, BatchFact, QueuedFact, EnginesFact
        <3>. QED
            BY <1>e, <1>19, <2>1, <2>4, <3>1, <3>2, <3>3, <3>4, Dropped
    <2>5. GpuInv'
        BY <2>1, <2>2, <2>3, <2>4 DEF Submit
    <2>6. \A p \in Pixmaps : ~ InBatch(p)'
        BY <2>1, NoBatchFact DEF InBatch
    <2>. QED
        BY <2>5, <2>6
<1>23. CASE ~ TooMany(reads)
    <2>. DEFINE U == [p \in Pixmaps |-> Uses(p, d, reads)]
    <2>1. /\ batch' = [num_jobs |-> batch.num_jobs + 1, ops |-> ops, uses |-> U,
                       explicit_fence |-> later, job_fence |-> f, cur |-> d]
          /\ Hold(slots, f)
          /\ fence' = IF ~ Deferred THEN [fence EXCEPT ![f] = "new"] ELSE fence
          /\ last' = last /\ queue' = queue
        BY <1>g, <1>23
    <2>2. \A p \in Pixmaps : /\ U[p] \in Use
                             /\ U[p].write <=> (batch.uses[p].write \/ p = d)
                             /\ U[p].read <=> (batch.uses[p].read \/ p \in R)
                             /\ U[p].refcnt > 0 <=> (U[p].read \/ U[p].write)
        BY <1>3, NewUses
    <2>3. U \in [Pixmaps -> Use]
        BY <2>2
    <2>. HIDE DEF U
    <2>4. \A p \in Writes(ops) : U[p].write
        BY <1>11, <1>12, <1>20, <2>2
    <2>5. \A p \in Reads(ops) \ {NoPixmap} : U[p].read
        BY <1>3, <1>11, <1>12, <1>20, <2>2
    <2>6. /\ Deferred => f = batch.job_fence /\ seqno' = seqno /\ fence' = fence
          /\ ~ Deferred => f = seqno /\ seqno' = seqno + 1 /\ fence' = [fence EXCEPT ![f] = "new"]
        BY <1>b, <1>e, <2>1
    <2>7. Hold({<<d, "3D", "write">>} \cup {<<p, "3D", "read">> : p \in R}, f)
        BY <2>1 DEF slots
    <2>8. \A p \in Pixmaps : /\ U[p].write <=> (batch.uses[p].write \/ p = d)
                             /\ U[p].read <=> (batch.uses[p].read \/ p \in R)
                             /\ U[p].refcnt > 0 <=> (U[p].read \/ U[p].write)
        BY <2>2
    <2>9. GpuInv'
        <3>1. \A a \in Queued("2D") : Conflict(a.ops, ops) => later \in QF("2D") /\ later >= a.fence
            BY <1>18
        <3>2. /\ f \in Fences /\ seqno' \in Fences /\ R \in SUBSET Pixmaps /\ ops \in Seq(Operations)
              /\ later \in Handle /\ later < seqno
              /\ last' = last /\ queue' = queue /\ signalled' = signalled
            BY <1>3, <1>e, <1>12, <1>16, <1>19, <2>1
        <3>3. later = NoFence \/ later \in QF("2D") \/ Past(later, "2D")
            BY <1>16
        <3>4. batch' = [num_jobs |-> batch.num_jobs + 1, ops |-> ops, uses |-> U,
                       explicit_fence |-> later, job_fence |-> f, cur |-> d]
            BY <2>1
        <3>. QED
            BY <2>3, <2>4, <2>5, <2>6, <2>7, <2>8, <3>1, <3>2, <3>3, <3>4, Appended
    <2>10. \A p \in Pixmaps : InBatch(p)' => InBatch(p) \/ p = d \/ p \in R
        <3>1. \A p \in Pixmaps : InBatch(p)' <=> U[p].refcnt > 0
            BY <2>1 DEF InBatch
        <3>2. \A p \in Pixmaps : InBatch(p) <=> batch.uses[p].read \/ batch.uses[p].write
            BY DEF GpuInv, BatchInv
        <3>. QED
            BY <2>8, <3>1, <3>2
    <2>. QED
        BY <2>9, <2>10 DEF R, Fetches
<1>. QED
    BY <1>22, <1>23

-----------------------------------------------------------------------------
(* The agenda.                                                             *)

LEMMA ConcatFact ==
    ASSUME NEW S, NEW s \in Seq(S), NEW t \in Seq(S)
    PROVE  /\ s \o t \in Seq(S) /\ Len(s) \in Nat /\ Len(t) \in Nat
           /\ Len(s \o t) = Len(s) + Len(t)
           /\ DOMAIN (s \o t) = 1..(Len(s) + Len(t))
           /\ \A i \in 1..(Len(s) + Len(t)) :
                 (s \o t)[i] = IF i <= Len(s) THEN s[i] ELSE t[i - Len(s)]
OBVIOUS

LEMMA CallsFact ==
    ASSUME NEW c \in Calls
    PROVE  /\ c.call \in {"fill", "flush", "submit", "wait", "poke"} => c.pix \in Pixmaps
           /\ c.call = "flush" => c.reads \in BOOLEAN /\ c.writes = TRUE
           /\ c.call = "submit" => c.ops \in Seq(Operations) /\ c.srcs \in SUBSET Pixmaps
           /\ c.call = "append" => c.src \in Operands
           /\ c.call = "look" => c.pix \in Pixmaps
           /\ c.call \in {"rect", "poke"} => c.cells \subseteq {"s", "l"}
           /\ c.call = "poke" => c.colour \in Colours
BY DEF Calls

LEMMA TailCalls ==
    ASSUME NEW t \in Seq(Calls), t # <<>>, NEW u, u = Tail(t)
    PROVE  /\ u \in Seq(Calls)
           /\ Len(t) \in Nat /\ Len(t) > 0 /\ DOMAIN t = 1..Len(t) /\ 1 \in DOMAIN t
           /\ DOMAIN u = 1..(Len(t) - 1) /\ Len(u) = Len(t) - 1
           /\ \A i \in DOMAIN u : i \in Nat /\ i >= 1 /\ i + 1 \in DOMAIN t /\ u[i] = t[i + 1]
           /\ \A i \in DOMAIN t : t[i] \in Calls
           /\ Head(t) = t[1]
           /\ u = <<>> <=> Len(t) = 1
<1>1. /\ Len(t) \in Nat /\ Len(t) > 0 /\ DOMAIN t = 1..Len(t) /\ Head(t) = t[1]
      /\ \A i \in DOMAIN t : t[i] \in Calls
    OBVIOUS
<1>2. u \in Seq(Calls) /\ Len(u) = Len(t) - 1 /\ \A i \in 1..(Len(t) - 1) : u[i] = t[i + 1]
    BY <1>1
<1>3. DOMAIN u = 1..(Len(t) - 1)
    BY <1>1, <1>2
<1>4. u = <<>> <=> Len(t) = 1
    <2>1. u = <<>> => Len(u) = 0
        OBVIOUS
    <2>2. u \in Seq(Calls) /\ Len(u) = 0 => u = <<>>
        OBVIOUS
    <2>3. Len(u) = Len(t) - 1 /\ Len(t) \in Nat
        BY <1>1, <1>2
    <2>. QED
        BY <1>2, <2>1, <2>2, <2>3
<1>. QED
    BY <1>1, <1>2, <1>3, <1>4

LEMMA KindsFact ==
    ASSUME NEW k
    PROVE  /\ Final(k) \cap Middle # {} => k \in Filling \cup {"copy"}
           /\ Final(k) \cap Middle \subseteq {"submit", "poke"}
           /\ k \in Filling => Final(k) = {"submit", "rect", "poke"}
           /\ k = "copy" => Final(k) = {"submit"}
           /\ k = "composite" => Final(k) = {"append"}
           /\ k = "soft" => Final(k) = {"software"}
           /\ k = "look" => Final(k) = {"look"}
           /\ k \in Filling <=> k = "solid" \/ k = "copyfill"
           /\ \A c : c \in Middle <=> c \in {"fill", "flush", "submit", "wait", "poke"}
BY DEF Final, Middle, Filling

\* What the agenda says of the call at its head.
LEMMA HeadCall ==
    ASSUME Agenda, todo # <<>>
    PROVE  /\ me = todo[1] /\ me \in Calls
           /\ todo \in Seq(Calls) /\ Len(todo) \in Nat /\ Len(todo) > 0
           /\ DOMAIN todo = 1..Len(todo) /\ 1 \in DOMAIN todo
           /\ IF Len(todo) = 1 THEN me.call \in Final(req.kind) ELSE me.call \in Middle
           /\ req # Idle /\ req \in Blit \cup Composite \cup Access2
<1>1. todo \in Seq(Calls)
    BY DEF Agenda, TodoType
<1>2. /\ Len(todo) \in Nat /\ Len(todo) > 0 /\ DOMAIN todo = 1..Len(todo) /\ 1 \in DOMAIN todo
      /\ \A i \in DOMAIN todo : todo[i] \in Calls
      /\ Head(todo) = todo[1]
    BY <1>1, TailCalls
<1>3. IF 1 < Len(todo) THEN todo[1].call \in Middle ELSE todo[1].call \in Final(req.kind)
    BY <1>2 DEF Agenda, TodoType
<1>4. req # Idle
    BY DEF Agenda, TodoType
<1>5. req \in Blit \cup Composite \cup Access2
    BY <1>4 DEF Agenda, ReqType
<1>. QED
    BY <1>1, <1>2, <1>3, <1>4, <1>5 DEF me

LEMMA ReqKept ==
    ASSUME req' = req
    PROVE  /\ ReqType => ReqType'
           /\ ReqInv => ReqInv'
           /\ Accessed' = Accessed /\ Fetched' = Fetched
<1>1. ReqType => ReqType'
    BY DEF ReqType, Painting
<1>2. Fetched' = Fetched
    BY DEF Fetched
<1>3. ReqInv => ReqInv'
    BY <1>2 DEF ReqInv, CopySources
<1>4. Accessed' = Accessed
    BY DEF Accessed
<1>. QED
    BY <1>1, <1>2, <1>3, <1>4

LEMMA AccessedFact ==
    ASSUME Agenda, req # Idle
    PROVE  \A a \in Accessed : a = <<a[1], a[2]>> /\ a[1] \in Pixmaps /\ a[2] \in BOOLEAN
<1>1. req.want \in Requests
    BY DEF Agenda, ReqType, Blit, Composite, Access2
<1>2. /\ req.want.dst \in Pixmaps
      /\ \A t \in {req.want.src, req.want.mask} : ~ IsSolid(t) => t.pix \in Pixmaps
    BY <1>1, RequestsAssumption DEF Operands, Solid, Texture, IsSolid
<1>3. \A a \in Accessed : \E p \in Pixmaps, r \in BOOLEAN : a = <<p, r>>
    <2>1. CASE req.kind = "look"
        BY <1>2, <2>1 DEF Accessed
    <2>2. CASE req.kind = "soft"
        <3>1. Accessed = {<<req.want.dst, TRUE>>} \cup
                {<<o.pix, FALSE>> : o \in {v \in {req.want.src, req.want.mask} : ~ IsSolid(v)}}
            BY <2>2 DEF Accessed
        <3>2. \A o \in {v \in {req.want.src, req.want.mask} : ~ IsSolid(v)} : o.pix \in Pixmaps
            BY <1>2
        <3>. QED
            BY <1>2, <3>1, <3>2
    <2>3. CASE req.kind \notin {"soft", "look"}
        BY <2>3 DEF Accessed
    <2>. QED
        BY <2>1, <2>2, <2>3
<1>4. \A p, r : <<p, r>>[1] = p /\ <<p, r>>[2] = r
    OBVIOUS
<1>. QED
    BY <1>3, <1>4

\* A call is made that adds none.
LEMMA PopStep ==
    ASSUME GpuInv, GpuInv', Agenda, todo # <<>>, todo' = Tail(todo), req' = req,
           me.call \in Middle, me.call = "submit" => Len(todo) > 1,
           \A p \in Pixmaps : /\ batch'.uses[p].write => batch.uses[p].write
                              /\ batch'.uses[p].read => batch.uses[p].read,
           \A p \in Pixmaps : \A r \in BOOLEAN :
              Clean(p, r) /\ ~ (me.call = "submit" /\ me.pix = p) => Clean(p, r)',
           req.kind = "composite" => batch'.cur = batch.cur,
           \A p \in Pixmaps : fill'[p] \in {fill[p], NoFill},
           me.call = "fill" => fill'[me.pix] = NoFill,
           \A p \in Pixmaps : \A r \in BOOLEAN :
              me.call = "flush" /\ me.pix = p /\ me.reads = r => ~ NeedsFlush(p, r, TRUE)',
           \A p \in Pixmaps : me.call = "wait" /\ me.pix = p =>
              \E r \in BOOLEAN : me.slots = WaitSlots(p, r) /\ Clean(p, r)'
    PROVE  Agenda'
<1>. DEFINE t == todo
            u == todo'
<1>1. /\ me = todo[1] /\ me \in Calls /\ todo \in Seq(Calls)
      /\ IF Len(todo) = 1 THEN me.call \in Final(req.kind) ELSE me.call \in Middle
      /\ req # Idle /\ req' # Idle
    BY HeadCall
<1>2. PICK n : n = Len(todo)
    OBVIOUS
<1>3. /\ todo' \in Seq(Calls) /\ n \in Nat /\ n > 0 /\ DOMAIN todo = 1..n /\ 1 \in DOMAIN todo
      /\ DOMAIN todo' = 1..(n - 1) /\ Len(todo') = n - 1
      /\ \A i \in DOMAIN todo' : i \in Nat /\ i >= 1 /\ i < n /\ i + 1 \in DOMAIN todo
                                /\ todo'[i] = todo[i + 1]
      /\ \A i \in DOMAIN todo : todo[i] \in Calls
      /\ todo' = <<>> <=> n = 1
    BY <1>1, <1>2, TailCalls
<1>4. n = 1 => req.kind \in Filling /\ me.call = "poke"
    <2>1. n = 1 => me.call \in Final(req.kind) \cap Middle /\ me.call # "submit"
        BY <1>1, <1>2
    <2>2. n = 1 => req.kind \in Filling \cup {"copy"}
        BY <2>1, KindsFact
    <2>. QED
        BY <2>1, <2>2, KindsFact
<1>5. me.call \in {"fill", "flush", "submit", "wait", "poke"} /\ me.pix \in Pixmaps
    BY <1>1, KindsFact, CallsFact
<1>6. ASSUME NEW p \in Pixmaps, NEW r \in BOOLEAN, NEW i \in DOMAIN todo', Flushed(i + 1, p, r)
      PROVE  Flushed(i, p, r)'
    <2>1. CASE ~ NeedsFlush(p, r, TRUE)
        <3>1. ~ NeedsFlush(p, r, TRUE)'
            BY <2>1 DEF NeedsFlush
        <3>. QED
            BY <3>1 DEF Flushed
    <2>2. ASSUME NEW j \in 1..i, todo[j].call = "flush", todo[j].pix = p, r => todo[j].reads
          PROVE  Flushed(i, p, r)'
        <3>1. CASE j = 1
            <4>1. me.call = "flush" /\ me.pix = p /\ (r => me.reads)
                BY <1>1, <2>2, <3>1
            <4>2. PICK b \in BOOLEAN : b = me.reads
                BY <1>1, <4>1, CallsFact
            <4>3. ~ NeedsFlush(p, b, TRUE)' /\ (r => b)
                BY <4>1, <4>2
            <4>4. ~ NeedsFlush(p, r, TRUE)'
                BY <4>3 DEF NeedsFlush
            <4>. QED
                BY <4>4 DEF Flushed
        <3>2. CASE j # 1
            <4>1. j - 1 \in 1..(i - 1) /\ j - 1 \in DOMAIN todo' /\ (j - 1) + 1 = j
                BY <1>3, <2>2, <3>2
            <4>2. todo'[j - 1] = todo[j]
                BY <1>3, <4>1
            <4>. QED
                BY <2>2, <4>1, <4>2 DEF Flushed
        <3>. QED
            BY <3>1, <3>2
    <2>3. (i + 1) - 1 = i
        BY <1>3
    <2>. QED
        BY <1>6, <2>1, <2>2, <2>3 DEF Flushed
<1>7. ASSUME NEW p \in Pixmaps, NEW i \in DOMAIN todo', Filled(i + 1, p)
      PROVE  Filled(i, p)'
    <2>1. CASE fill[p] = NoFill
        BY <2>1 DEF Filled
    <2>2. ASSUME NEW j \in 1..i, todo[j].call = "fill", todo[j].pix = p
          PROVE  Filled(i, p)'
        <3>1. CASE j = 1
            BY <1>1, <2>2, <3>1 DEF Filled
        <3>2. CASE j # 1
            <4>1. j - 1 \in 1..(i - 1) /\ j - 1 \in DOMAIN todo' /\ (j - 1) + 1 = j
                BY <1>3, <2>2, <3>2
            <4>2. todo'[j - 1] = todo[j]
                BY <1>3, <4>1
            <4>. QED
                BY <2>2, <4>1, <4>2 DEF Filled
        <3>. QED
            BY <3>1, <3>2
    <2>. QED
        BY <1>3, <1>7, <2>1, <2>2 DEF Filled
<1>8. \A p, r : (WaitSlots(p, r))' = WaitSlots(p, r)
    BY DEF WaitSlots, Written, Read
<1>9. ReqType' /\ ReqInv' /\ Accessed' = Accessed /\ Fetched' = Fetched
    BY ReqKept DEF Agenda
<1>10. TodoType'
    <2>1. \A i \in DOMAIN todo' :
             IF i < Len(todo') THEN todo'[i].call \in Middle ELSE todo'[i].call \in Final(req'.kind)
        <3>1. \A i \in DOMAIN todo :
                 IF i < n THEN todo[i].call \in Middle ELSE todo[i].call \in Final(req.kind)
            BY <1>2 DEF Agenda, TodoType
        <3>2. ASSUME NEW i \in DOMAIN todo'
              PROVE  IF i < Len(todo') THEN todo'[i].call \in Middle ELSE todo'[i].call \in Final(req'.kind)
            <4>1. i + 1 \in DOMAIN todo /\ todo'[i] = todo[i + 1] /\ (i < Len(todo') <=> i + 1 < n)
                BY <1>3
            <4>. QED
                BY <3>1, <4>1
        <3>. QED
            BY <3>2
    <2>2. req'.kind \in {"soft", "look"} => todo' # <<>>
        BY <1>3, <1>4 DEF Filling
    <2>3. ASSUME NEW i \in DOMAIN todo'
          PROVE  /\ todo'[i].call = "rect" => todo'[i].cells \subseteq Cells(req'.want.dst)
                 /\ todo'[i].call = "poke" => todo'[i].cells \subseteq Cells(todo'[i].pix)
        <3>1. i + 1 \in DOMAIN todo /\ todo'[i] = todo[i + 1]
            BY <1>3
        <3>. QED
            BY <3>1 DEF Agenda, TodoType
    <2>. QED
        BY <1>1, <1>3, <2>1, <2>2, <2>3 DEF TodoType
<1>11. FlushAgenda'
    <2>1. ASSUME NEW i \in DOMAIN todo', todo'[i].call = "flush", req'.kind = "composite"
          PROVE  ~ (InBatch(todo[i].pix))'
        <3>1. PICK p : p = todo'[i].pix
            OBVIOUS
        <3>2. i + 1 \in DOMAIN todo /\ todo'[i] = todo[i + 1] /\ todo'[i] \in Calls
            BY <1>3
        <3>3. p \in Pixmaps /\ ~ InBatch(p)
            BY <2>1, <3>1, <3>2, CallsFact DEF Agenda, FlushAgenda
        <3>4. /\ InBatch(p) <=> batch.uses[p].read \/ batch.uses[p].write
              /\ InBatch(p)' <=> batch'.uses[p].read \/ batch'.uses[p].write
            BY <3>3 DEF GpuInv, BatchInv
        <3>5. ~ InBatch(p)'
            BY <3>3, <3>4
        <3>. QED
            BY <3>1, <3>5 DEF InBatch
    <2>. QED
        BY <2>1 DEF FlushAgenda
<1>12. SubmitAgenda'
    <2>1. ASSUME NEW i \in DOMAIN todo', todo'[i].call = "submit"
          PROVE  /\ OpsOf(todo'[i].ops, todo'[i].pix, todo'[i].srcs)
                 /\ (Flushed(i, todo[i].pix, TRUE))'
                 /\ \A p \in todo'[i].srcs : (Flushed(i, p, FALSE))'
                 /\ i = Len(todo') \/ (i <= 2 /\ todo'[i].srcs = {})
                 /\ i = 2 /\ i # Len(todo') => todo'[1].call = "flush"
        <3>1. PICK c : c = todo'[i]
            OBVIOUS
        <3>2. i + 1 \in DOMAIN todo /\ c = todo[i + 1] /\ c \in Calls /\ i >= 1 /\ i \in Nat
            BY <1>3, <3>1
        <3>3. c.pix \in Pixmaps /\ c.srcs \in SUBSET Pixmaps
            BY <2>1, <3>1, <3>2, CallsFact
        <3>4. /\ OpsOf(c.ops, c.pix, c.srcs)
              /\ Flushed(i + 1, c.pix, TRUE)
              /\ \A p \in c.srcs : Flushed(i + 1, p, FALSE)
              /\ i + 1 = n \/ (i + 1 <= 2 /\ c.srcs = {})
            BY <1>2, <2>1, <3>1, <3>2 DEF Agenda, SubmitAgenda
        <3>5. PICK p : p = c.pix
            OBVIOUS
        <3>6. Flushed(i, p, TRUE)' /\ \A q \in c.srcs : Flushed(i, q, FALSE)'
            BY <1>6, <3>3, <3>4, <3>5
        <3>7. (Flushed(i, todo[i].pix, TRUE))'
            BY <3>1, <3>5, <3>6 DEF Flushed, NeedsFlush
        <3>8. i = Len(todo') \/ (i = 1 /\ c.srcs = {})
            BY <1>3, <3>2, <3>4
        <3>9. i = Len(todo') \/ (i <= 2 /\ todo'[i].srcs = {})
            BY <3>1, <3>8
        <3>10. i = 2 /\ i # Len(todo') => todo'[1].call = "flush"
            BY <3>8
        <3>11. OpsOf(todo'[i].ops, todo'[i].pix, todo'[i].srcs)
            BY <3>1, <3>4
        <3>12. \A q \in todo'[i].srcs : (Flushed(i, q, FALSE))'
            BY <3>1, <3>6
        <3>. QED
            BY <3>7, <3>9, <3>10, <3>11, <3>12
    <2>. QED
        BY <2>1 DEF SubmitAgenda
<1>13. WaitAgenda'
    <2>1. ASSUME NEW i \in DOMAIN todo', todo'[i].call = "wait"
          PROVE  \E r \in BOOLEAN :
                    /\ todo'[i].slots = (WaitSlots(todo[i].pix, r))'
                    /\ (Flushed(i, todo[i].pix, r))'
                    /\ req'.kind \notin Filling => (Filled(i, todo[i].pix))'
        <3>1. PICK c : c = todo'[i]
            OBVIOUS
        <3>2. i + 1 \in DOMAIN todo /\ c = todo[i + 1] /\ c \in Calls
            BY <1>3, <3>1
        <3>3. PICK p \in Pixmaps : p = c.pix
            BY <2>1, <3>1, <3>2, CallsFact
        <3>4. PICK r \in BOOLEAN :
                 /\ c.slots = WaitSlots(p, r)
                 /\ Flushed(i + 1, p, r)
                 /\ req.kind \notin Filling => Filled(i + 1, p)
            BY <2>1, <3>1, <3>2, <3>3 DEF Agenda, WaitAgenda
        <3>5. Flushed(i, p, r)' /\ (req'.kind \notin Filling => Filled(i, p)')
            BY <1>6, <1>7, <3>4
        <3>6. (Flushed(i, todo[i].pix, r))'
            BY <3>1, <3>3, <3>5 DEF Flushed, NeedsFlush
        <3>7. req'.kind \notin Filling => (Filled(i, todo[i].pix))'
            BY <3>1, <3>3, <3>5 DEF Filled
        <3>8. todo'[i].slots = (WaitSlots(todo[i].pix, r))'
            BY <3>1, <3>3, <3>4 DEF WaitSlots, Written, Read
        <3>. QED
            BY <3>6, <3>7, <3>8
    <2>. QED
        BY <2>1 DEF WaitAgenda
<1>14. PokeAgenda'
    <2>1. ASSUME NEW i \in DOMAIN todo', todo'[i].call = "poke"
          PROVE  /\ (Clean(todo[i].pix, TRUE))'
                 /\ i <= 2 /\ (i = 2 => todo'[1].call = "wait")
        <3>1. PICK c : c = todo'[i]
            OBVIOUS
        <3>2. i + 1 \in DOMAIN todo /\ c = todo[i + 1] /\ c \in Calls /\ i >= 1 /\ i \in Nat
            BY <1>3, <3>1
        <3>3. PICK p \in Pixmaps : p = c.pix
            BY <2>1, <3>1, <3>2, CallsFact
        <3>4. Clean(p, TRUE) /\ i + 1 <= 2 /\ (i + 1 = 2 => todo[1].call = "wait")
            BY ZenonT(30), <2>1, <3>1, <3>2, <3>3 DEF Agenda, PokeAgenda
        <3>5. i = 1 /\ me.call = "wait"
            BY <1>1, <3>2, <3>4
        <3>6. Clean(p, TRUE)'
            BY <3>4, <3>5
        <3>7. (Clean(todo[i].pix, TRUE))'
            BY <3>1, <3>3, <3>6 DEF Clean, NeedsFlush, WaitSlots, Written, Read, Completed
        <3>8. i <= 2 /\ (i = 2 => todo'[1].call = "wait")
            BY <3>5
        <3>. QED
            BY <3>7, <3>8
    <2>. QED
        BY <2>1 DEF PokeAgenda
<1>15. AccessAgenda'
    <2>1. ASSUME NEW p \in Pixmaps, NEW r \in BOOLEAN, <<p, r>> \in Accessed
          PROVE  \/ /\ Clean(p, r)' /\ fill'[p] = NoFill
                    /\ \A i \in DOMAIN todo' : todo'[i].call = "submit" => todo'[i].pix # p
                 \/ \E i \in DOMAIN todo' : /\ todo'[i].call = "wait" /\ todo'[i].pix = p
                                           /\ WaitSlots(p, r)' \subseteq todo'[i].slots
        <3>1. \/ /\ Clean(p, r) /\ fill[p] = NoFill
                 /\ \A i \in DOMAIN todo : todo[i].call = "submit" => todo[i].pix # p
              \/ \E i \in DOMAIN todo : /\ todo[i].call = "wait" /\ todo[i].pix = p
                                        /\ WaitSlots(p, r) \subseteq todo[i].slots
            <4>1. \A a \in Accessed :
                      \/ /\ Clean(a[1], a[2]) /\ fill[a[1]] = NoFill
                         /\ \A i \in DOMAIN todo : todo[i].call = "submit" => todo[i].pix # a[1]
                      \/ \E i \in DOMAIN todo : /\ todo[i].call = "wait" /\ todo[i].pix = a[1]
                                                /\ WaitSlots(a[1], a[2]) \subseteq todo[i].slots
                BY DEF Agenda, AccessAgenda
            <4>2. PICK a \in Accessed : a = <<p, r>>
                BY <2>1
            <4>3. a[1] = p /\ a[2] = r
                BY <4>2
            <4>. QED
                BY <4>1, <4>3
        <3>2. ASSUME Clean(p, r), fill[p] = NoFill,
                     \A i \in DOMAIN todo : todo[i].call = "submit" => todo[i].pix # p
              PROVE  /\ Clean(p, r)' /\ fill'[p] = NoFill
                     /\ \A i \in DOMAIN todo' : todo'[i].call = "submit" => todo'[i].pix # p
            <4>1. ~ (me.call = "submit" /\ me.pix = p)
                BY <1>1, <1>3, <3>2
            <4>2. Clean(p, r)' /\ fill'[p] = NoFill
                BY <3>2, <4>1
            <4>. QED
                BY <1>3, <3>2, <4>2
        <3>3. ASSUME NEW i \in DOMAIN todo, todo[i].call = "wait", todo[i].pix = p,
                     WaitSlots(p, r) \subseteq todo[i].slots, i # 1
              PROVE  \E k \in DOMAIN todo' : /\ todo'[k].call = "wait" /\ todo'[k].pix = p
                                           /\ WaitSlots(p, r)' \subseteq todo'[k].slots
            <4>1. i - 1 \in DOMAIN todo' /\ (i - 1) + 1 = i
                BY <1>3, <3>3
            <4>2. todo'[i - 1] = todo[i]
                BY <1>3, <4>1
            <4>. QED
                BY <1>8, <3>3, <4>1, <4>2
        <3>4. ASSUME me.call = "wait", me.pix = p, WaitSlots(p, r) \subseteq me.slots
              PROVE  /\ Clean(p, r)' /\ fill'[p] = NoFill
                     /\ \A i \in DOMAIN todo' : todo'[i].call = "submit" => todo'[i].pix # p
            <4>1. PICK b \in BOOLEAN : me.slots = WaitSlots(p, b) /\ Clean(p, b)'
                BY <3>4
            <4>2. r => b
                <5>1. SUFFICES ASSUME r, ~ b PROVE FALSE
                    OBVIOUS
                <5>2. <<p, "2D", "read">> \in WaitSlots(p, TRUE)
                    BY DEF WaitSlots, Read, Engines
                <5>3. r = TRUE /\ b = FALSE
                    BY <5>1
                <5>4. <<p, "2D", "read">> \in WaitSlots(p, FALSE)
                    BY <3>4, <4>1, <5>2, <5>3
                <5>5. \A s \in Written(p) : s[3] = "write"
                    BY DEF Written
                <5>. QED
                    BY <5>4, <5>5 DEF WaitSlots
            <4>3. Clean(p, r)'
                BY <4>1, <4>2 DEF Clean, NeedsFlush, WaitSlots
            <4>4. req.kind \in {"soft", "look"}
                BY <2>1 DEF Accessed
            <4>5. fill[p] = NoFill
                <5>1. Filled(1, p)
                    BY <1>1, <1>3, <3>4, <4>4, KindsFact DEF Agenda, WaitAgenda
                <5>. QED
                    BY <5>1 DEF Filled
            <4>6. ASSUME NEW i \in DOMAIN todo', todo'[i].call = "submit" PROVE FALSE
                <5>1. i + 1 \in DOMAIN todo /\ todo'[i] = todo[i + 1] /\ i >= 1 /\ i \in Nat
                    BY <1>3
                <5>2. i + 1 = n \/ (i + 1 = 2 /\ todo[1].call = "flush")
                    <6>1. PICK j \in DOMAIN todo : j = i + 1
                        BY <5>1
                    <6>2. todo[j].call = "submit"
                        BY <4>6, <5>1, <6>1
                    <6>3. /\ j = n \/ j <= 2
                          /\ j = 2 /\ j # n => todo[1].call = "flush"
                        BY <1>2, <6>2 DEF Agenda, SubmitAgenda
                    <6>. QED
                        BY <5>1, <6>1, <6>3
                <5>3. i + 1 = n
                    BY <1>1, <3>4, <5>2
                <5>4. todo[i + 1].call \in Final(req.kind)
                    BY <1>2, <1>3, <5>1, <5>3 DEF Agenda, TodoType
                <5>. QED
                    BY <4>4, <4>6, <5>1, <5>4, KindsFact
            <4>. QED
                BY <4>3, <4>5, <4>6
        <3>. QED
            BY <1>1, <3>1, <3>2, <3>3, <3>4
    <2>2. \A a \in Accessed : a = <<a[1], a[2]>> /\ a[1] \in Pixmaps /\ a[2] \in BOOLEAN
        BY <1>1, AccessedFact
    <2>3. \A i \in DOMAIN todo' : todo'[i].call = "look" => todo'[i].pix = req'.want.dst
        BY <1>3 DEF Agenda, AccessAgenda
    <2>4. ASSUME NEW a \in Accessed
          PROVE  \/ /\ (Clean(a[1], a[2]))' /\ fill'[a[1]] = NoFill
                    /\ \A i \in DOMAIN todo' : todo'[i].call = "submit" => todo'[i].pix # a[1]
                 \/ \E i \in DOMAIN todo' : /\ todo'[i].call = "wait" /\ todo'[i].pix = a[1]
                                           /\ (WaitSlots(a[1], a[2]))' \subseteq todo'[i].slots
        <3>1. PICK p \in Pixmaps, r \in BOOLEAN : p = a[1] /\ r = a[2]
            BY <2>2
        <3>2. a = <<p, r>> /\ a \in Accessed
            BY <2>2, <3>1
        <3>3. <<p, r>> \in Accessed
            BY <3>2
        <3>4. \/ /\ (Clean(p, r))' /\ fill'[p] = NoFill
                 /\ \A i \in DOMAIN todo' : todo'[i].call = "submit" => todo'[i].pix # p
              \/ \E i \in DOMAIN todo' : /\ todo'[i].call = "wait" /\ todo'[i].pix = p
                                        /\ (WaitSlots(p, r))' \subseteq todo'[i].slots
            BY <2>1, <3>3
        <3>. QED
            BY <3>1, <3>4
    <2>. QED
        BY <1>9, <2>3, <2>4 DEF AccessAgenda
<1>16. AppendAgenda'
    <2>1. ASSUME NEW i \in DOMAIN todo', todo'[i].call = "append"
          PROVE  /\ todo'[i].src = Fetched' /\ ~ req'.out
                 /\ \A o \in {Fetched', req'.mask} : ~ IsSolid(o) => (Filled(i, o.pix))'
                 /\ req'.want.dst = batch'.cur \/ (Filled(i, req.want.dst))'
        <3>1. i + 1 \in DOMAIN todo /\ todo'[i] = todo[i + 1] /\ i \in Nat
            BY <1>3
        <3>2. /\ todo'[i].src = Fetched /\ ~ req.out
              /\ \A o \in {Fetched, req.mask} : ~ IsSolid(o) => Filled(i + 1, o.pix)
              /\ req.want.dst = batch.cur \/ Filled(i + 1, req.want.dst)
            BY <2>1, <3>1 DEF Agenda, AppendAgenda
        <3>3. req.kind = "composite"
            <4>1. todo[i + 1].call \in Middle \/ todo[i + 1].call \in Final(req.kind)
                BY <3>1 DEF Agenda, TodoType
            <4>2. todo[i + 1].call = "append"
                BY <2>1, <3>1
            <4>. QED
                BY <4>1, <4>2 DEF Middle, Final
        <3>4. req.want.dst \in Pixmaps /\ Fetched \in Operands /\ req.mask \in Operands
            <4>1. req \in Composite
                BY <1>1, <3>3, HeadCall DEF Blit, Composite, Access2, Blits, Filling
            <4>2. req.src \in Operands /\ req.mask \in Operands /\ req.want \in Requests
                BY <4>1 DEF Composite
            <4>3. Solid(Clear) \in Operands
                BY ColoursFact DEF Operands
            <4>. QED
                BY <4>2, <4>3, RequestsAssumption DEF Fetched
        <3>5. ASSUME NEW o \in {Fetched, req.mask}, ~ IsSolid(o) PROVE (Filled(i, o.pix))'
            <4>1. PICK p \in Pixmaps : p = o.pix
                BY <3>4, <3>5 DEF Operands, Solid, Texture, IsSolid
            <4>2. Filled(i, p)'
                BY <1>7, <3>2, <3>5, <4>1
            <4>. QED
                BY <4>1, <4>2 DEF Filled
        <3>6. req'.want.dst = batch'.cur \/ (Filled(i, req.want.dst))'
            <4>1. PICK p \in Pixmaps : p = req.want.dst
                BY <3>4
            <4>2. p = batch'.cur \/ Filled(i, p)'
                BY <1>7, <3>2, <3>3, <4>1
            <4>. QED
                BY <4>1, <4>2 DEF Filled
        <3>. QED
            BY <1>9, <3>2, <3>5, <3>6
    <2>. QED
        BY <2>1 DEF AppendAgenda
<1>17. DirectAgenda'
    <2>1. SUFFICES ASSUME req.kind \in Filling PROVE DirectAgenda'
        BY DEF DirectAgenda
    <2>2. /\ \/ Direct \/ todo[n].call = "submit"
             \/ todo[n].call = "rect" /\ todo[n].flushed
          /\ Direct /\ req.cpu => Clean(req.want.dst, TRUE)
          /\ \A i \in DOMAIN todo : todo[i].call = "rect" /\ ~ todo[i].flushed => Direct
        BY <1>2, <2>1 DEF Agenda, DirectAgenda
    <2>3. n > 1 => todo'[Len(todo')] = todo[n]
        <3>1. n > 1 => n - 1 \in DOMAIN todo' /\ (n - 1) + 1 = n
            BY <1>3
        <3>. QED
            BY <1>3, <3>1
    <2>4. Direct => Direct'
        <3>1. ASSUME Direct, NEW i \in DOMAIN todo'
              PROVE  \/ todo'[i].call \in {"wait", "poke"}
                     \/ todo'[i].call = "rect" /\ ~ todo'[i].flushed
            BY <1>3, <3>1 DEF Direct
        <3>. QED
            BY <3>1 DEF Direct
    <2>5. n = 1 => Direct
        <3>1. n = 1 => \A i \in DOMAIN todo : todo[i].call = "poke"
            BY <1>1, <1>3, <1>4
        <3>. QED
            BY <3>1 DEF Direct
    <2>6. Direct' => Direct
        <3>1. ASSUME n > 1, todo[n].call = "submit" \/ (todo[n].call = "rect" /\ todo[n].flushed)
              PROVE  ~ Direct'
            <4>1. Len(todo') \in DOMAIN todo'
                BY <1>3, <3>1
            <4>. QED
                BY <2>3, <3>1, <4>1 DEF Direct
        <3>. QED
            BY <1>3, <2>2, <2>5, <3>1
    <2>7. Direct => me.call # "submit"
        BY <1>1, <1>3 DEF Direct
    <2>8. Direct' /\ req'.cpu => (Clean(req.want.dst, TRUE))'
        <3>1. req.want.dst \in Pixmaps
            <4>1. req.want \in Requests
                BY <1>1, HeadCall DEF Blit, Composite, Access2
            <4>. QED
                BY <4>1, RequestsAssumption
        <3>2. PICK p \in Pixmaps : p = req.want.dst
            BY <3>1
        <3>3. Direct' /\ req'.cpu => Clean(p, TRUE)'
            BY <2>2, <2>6, <2>7, <3>2
        <3>. QED
            BY <3>2, <3>3 DEF Clean, NeedsFlush, WaitSlots, Written, Read, Completed
    <2>9. \A i \in DOMAIN todo' : todo'[i].call = "rect" /\ ~ todo'[i].flushed => Direct'
        BY <1>3, <2>2, <2>4
    <2>10. \/ Direct' \/ todo'[Len(todo')].call = "submit"
           \/ todo'[Len(todo')].call = "rect" /\ todo'[Len(todo')].flushed
        BY <1>3, <2>2, <2>3, <2>4, <2>5
    <2>. QED
        BY <2>8, <2>9, <2>10 DEF DirectAgenda
<1>. QED
    BY <1>9, <1>10, <1>11, <1>12, <1>13, <1>14, <1>15, <1>16, <1>17 DEF Agenda

\* A deferred fill is turned into two calls.
LEMMA FillStep ==
    ASSUME GpuInv, FillInv, Agenda, todo # <<>>, me.call = "fill",
           NEW p \in Pixmaps, me.pix = p, fill[p] # NoFill,
           NEW a \in Calls, NEW b \in Calls, NEW v, v = Tail(todo), todo' = <<a, b>> \o v, req' = req,
           batch' = batch, held' = held, fence' = fence, signalled' = signalled,
           \A q \in Pixmaps : fill'[q] = IF q = p THEN NoFill ELSE fill[q],
           \/ /\ a.call = "wait" /\ a.pix = p /\ a.slots = WaitSlots(p, TRUE)
              /\ b.call = "poke" /\ b.pix = p /\ b.cells = Cells(p)
              /\ Clean(p, TRUE)
           \/ /\ a.call = "flush" /\ a.pix = p /\ a.reads = TRUE
              /\ b.call = "submit" /\ b.pix = p /\ b.srcs = {} /\ OpsOf(b.ops, p, {})
    PROVE  Agenda'
<1>1. /\ me = todo[1] /\ me \in Calls /\ todo \in Seq(Calls)
      /\ IF Len(todo) = 1 THEN me.call \in Final(req.kind) ELSE me.call \in Middle
      /\ req # Idle /\ req' # Idle
    BY HeadCall
<1>2. PICK n : n = Len(todo)
    OBVIOUS
<1>3. /\ v \in Seq(Calls) /\ n \in Nat /\ n > 0 /\ DOMAIN todo = 1..n /\ 1 \in DOMAIN todo
      /\ DOMAIN v = 1..(n - 1) /\ Len(v) = n - 1
      /\ \A i \in DOMAIN v : i \in Nat /\ i >= 1 /\ i + 1 \in DOMAIN todo /\ v[i] = todo[i + 1]
      /\ \A i \in DOMAIN todo : todo[i] \in Calls
    BY <1>1, <1>2, TailCalls
<1>4. n > 1
    <2>1. "fill" \notin Final(req.kind)
        BY KindsFact
    <2>. QED
        BY <1>1, <1>2, <1>3, <2>1
<1>5. /\ todo' \in Seq(Calls) /\ DOMAIN todo' = 1..(n + 1) /\ Len(todo') = n + 1
      /\ todo'[1] = a /\ todo'[2] = b
      /\ \A i \in 3..(n + 1) : todo'[i] = v[i - 2]
    <2>1. PICK w : w = <<a, b>>
        OBVIOUS
    <2>2. w \in Seq(Calls) /\ Len(w) = 2 /\ w[1] = a /\ w[2] = b
        BY <2>1
    <2>3. /\ w \o v \in Seq(Calls) /\ Len(w \o v) = n + 1
          /\ \A i \in 1..(n + 1) : (w \o v)[i] = IF i <= 2 THEN w[i] ELSE v[i - 2]
        <3>1. /\ w \o v \in Seq(Calls) /\ Len(w \o v) = Len(w) + Len(v)
              /\ \A i \in 1..(Len(w) + Len(v)) :
                    (w \o v)[i] = IF i <= Len(w) THEN w[i] ELSE v[i - Len(w)]
            <4>1. w \in Seq(Calls) /\ v \in Seq(Calls)
                BY <1>3, <2>2
            <4>. QED
                BY <4>1, ConcatFact
        <3>2. Len(w) + Len(v) = n + 1 /\ Len(w) = 2
            BY <1>3, <2>2
        <3>. QED
            BY <3>1, <3>2
    <2>4. DOMAIN (w \o v) = 1..(n + 1)
        BY <1>3, <2>3
    <2>. QED
        BY <1>3, <2>1, <2>2, <2>3, <2>4
<1>6. \A i \in DOMAIN todo' : i # 1 /\ i # 2 =>
          /\ i \in Nat /\ i >= 3 /\ i - 1 \in DOMAIN todo /\ i - 1 > 1 /\ i - 1 \in Nat
          /\ todo'[i] = todo[i - 1]
    <2>1. ASSUME NEW i \in DOMAIN todo', i # 1, i # 2
          PROVE  /\ i \in Nat /\ i >= 3 /\ i - 1 \in DOMAIN todo /\ i - 1 > 1 /\ i - 1 \in Nat
                 /\ todo'[i] = todo[i - 1]
        <3>1. i \in 3..(n + 1) /\ i - 2 \in 1..(n - 1) /\ (i - 2) + 1 = i - 1
            BY <1>3, <1>5, <2>1
        <3>2. todo'[i] = todo[i - 1]
            BY <1>3, <1>5, <3>1
        <3>. QED
            BY <1>3, <3>1, <3>2
    <2>. QED
        BY <2>1
<1>7. \A j \in DOMAIN todo : j # 1 =>
          /\ j + 1 \in DOMAIN todo' /\ todo'[j + 1] = todo[j]
    <2>1. ASSUME NEW j \in DOMAIN todo, j # 1 PROVE j + 1 \in DOMAIN todo' /\ todo'[j + 1] = todo[j]
        <3>1. j + 1 \in 3..(n + 1) /\ (j + 1) - 2 = j - 1 /\ j - 1 \in 1..(n - 1) /\ (j - 1) + 1 = j
            BY <1>3, <2>1
        <3>. QED
            BY <1>3, <1>5, <3>1
    <2>. QED
        BY <2>1
<1>8. todo[1].call = "fill" /\ todo[1].pix = p
    BY <1>1
<1>9. /\ \A q, r : (NeedsFlush(q, r, TRUE))' = NeedsFlush(q, r, TRUE)
      /\ \A q, r : (WaitSlots(q, r))' = WaitSlots(q, r)
      /\ \A q, r : (Clean(q, r))' = Clean(q, r)
    <2>1. \A q, r : (NeedsFlush(q, r, TRUE))' = NeedsFlush(q, r, TRUE)
        BY DEF NeedsFlush
    <2>2. \A q, r : (WaitSlots(q, r))' = WaitSlots(q, r)
        BY DEF WaitSlots, Written, Read
    <2>3. \A q, r : (Clean(q, r))' = Clean(q, r)
        BY DEF Clean, NeedsFlush, WaitSlots, Written, Read, Completed
    <2>. QED
        BY <2>1, <2>2, <2>3
<1>10. ASSUME NEW q \in Pixmaps, NEW r \in BOOLEAN, NEW i \in DOMAIN todo', i # 1, i # 2,
              Flushed(i - 1, q, r)
       PROVE  Flushed(i, q, r)'
    <2>1. CASE ~ NeedsFlush(q, r, TRUE)
        BY <1>9, <2>1 DEF Flushed, NeedsFlush
    <2>2. ASSUME NEW j \in 1..((i - 1) - 1), todo[j].call = "flush", todo[j].pix = q, r => todo[j].reads
          PROVE  Flushed(i, q, r)'
        <3>1. j # 1 /\ j \in DOMAIN todo /\ j + 1 \in 1..(i - 1)
            BY <1>3, <1>6, <1>8, <1>10, <2>2
        <3>2. todo'[j + 1] = todo[j]
            BY <1>7, <3>1
        <3>3. PICK k \in 1..(i - 1) : k = j + 1
            BY <3>1
        <3>4. todo'[k].call = "flush" /\ todo'[k].pix = q /\ (r => todo'[k].reads)
            BY <2>2, <3>2, <3>3
        <3>. QED
            BY <3>4 DEF Flushed
    <2>. QED
        BY <1>10, <2>1, <2>2 DEF Flushed
<1>11. ASSUME NEW q \in Pixmaps, NEW i \in DOMAIN todo', i # 1, i # 2, Filled(i - 1, q)
       PROVE  Filled(i, q)'
    <2>1. CASE fill[q] = NoFill
        BY <2>1 DEF Filled
    <2>2. ASSUME NEW j \in 1..((i - 1) - 1), todo[j].call = "fill", todo[j].pix = q
          PROVE  Filled(i, q)'
        <3>1. CASE j = 1
            BY <1>8, <2>2, <3>1 DEF Filled
        <3>2. CASE j # 1
            <4>1. j \in DOMAIN todo /\ j + 1 \in 1..(i - 1)
                BY <1>3, <1>6, <1>11, <2>2
            <4>2. todo'[j + 1] = todo[j]
                BY <1>7, <3>2, <4>1
            <4>. QED
                BY <2>2, <4>1, <4>2 DEF Filled
        <3>. QED
            BY <3>1, <3>2
    <2>. QED
        BY <1>11, <2>1, <2>2 DEF Filled
<1>12. ReqType' /\ ReqInv' /\ Accessed' = Accessed /\ Fetched' = Fetched
    BY ReqKept DEF Agenda
<1>13. TodoType'
    <2>1. a.call \in Middle /\ b.call \in Middle /\ a.call # "rect" /\ b.call # "rect" /\ a.call # "poke"
          /\ (b.call = "poke" => b.cells \subseteq Cells(b.pix))
        <3>1. CASE /\ a.call = "wait" /\ b.call = "poke" /\ b.pix = p /\ b.cells = Cells(p)
            BY <3>1 DEF Middle
        <3>2. CASE a.call = "flush" /\ b.call = "submit"
            BY <3>2 DEF Middle
        <3>. QED
            BY <3>1, <3>2
    <2>2. ASSUME NEW i \in DOMAIN todo'
          PROVE  IF i < Len(todo') THEN todo'[i].call \in Middle ELSE todo'[i].call \in Final(req'.kind)
        <3>1. CASE i = 1 \/ i = 2
            BY <1>3, <1>4, <1>5, <2>1, <3>1
        <3>2. CASE i # 1 /\ i # 2
            <4>1. i - 1 \in DOMAIN todo /\ todo'[i] = todo[i - 1] /\ (i < Len(todo') <=> i - 1 < n)
                BY <1>3, <1>5, <1>6, <3>2
            <4>2. IF i - 1 < n THEN todo[i - 1].call \in Middle ELSE todo[i - 1].call \in Final(req.kind)
                BY <1>2, <4>1 DEF Agenda, TodoType
            <4>. QED
                BY <4>1, <4>2
        <3>. QED
            BY <3>1, <3>2
    <2>3. todo' # <<>>
        BY <1>5
    <2>4. ASSUME NEW i \in DOMAIN todo'
          PROVE  /\ todo'[i].call = "rect" => todo'[i].cells \subseteq Cells(req'.want.dst)
                 /\ todo'[i].call = "poke" => todo'[i].cells \subseteq Cells(todo'[i].pix)
        <3>1. CASE i = 1 \/ i = 2
            BY <1>5, <2>1, <3>1
        <3>2. CASE i # 1 /\ i # 2
            <4>1. i - 1 \in DOMAIN todo /\ todo'[i] = todo[i - 1]
                BY <1>6, <3>2
            <4>. QED
                BY <4>1 DEF Agenda, TodoType
        <3>. QED
            BY <3>1, <3>2
    <2>. QED
        BY <1>1, <1>5, <2>2, <2>3, <2>4 DEF TodoType
<1>14. FlushAgenda'
    <2>1. ASSUME NEW i \in DOMAIN todo', todo'[i].call = "flush", req'.kind = "composite"
          PROVE  ~ (InBatch(todo[i].pix))'
        <3>1. ~ InBatch(p)
            BY DEF FillInv
        <3>2. CASE i = 1 \/ i = 2
            <4>1. b.call # "flush"
                OBVIOUS
            <4>2. i = 1 /\ a.call = "flush"
                BY <1>5, <2>1, <3>2, <4>1
            <4>3. todo'[i].pix = p
                BY <1>5, <4>2
            <4>. QED
                BY <3>1, <4>3 DEF InBatch
        <3>3. CASE i # 1 /\ i # 2
            <4>1. i - 1 \in DOMAIN todo /\ todo'[i] = todo[i - 1]
                BY <1>6, <3>3
            <4>2. ~ InBatch(todo[i - 1].pix)
                BY <2>1, <4>1 DEF Agenda, FlushAgenda
            <4>. QED
                BY <4>1, <4>2 DEF InBatch
        <3>. QED
            BY <3>2, <3>3
    <2>. QED
        BY <2>1 DEF FlushAgenda
<1>15. SubmitAgenda'
    <2>1. ASSUME NEW i \in DOMAIN todo', todo'[i].call = "submit"
          PROVE  /\ OpsOf(todo'[i].ops, todo'[i].pix, todo'[i].srcs)
                 /\ (Flushed(i, todo[i].pix, TRUE))'
                 /\ \A q \in todo'[i].srcs : (Flushed(i, q, FALSE))'
                 /\ i = Len(todo') \/ (i <= 2 /\ todo'[i].srcs = {})
                 /\ i = 2 /\ i # Len(todo') => todo'[1].call = "flush"
        <3>1. CASE i = 1 \/ i = 2
            <4>1. i = 2 /\ todo'[i] = b /\ b.call = "submit"
                BY <1>5, <2>1, <3>1
            <4>2. /\ a.call = "flush" /\ a.pix = p /\ a.reads = TRUE
                  /\ b.pix = p /\ b.srcs = {} /\ OpsOf(b.ops, p, {})
                BY <4>1
            <4>3. /\ 1 \in 1..(i - 1) /\ todo'[1].call = "flush" /\ todo'[1].reads = TRUE
                  /\ todo'[1].pix = todo'[i].pix
                BY <1>5, <4>1, <4>2
            <4>4. (Flushed(i, todo[i].pix, TRUE))'
                BY <4>3 DEF Flushed
            <4>5. OpsOf(todo'[i].ops, todo'[i].pix, todo'[i].srcs)
                BY <4>1, <4>2
            <4>6. todo'[i].srcs = {} /\ i <= 2 /\ todo'[1].call = "flush"
                BY <4>1, <4>2, <4>3
            <4>. QED
                BY <4>4, <4>5, <4>6
        <3>2. CASE i # 1 /\ i # 2
            <4>1. PICK c : c = todo'[i]
                OBVIOUS
            <4>2. PICK j \in DOMAIN todo : j = i - 1
                BY <1>6, <3>2
            <4>3. c = todo[j] /\ c \in Calls /\ j > 1 /\ j \in Nat
                BY <1>3, <1>6, <3>2, <4>1, <4>2
            <4>4. c.pix \in Pixmaps /\ c.srcs \in SUBSET Pixmaps
                BY <2>1, <4>1, <4>3, CallsFact
            <4>5. /\ OpsOf(c.ops, c.pix, c.srcs)
                  /\ Flushed(j, c.pix, TRUE)
                  /\ \A q \in c.srcs : Flushed(j, q, FALSE)
                  /\ j = n \/ j <= 2
                  /\ j = 2 /\ j # n => todo[1].call = "flush"
                <5>1. todo[j].call = "submit"
                    BY <2>1, <4>1, <4>3
                <5>2. SubmitAgenda
                    BY <1>2 DEF Agenda
                <5>3. /\ OpsOf(todo[j].ops, todo[j].pix, todo[j].srcs)
                      /\ Flushed(j, todo[j].pix, TRUE)
                      /\ \A q \in todo[j].srcs : Flushed(j, q, FALSE)
                      /\ j = Len(todo) \/ (j <= 2 /\ todo[j].srcs = {})
                      /\ j = 2 /\ j # Len(todo) => todo[1].call = "flush"
                    BY <5>1, <5>2 DEF SubmitAgenda
                <5>. QED
                    BY <1>2, <4>3, <5>3
            <4>6. PICK q : q = c.pix
                OBVIOUS
            <4>7. Flushed(i, q, TRUE)' /\ \A s \in c.srcs : Flushed(i, s, FALSE)'
                BY <1>10, <3>2, <4>2, <4>4, <4>5, <4>6
            <4>8. (Flushed(i, todo[i].pix, TRUE))'
                BY <4>1, <4>6, <4>7 DEF Flushed, NeedsFlush
            <4>9. j = n
                BY <1>8, <4>3, <4>5
            <4>10. i = Len(todo')
                BY <1>3, <1>5, <1>6, <3>2, <4>2, <4>9
            <4>11. \A s \in todo'[i].srcs : (Flushed(i, s, FALSE))'
                BY <4>1, <4>7
            <4>12. OpsOf(todo'[i].ops, todo'[i].pix, todo'[i].srcs)
                BY <4>1, <4>5
            <4>. QED
                BY <3>2, <4>8, <4>10, <4>11, <4>12
        <3>. QED
            BY <3>1, <3>2
    <2>. QED
        BY <2>1 DEF SubmitAgenda
<1>16. WaitAgenda'
    <2>1. ASSUME NEW i \in DOMAIN todo', todo'[i].call = "wait"
          PROVE  \E r \in BOOLEAN :
                    /\ todo'[i].slots = (WaitSlots(todo[i].pix, r))'
                    /\ (Flushed(i, todo[i].pix, r))'
                    /\ req'.kind \notin Filling => (Filled(i, todo[i].pix))'
        <3>1. CASE i = 1 \/ i = 2
            <4>1. i = 1 /\ todo'[i] = a
                BY <1>5, <2>1, <3>1
            <4>2. a.pix = p /\ a.slots = WaitSlots(p, TRUE) /\ Clean(p, TRUE)
                BY <2>1, <4>1
            <4>3. ~ NeedsFlush(p, TRUE, TRUE)
                BY <4>2 DEF Clean
            <4>4. (Flushed(i, todo[i].pix, TRUE))'
                BY <4>1, <4>2, <4>3 DEF Flushed, NeedsFlush
            <4>5. (Filled(i, todo[i].pix))'
                BY <4>1, <4>2 DEF Filled
            <4>6. todo'[i].slots = (WaitSlots(todo[i].pix, TRUE))'
                BY <4>1, <4>2 DEF WaitSlots, Written, Read
            <4>. QED
                BY <4>4, <4>5, <4>6
        <3>2. CASE i # 1 /\ i # 2
            <4>1. PICK c : c = todo'[i]
                OBVIOUS
            <4>2. PICK j \in DOMAIN todo : j = i - 1
                BY <1>6, <3>2
            <4>3. c = todo[j] /\ c \in Calls
                BY <1>3, <1>6, <3>2, <4>1, <4>2
            <4>4. PICK q \in Pixmaps : q = c.pix
                BY <2>1, <4>1, <4>3, CallsFact
            <4>a. todo[j].call = "wait" /\ todo[j].pix = q
                BY <2>1, <4>1, <4>3, <4>4
            <4>b. \E r \in BOOLEAN :
                     /\ todo[j].slots = WaitSlots(todo[j].pix, r)
                     /\ Flushed(j, todo[j].pix, r)
                     /\ req.kind \notin Filling => Filled(j, todo[j].pix)
                BY <4>a DEF Agenda, WaitAgenda
            <4>5. PICK r \in BOOLEAN :
                     /\ c.slots = WaitSlots(q, r)
                     /\ Flushed(j, q, r)
                     /\ req.kind \notin Filling => Filled(j, q)
                BY <4>3, <4>a, <4>b
            <4>6. Flushed(i, q, r)' /\ (req'.kind \notin Filling => Filled(i, q)')
                BY <1>10, <1>11, <3>2, <4>2, <4>5
            <4>7. (Flushed(i, todo[i].pix, r))'
                BY <4>1, <4>4, <4>6 DEF Flushed, NeedsFlush
            <4>8. req'.kind \notin Filling => (Filled(i, todo[i].pix))'
                BY <4>1, <4>4, <4>6 DEF Filled
            <4>9. todo'[i].slots = (WaitSlots(todo[i].pix, r))'
                BY <4>1, <4>4, <4>5 DEF WaitSlots, Written, Read
            <4>. QED
                BY <4>7, <4>8, <4>9
        <3>. QED
            BY <3>1, <3>2
    <2>. QED
        BY <2>1 DEF WaitAgenda
<1>17. PokeAgenda'
    <2>1. ASSUME NEW i \in DOMAIN todo', todo'[i].call = "poke"
          PROVE  /\ (Clean(todo[i].pix, TRUE))'
                 /\ i <= 2 /\ (i = 2 => todo'[1].call = "wait")
        <3>1. CASE i = 1 \/ i = 2
            <4>1. i = 2 /\ todo'[i] = b
                BY <1>5, <2>1, <3>1
            <4>2. b.pix = p /\ a.call = "wait" /\ Clean(p, TRUE)
                BY <2>1, <4>1
            <4>3. Clean(p, TRUE)'
                BY <1>9, <4>2
            <4>4. (Clean(todo[i].pix, TRUE))'
                BY <4>1, <4>2, <4>3 DEF Clean, NeedsFlush, WaitSlots, Written, Read, Completed
            <4>5. i <= 2 /\ todo'[1].call = "wait"
                BY <1>5, <4>1, <4>2
            <4>. QED
                BY <4>4, <4>5
        <3>2. CASE i # 1 /\ i # 2
            <4>1. PICK j \in DOMAIN todo : j = i - 1
                BY <1>6, <3>2
            <4>2. todo[j].call = "poke" /\ j > 1 /\ j \in Nat
                BY <1>6, <2>1, <3>2, <4>1
            <4>3. j <= 2 /\ (j = 2 => todo[1].call = "wait")
                BY <4>2 DEF Agenda, PokeAgenda
            <4>. QED
                BY <1>8, <4>2, <4>3
        <3>. QED
            BY <3>1, <3>2
    <2>. QED
        BY <2>1 DEF PokeAgenda
<1>18. AccessAgenda'
    <2>. DEFINE Seen(q, r) ==
             \/ /\ (Clean(q, r))' /\ fill'[q] = NoFill
                /\ \A i \in DOMAIN todo' : todo'[i].call = "submit" => todo'[i].pix # q
             \/ \E i \in DOMAIN todo' : /\ todo'[i].call = "wait" /\ todo'[i].pix = q
                                       /\ (WaitSlots(q, r))' \subseteq todo'[i].slots
    <2>1. ASSUME NEW q \in Pixmaps, NEW r \in BOOLEAN, <<q, r>> \in Accessed
          PROVE  Seen(q, r)
        <3>1. \/ /\ Clean(q, r) /\ fill[q] = NoFill
                 /\ \A i \in DOMAIN todo : todo[i].call = "submit" => todo[i].pix # q
              \/ \E i \in DOMAIN todo : /\ todo[i].call = "wait" /\ todo[i].pix = q
                                        /\ WaitSlots(q, r) \subseteq todo[i].slots
            <4>1. \A x \in Accessed :
                      \/ /\ Clean(x[1], x[2]) /\ fill[x[1]] = NoFill
                         /\ \A i \in DOMAIN todo : todo[i].call = "submit" => todo[i].pix # x[1]
                      \/ \E i \in DOMAIN todo : /\ todo[i].call = "wait" /\ todo[i].pix = x[1]
                                                /\ WaitSlots(x[1], x[2]) \subseteq todo[i].slots
                BY DEF Agenda, AccessAgenda
            <4>2. PICK x \in Accessed : x = <<q, r>>
                BY <2>1
            <4>3. x[1] = q /\ x[2] = r
                BY <4>2
            <4>. QED
                BY ZenonT(30), <4>1, <4>3
        <3>2. ASSUME Clean(q, r), fill[q] = NoFill,
                     \A i \in DOMAIN todo : todo[i].call = "submit" => todo[i].pix # q
              PROVE  /\ Clean(q, r)' /\ fill'[q] = NoFill
                     /\ \A i \in DOMAIN todo' : todo'[i].call = "submit" => todo'[i].pix # q
            <4>1. q # p
                BY <3>2
            <4>3. fill'[q] = NoFill /\ Clean(q, r)'
                BY <1>9, <3>2, <4>1
            <4>4. ASSUME NEW i \in DOMAIN todo', todo'[i].call = "submit" PROVE todo'[i].pix # q
                <5>1. CASE i = 1 \/ i = 2
                    <6>1. a.call # "submit" /\ (b.call = "submit" => b.pix = p)
                        OBVIOUS
                    <6>. QED
                        BY <1>5, <4>1, <4>4, <5>1, <6>1
                <5>2. CASE i # 1 /\ i # 2
                    BY <1>6, <3>2, <4>4, <5>2
                <5>. QED
                    BY <5>1, <5>2
            <4>. QED
                BY <4>3, <4>4
        <3>3. ASSUME NEW i \in DOMAIN todo, todo[i].call = "wait", todo[i].pix = q,
                     WaitSlots(q, r) \subseteq todo[i].slots
              PROVE  \E k \in DOMAIN todo' : /\ todo'[k].call = "wait" /\ todo'[k].pix = q
                                           /\ WaitSlots(q, r)' \subseteq todo'[k].slots
            <4>1. i # 1
                BY <1>8, <3>3
            <4>2. i + 1 \in DOMAIN todo' /\ todo'[i + 1] = todo[i]
                BY <1>7, <4>1
            <4>3. WaitSlots(q, r)' = WaitSlots(q, r)
                BY <1>9
            <4>4. PICK k \in DOMAIN todo' : todo'[k] = todo[i]
                BY <4>2
            <4>. QED
                BY <3>3, <4>3, <4>4
        <3>. QED
            BY <3>1, <3>2, <3>3
    <2>2. \A i \in DOMAIN todo' : todo'[i].call = "look" => todo'[i].pix = req'.want.dst
        <3>1. ASSUME NEW i \in DOMAIN todo', todo'[i].call = "look" PROVE todo'[i].pix = req'.want.dst
            <4>1. i # 1 /\ i # 2
                <5>1. todo'[1] = a /\ todo'[2] = b
                    BY <1>5
                <5>2. a.call # "look" /\ b.call # "look"
                    OBVIOUS
                <5>. QED
                    BY <3>1, <5>1, <5>2
            <4>. QED
                BY <1>6, <3>1, <4>1 DEF Agenda, AccessAgenda
        <3>. QED
            BY <3>1
    <2>3. \A x \in Accessed : Seen(x[1], x[2])
        <3>. HIDE DEF Seen
        <3>. QED
            BY <1>1, <2>1, AccessedFact
    <2>. QED
        BY <1>12, <2>2, <2>3 DEF AccessAgenda
<1>19. AppendAgenda'
    <2>1. ASSUME NEW i \in DOMAIN todo', todo'[i].call = "append"
          PROVE  /\ todo'[i].src = Fetched' /\ ~ req'.out
                 /\ \A o \in {Fetched', req'.mask} : ~ IsSolid(o) => (Filled(i, o.pix))'
                 /\ req'.want.dst = batch'.cur \/ (Filled(i, req.want.dst))'
        <3>1. i # 1 /\ i # 2
            BY ZenonT(30), <1>5, <2>1
        <3>2. PICK j \in DOMAIN todo : j = i - 1 /\ todo'[i] = todo[j]
            BY <1>6, <3>1
        <3>3. /\ todo'[i].src = Fetched /\ ~ req.out
              /\ \A o \in {Fetched, req.mask} : ~ IsSolid(o) => Filled(j, o.pix)
              /\ req.want.dst = batch.cur \/ Filled(j, req.want.dst)
            BY <2>1, <3>2 DEF Agenda, AppendAgenda
        <3>4. req.kind = "composite"
            <4>1. todo[j].call \in Middle \/ todo[j].call \in Final(req.kind)
                BY DEF Agenda, TodoType
            <4>2. todo[j].call = "append"
                BY <2>1, <3>2
            <4>. QED
                BY <4>1, <4>2 DEF Middle, Final
        <3>5. req.want.dst \in Pixmaps /\ Fetched \in Operands /\ req.mask \in Operands
            <4>1. req \in Composite
                BY <1>1, <3>4, HeadCall DEF Blit, Composite, Access2, Blits, Filling
            <4>2. req.src \in Operands /\ req.mask \in Operands /\ req.want \in Requests
                BY <4>1 DEF Composite
            <4>3. Solid(Clear) \in Operands
                BY ColoursFact DEF Operands
            <4>. QED
                BY <4>2, <4>3, RequestsAssumption DEF Fetched
        <3>6. ASSUME NEW o \in {Fetched, req.mask}, ~ IsSolid(o) PROVE (Filled(i, o.pix))'
            <4>1. PICK q \in Pixmaps : q = o.pix
                BY <3>5, <3>6 DEF Operands, Solid, Texture, IsSolid
            <4>2. Filled(i, q)'
                BY <1>11, <3>1, <3>2, <3>3, <3>6, <4>1
            <4>. QED
                BY <4>1, <4>2 DEF Filled
        <3>7. req'.want.dst = batch'.cur \/ (Filled(i, req.want.dst))'
            <4>1. PICK q \in Pixmaps : q = req.want.dst
                BY <3>5
            <4>2. q = batch'.cur \/ Filled(i, q)'
                BY <1>11, <3>1, <3>2, <3>3, <4>1
            <4>. QED
                BY <4>1, <4>2 DEF Filled
        <3>. QED
            BY <1>12, <3>3, <3>6, <3>7
    <2>. QED
        BY <2>1 DEF AppendAgenda
<1>20. DirectAgenda'
    <2>1. SUFFICES ASSUME req.kind \in Filling PROVE DirectAgenda'
        BY DEF DirectAgenda
    <2>2. /\ \/ Direct \/ todo[n].call = "submit"
             \/ todo[n].call = "rect" /\ todo[n].flushed
          /\ \A i \in DOMAIN todo : todo[i].call = "rect" /\ ~ todo[i].flushed => Direct
        BY <1>2, <2>1 DEF Agenda, DirectAgenda
    <2>3. ~ Direct
        BY <1>3, <1>8 DEF Direct
    <2>4. n \in DOMAIN todo /\ todo'[Len(todo')] = todo[n] /\ Len(todo') \in DOMAIN todo'
        <3>1. n \in DOMAIN todo /\ n # 1
            BY <1>3, <1>4
        <3>. QED
            BY <1>5, <1>7, <3>1
    <2>5. ~ Direct'
        BY <2>2, <2>3, <2>4 DEF Direct
    <2>6. \A i \in DOMAIN todo' : todo'[i].call = "rect" /\ ~ todo'[i].flushed => Direct'
        <3>1. ASSUME NEW i \in DOMAIN todo', todo'[i].call = "rect", ~ todo'[i].flushed PROVE FALSE
            <4>1. i # 1 /\ i # 2
                BY <1>5, <3>1
            <4>. QED
                BY <1>6, <2>2, <2>3, <3>1, <4>1
        <3>. QED
            BY <3>1
    <2>. QED
        BY <2>2, <2>3, <2>4, <2>5, <2>6 DEF DirectAgenda
<1>. QED
    BY <1>12, <1>13, <1>14, <1>15, <1>16, <1>17, <1>18, <1>19, <1>20 DEF Agenda

\* Nothing that the agenda depends on changes.
LEMMA AgendaKept ==
    ASSUME Agenda, todo' = todo, req' = req, batch' = batch, fill' = fill,
           \A p \in Pixmaps : \A r \in BOOLEAN : Clean(p, r) => Clean(p, r)'
    PROVE  Agenda'
<1>1. ReqType' /\ ReqInv' /\ Accessed' = Accessed /\ Fetched' = Fetched
    BY ReqKept DEF Agenda
<1>2. TodoType'
    BY DEF Agenda, TodoType
<1>3. FlushAgenda'
    BY DEF Agenda, FlushAgenda, InBatch
<1>4. \A i, p, r : (Flushed(i, p, r))' = Flushed(i, p, r)
    BY DEF Flushed, NeedsFlush
<1>5. \A i, p : (Filled(i, p))' = Filled(i, p)
    BY DEF Filled
<1>6. SubmitAgenda'
    BY DEF Agenda, SubmitAgenda, Flushed, NeedsFlush
<1>7. WaitAgenda'
    BY DEF Agenda, WaitAgenda, Flushed, NeedsFlush, Filled, WaitSlots, Written, Read
<1>8. PokeAgenda'
    <2>1. ASSUME NEW i \in DOMAIN todo', todo'[i].call = "poke"
          PROVE  /\ (Clean(todo[i].pix, TRUE))'
                 /\ i <= 2 /\ (i = 2 => todo'[1].call = "wait")
        <3>1. todo[i] \in Calls
            BY DEF Agenda, TodoType
        <3>2. PICK p \in Pixmaps : p = todo[i].pix
            BY <2>1, <3>1, CallsFact
        <3>3. Clean(p, TRUE) /\ i <= 2 /\ (i = 2 => todo[1].call = "wait")
            BY <2>1, <3>2 DEF Agenda, PokeAgenda
        <3>4. Clean(p, TRUE)'
            BY <3>3
        <3>5. (Clean(todo[i].pix, TRUE))'
            BY <3>2, <3>4 DEF Clean, NeedsFlush, WaitSlots, Written, Read, Completed
        <3>. QED
            BY <3>3, <3>5
    <2>. QED
        BY <2>1 DEF PokeAgenda
<1>9. AccessAgenda'
    <2>. DEFINE Seen(q, r) ==
             \/ /\ (Clean(q, r))' /\ fill'[q] = NoFill
                /\ \A i \in DOMAIN todo' : todo'[i].call = "submit" => todo'[i].pix # q
             \/ \E i \in DOMAIN todo' : /\ todo'[i].call = "wait" /\ todo'[i].pix = q
                                       /\ (WaitSlots(q, r))' \subseteq todo'[i].slots
    <2>1. ASSUME NEW q \in Pixmaps, NEW r \in BOOLEAN, <<q, r>> \in Accessed
          PROVE  Seen(q, r)
        <3>1. \A x \in Accessed :
                      \/ /\ Clean(x[1], x[2]) /\ fill[x[1]] = NoFill
                         /\ \A i \in DOMAIN todo : todo[i].call = "submit" => todo[i].pix # x[1]
                      \/ \E i \in DOMAIN todo : /\ todo[i].call = "wait" /\ todo[i].pix = x[1]
                                                /\ WaitSlots(x[1], x[2]) \subseteq todo[i].slots
            BY DEF Agenda, AccessAgenda
        <3>2. PICK x \in Accessed : x = <<q, r>>
            BY <2>1
        <3>3. x[1] = q /\ x[2] = r
            BY <3>2
        <3>4. \/ /\ Clean(q, r) /\ fill[q] = NoFill
                 /\ \A i \in DOMAIN todo : todo[i].call = "submit" => todo[i].pix # q
              \/ \E i \in DOMAIN todo : /\ todo[i].call = "wait" /\ todo[i].pix = q
                                        /\ WaitSlots(q, r) \subseteq todo[i].slots
            BY <3>1, <3>3
        <3>5. (WaitSlots(q, r))' = WaitSlots(q, r)
            BY DEF WaitSlots, Written, Read
        <3>. QED
            BY <3>4, <3>5
    <2>2. req = Idle => Accessed = {}
        BY DEF Accessed, Idle
    <2>3. \A x \in Accessed : Seen(x[1], x[2])
        <3>. HIDE DEF Seen
        <3>. QED
            BY <2>1, <2>2, AccessedFact
    <2>4. \A i \in DOMAIN todo' : todo'[i].call = "look" => todo'[i].pix = req'.want.dst
        BY DEF Agenda, AccessAgenda
    <2>. QED
        BY <1>1, <2>3, <2>4 DEF AccessAgenda
<1>10. AppendAgenda'
    BY <1>1 DEF Agenda, AppendAgenda, Filled
<1>11. DirectAgenda'
    <2>1. Direct' = Direct
        BY DEF Direct
    <2>2. req.kind \in Filling /\ Direct /\ req.cpu => (Clean(req.want.dst, TRUE))'
        <3>1. SUFFICES ASSUME req.kind \in Filling, Direct, req.cpu PROVE (Clean(req.want.dst, TRUE))'
            OBVIOUS
        <3>2. req # Idle
            BY <3>1 DEF Filling, Idle
        <3>3. req.want \in Requests
            BY <3>2 DEF Agenda, ReqType, Blit, Composite, Access2
        <3>4. PICK p \in Pixmaps : p = req.want.dst
            BY <3>3, RequestsAssumption
        <3>5. Clean(p, TRUE)'
            BY <3>1, <3>4 DEF Agenda, DirectAgenda
        <3>. QED
            BY <3>4, <3>5 DEF Clean, NeedsFlush, WaitSlots, Written, Read, Completed
    <2>. QED
        BY <2>1, <2>2 DEF Agenda, DirectAgenda
<1>. QED
    BY <1>1, <1>2, <1>3, <1>6, <1>7, <1>8, <1>9, <1>10, <1>11 DEF Agenda

\* There are no calls to make.
LEMMA EmptyAgenda ==
    ASSUME todo' = <<>>, ReqType', ReqInv', req' = Idle \/ req'.kind \notin {"soft", "look"},
           req'.kind \in Filling /\ req'.cpu => (Clean(req.want.dst, TRUE))'
    PROVE  Agenda'
<1>1. DOMAIN todo' = {} /\ todo' \in Seq(Calls) /\ Len(todo') = 0
    OBVIOUS
<1>2. req'.kind \notin {"soft", "look"}
    BY DEF Idle
<1>3. Accessed' = {}
    BY <1>2 DEF Accessed
<1>4. TodoType'
    BY <1>1, <1>2 DEF TodoType
<1>5. FlushAgenda' /\ SubmitAgenda' /\ WaitAgenda' /\ PokeAgenda'
    BY <1>1 DEF FlushAgenda, SubmitAgenda, WaitAgenda, PokeAgenda
<1>6. AccessAgenda' /\ AppendAgenda'
    BY <1>1, <1>3 DEF AccessAgenda, AppendAgenda
<1>7. DirectAgenda'
    <2>1. Direct'
        BY <1>1 DEF Direct
    <2>. QED
        BY <1>1, <2>1 DEF DirectAgenda
<1>. QED
    BY <1>4, <1>5, <1>6, <1>7 DEF Agenda

LEMMA IdleAgenda ==
    ASSUME req' = Idle, todo' = <<>>
    PROVE  Agenda'
<1>1. req'.kind = "idle" /\ req'.kind \notin Filling /\ req'.kind \notin Blits
    BY DEF Idle, Filling, Blits
<1>2. ReqType'
    BY DEF ReqType
<1>3. ReqInv'
    BY <1>1 DEF ReqInv
<1>. QED
    BY <1>1, <1>2, <1>3, EmptyAgenda

\* Calls that see to what is deferred before they wait.
Neat(s) == \A i \in DOMAIN s :
    /\ s[i].call \in {"fill", "flush", "wait"}
    /\ s[i].call = "wait" => \E r \in BOOLEAN :
          /\ s[i].slots = WaitSlots(s[i].pix, r)
          /\ \E j \in 1..(i - 1) : s[j].call = "flush" /\ s[j].pix = s[i].pix /\ (r => s[j].reads)
          /\ \E j \in 1..(i - 1) : s[j].call = "fill" /\ s[j].pix = s[i].pix

LEMMA NeatWait ==
    ASSUME NEW s, Neat(s), NEW i \in DOMAIN s, s[i].call = "wait"
    PROVE  \E r \in BOOLEAN :
              /\ s[i].slots = WaitSlots(s[i].pix, r)
              /\ \E j \in 1..(i - 1) : s[j].call = "flush" /\ s[j].pix = s[i].pix /\ (r => s[j].reads)
              /\ \E j \in 1..(i - 1) : s[j].call = "fill" /\ s[j].pix = s[i].pix
BY DEF Neat

LEMMA NeatAgenda ==
    ASSUME NEW s \in Seq(Calls), Neat(s), NEW c \in Calls, todo' = s \o <<c>>,
           ReqType', ReqInv', req'.kind \in {"soft", "look", "composite"}, req' # Idle,
           c.call \in Final(req'.kind),
           req'.kind = "composite" => \A i \in DOMAIN s : s[i].call = "fill",
           \A a \in Accessed' : \E i \in DOMAIN s :
              s[i].call = "wait" /\ s[i].pix = a[1] /\ WaitSlots(a[1], a[2]) \subseteq s[i].slots,
           c.call = "look" => c.pix = req'.want.dst,
           c.call = "append" =>
              /\ c.src = Fetched' /\ ~ req'.out
              /\ \A t \in {Fetched', req'.mask} : ~ IsSolid(t) =>
                    \E i \in DOMAIN s : s[i].call = "fill" /\ s[i].pix = t.pix
              /\ req'.want.dst = batch'.cur \/
                    \E i \in DOMAIN s : s[i].call = "fill" /\ s[i].pix = req'.want.dst
    PROVE  Agenda'
<1>1. PICK n : n = Len(s)
    OBVIOUS
<1>2. /\ todo' \in Seq(Calls) /\ n \in Nat /\ DOMAIN s = 1..n /\ DOMAIN todo' = 1..(n + 1)
      /\ Len(todo') = n + 1 /\ todo'[n + 1] = c
      /\ \A i \in 1..n : todo'[i] = s[i] /\ i \in Nat
    <2>1. <<c>> \in Seq(Calls) /\ Len(<<c>>) = 1 /\ <<c>>[1] = c
        OBVIOUS
    <2>2. PICK w : w = <<c>>
        OBVIOUS
    <2>3. /\ s \o w \in Seq(Calls) /\ Len(s) \in Nat /\ Len(s \o w) = Len(s) + 1
          /\ DOMAIN (s \o w) = 1..(Len(s) + 1)
          /\ \A i \in 1..(Len(s) + 1) : (s \o w)[i] = IF i <= Len(s) THEN s[i] ELSE w[i - Len(s)]
        <3>1. w \in Seq(Calls) /\ s \in Seq(Calls)
            BY <2>1, <2>2
        <3>2. /\ s \o w \in Seq(Calls) /\ Len(s) \in Nat /\ Len(s \o w) = Len(s) + Len(w)
              /\ DOMAIN (s \o w) = 1..(Len(s) + Len(w))
              /\ \A i \in 1..(Len(s) + Len(w)) :
                    (s \o w)[i] = IF i <= Len(s) THEN s[i] ELSE w[i - Len(s)]
            BY <3>1, ConcatFact
        <3>3. Len(w) = 1
            BY <2>1, <2>2
        <3>. QED
            BY <3>2, <3>3
    <2>4. todo' = s \o w /\ w[1] = c
        BY <2>1, <2>2
    <2>5. DOMAIN s = 1..Len(s)
        OBVIOUS
    <2>6. todo'[n + 1] = c
        <3>1. n + 1 \in 1..(n + 1) /\ ~ (n + 1 <= n) /\ (n + 1) - n = 1 /\ n \in Nat
            BY <1>1, <2>3
        <3>. QED
            BY <1>1, <2>3, <2>4, <3>1
    <2>. QED
        BY <1>1, <2>3, <2>4, <2>5, <2>6
<1>3. c.call \in {"software", "look", "append"}
    BY KindsFact
<1>4. \A i \in 1..n : s[i].call \in {"fill", "flush", "wait"} /\ s[i].call \in Middle
    BY <1>2, KindsFact DEF Neat
<1>5. \A i \in DOMAIN todo' : i = n + 1 \/ i \in 1..n
    BY <1>2
<1>6. \A i \in DOMAIN todo' :
          /\ todo'[i].call \in {"fill", "flush", "wait"} => i \in 1..n
          /\ todo'[i].call \notin {"submit", "poke", "rect"}
          /\ todo'[i].call \in {"software", "look", "append"} => i = n + 1 /\ todo'[i] = c
    <2>1. ASSUME NEW i \in 1..n
          PROVE  /\ todo'[i].call \in {"fill", "flush", "wait"}
                 /\ todo'[i].call \notin {"submit", "poke", "rect", "software", "look", "append"}
        <3>1. todo'[i].call \in {"fill", "flush", "wait"}
            BY <1>2, <1>4
        <3>. QED
            BY <3>1
    <2>2. /\ todo'[n + 1] = c
          /\ c.call \notin {"submit", "poke", "rect", "fill", "flush", "wait"}
        BY <1>2, <1>3
    <2>. QED
        BY <1>5, <2>1, <2>2
<1>7. TodoType'
    <2>1. \A i \in DOMAIN todo' :
             IF i < Len(todo') THEN todo'[i].call \in Middle ELSE todo'[i].call \in Final(req'.kind)
        BY <1>2, <1>4, <1>5
    <2>2. todo' # <<>>
        BY <1>2
    <2>. QED
        BY <1>2, <1>6, <2>1, <2>2 DEF TodoType
<1>8. FlushAgenda'
    <2>1. ASSUME NEW i \in DOMAIN todo', todo'[i].call = "flush", req'.kind = "composite" PROVE FALSE
        BY <1>2, <1>6, <2>1
    <2>. QED
        BY <2>1 DEF FlushAgenda
<1>9. SubmitAgenda' /\ PokeAgenda'
    BY <1>6 DEF SubmitAgenda, PokeAgenda
<1>10. WaitAgenda'
    <2>1. ASSUME NEW i \in DOMAIN todo', todo'[i].call = "wait"
          PROVE  \E r \in BOOLEAN :
                    /\ todo'[i].slots = (WaitSlots(todo[i].pix, r))'
                    /\ (Flushed(i, todo[i].pix, r))'
                    /\ req'.kind \notin Filling => (Filled(i, todo[i].pix))'
        <3>1. i \in 1..n /\ todo'[i] = s[i]
            BY <1>2, <1>6, <2>1
        <3>7. i \in DOMAIN s /\ s[i].call = "wait"
            BY <1>2, <2>1, <3>1
        <3>2. PICK r \in BOOLEAN :
                  /\ s[i].slots = WaitSlots(s[i].pix, r)
                  /\ \E j \in 1..(i - 1) : s[j].call = "flush" /\ s[j].pix = s[i].pix /\ (r => s[j].reads)
                  /\ \E j \in 1..(i - 1) : s[j].call = "fill" /\ s[j].pix = s[i].pix
            BY <3>7, NeatWait
        <3>3. \A j \in 1..(i - 1) : todo'[j] = s[j]
            BY <1>2, <3>1
        <3>4. (Flushed(i, todo[i].pix, r))'
            <4>1. PICK j \in 1..(i - 1) :
                     s[j].call = "flush" /\ s[j].pix = s[i].pix /\ (r => s[j].reads)
                BY <3>2
            <4>2. /\ todo'[j].call = "flush" /\ todo'[j].pix = todo'[i].pix
                  /\ r => todo'[j].reads
                BY <3>1, <3>3, <4>1
            <4>. QED
                BY <4>2 DEF Flushed
        <3>5. (Filled(i, todo[i].pix))'
            <4>1. PICK j \in 1..(i - 1) : s[j].call = "fill" /\ s[j].pix = s[i].pix
                BY <3>2
            <4>2. todo'[j].call = "fill" /\ todo'[j].pix = todo'[i].pix
                BY <3>1, <3>3, <4>1
            <4>. QED
                BY <4>2 DEF Filled
        <3>6. todo'[i].slots = (WaitSlots(todo[i].pix, r))'
            BY <3>1, <3>2 DEF WaitSlots, Written, Read
        <3>. QED
            BY <3>4, <3>5, <3>6
    <2>. QED
        BY <2>1 DEF WaitAgenda
<1>11. AccessAgenda'
    <2>1. ASSUME NEW a \in Accessed'
          PROVE  \E i \in DOMAIN todo' : /\ todo'[i].call = "wait" /\ todo'[i].pix = a[1]
                                        /\ (WaitSlots(a[1], a[2]))' \subseteq todo'[i].slots
        <3>1. PICK i \in DOMAIN s :
                  s[i].call = "wait" /\ s[i].pix = a[1] /\ WaitSlots(a[1], a[2]) \subseteq s[i].slots
            OBVIOUS
        <3>2. i \in DOMAIN todo' /\ todo'[i] = s[i]
            BY <1>2
        <3>3. (WaitSlots(a[1], a[2]))' = WaitSlots(a[1], a[2])
            BY DEF WaitSlots, Written, Read
        <3>. QED
            BY <3>1, <3>2, <3>3
    <2>2. \A i \in DOMAIN todo' : todo'[i].call = "look" => todo'[i].pix = req'.want.dst
        BY <1>6
    <2>. QED
        BY <2>1, <2>2 DEF AccessAgenda
<1>12. AppendAgenda'
    <2>1. ASSUME NEW i \in DOMAIN todo', todo'[i].call = "append"
          PROVE  /\ todo'[i].src = Fetched' /\ ~ req'.out
                 /\ \A o \in {Fetched', req'.mask} : ~ IsSolid(o) => (Filled(i, o.pix))'
                 /\ req'.want.dst = batch'.cur \/ (Filled(i, req.want.dst))'
        <3>1. i = n + 1 /\ todo'[i] = c /\ c.call = "append"
            BY <1>6, <2>1
        <3>2. \A j \in DOMAIN s : j \in 1..(i - 1) /\ todo'[j] = s[j]
            BY <1>2, <3>1
        <3>3. ASSUME NEW p, \E j \in DOMAIN s : s[j].call = "fill" /\ s[j].pix = p
              PROVE  (Filled(i, p))'
            BY <3>2, <3>3 DEF Filled
        <3>4. \A o \in {Fetched', req'.mask} : ~ IsSolid(o) => (Filled(i, o.pix))'
            BY <3>1, <3>3
        <3>5. req'.want.dst = batch'.cur \/ (Filled(i, req.want.dst))'
            <4>1. PICK p : p = req'.want.dst
                OBVIOUS
            <4>2. p = batch'.cur \/ (Filled(i, p))'
                BY <3>1, <3>3, <4>1
            <4>. QED
                BY <4>1, <4>2 DEF Filled
        <3>. QED
            BY <3>1, <3>4, <3>5
    <2>. QED
        BY <2>1 DEF AppendAgenda
<1>13. DirectAgenda'
    BY DEF DirectAgenda, Filling
<1>. QED
    BY <1>7, <1>8, <1>9, <1>10, <1>11, <1>12, <1>13 DEF Agenda

-----------------------------------------------------------------------------
(* Counting.                                                               *)

Ind(a, f) == IF a = f THEN 1 ELSE 0

\* How often f is in the sequence s.
Tally(s, f) == Cardinality({i \in DOMAIN s : s[i] = f})

LEMMA DisjointUnion ==
    ASSUME NEW A, NEW B, IsFiniteSet(A), IsFiniteSet(B), A \cap B = {}
    PROVE  /\ Cardinality(A) \in Nat /\ Cardinality(B) \in Nat
           /\ Cardinality(A \cup B) = Cardinality(A) + Cardinality(B)
<1>1. Cardinality(A) \in Nat /\ Cardinality(B) \in Nat
    BY FS_CardinalityType
<1>2. Cardinality(A \cap B) = 0
    BY FS_EmptySet
<1>3. Cardinality(A \cup B) = Cardinality(A) + Cardinality(B) - Cardinality(A \cap B)
    BY FS_Union
<1>. QED
    BY <1>1, <1>2, <1>3

LEMMA IndFact == \A a, f : Ind(a, f) \in Nat /\ (a = f => Ind(a, f) = 1) /\ (a # f => Ind(a, f) = 0)
BY DEF Ind

\* How many members of S the function g takes to f.
Chosen(S, g, f) == Cardinality({x \in S : g[x] = f})

LEMMA PairCount ==
    ASSUME NEW a, NEW b, a # b, NEW g, NEW f
    PROVE  Chosen({a, b}, g, f) = Ind(g[a], f) + Ind(g[b], f)
<1>. DEFINE T == {x \in {a, b} : g[x] = f}
<1>1. IsFiniteSet({a}) /\ Cardinality({a}) = 1 /\ IsFiniteSet({b}) /\ Cardinality({b}) = 1
    BY FS_Singleton
<1>2. CASE g[a] = f /\ g[b] = f
    <2>1. PICK A : A = {a}
        OBVIOUS
    <2>2. PICK B : B = {b}
        OBVIOUS
    <2>3. A \cap B = {} /\ T = A \cup B
        BY <1>2, <2>1, <2>2
    <2>4. Cardinality(A \cup B) = Cardinality(A) + Cardinality(B)
        BY <1>1, <2>1, <2>2, <2>3, DisjointUnion
    <2>5. Cardinality(T) = 2
        BY <1>1, <2>1, <2>2, <2>3, <2>4
    <2>. QED
        BY <1>2, <2>5 DEF Ind, Chosen
<1>3. CASE g[a] = f /\ g[b] # f
    <2>1. T = {a}
        BY <1>3
    <2>2. Cardinality(T) = 1
        BY <1>1, <2>1
    <2>. QED
        BY <1>3, <2>2 DEF Ind, Chosen
<1>4. CASE g[a] # f /\ g[b] = f
    <2>1. T = {b}
        BY <1>4
    <2>2. Cardinality(T) = 1
        BY <1>1, <2>1
    <2>. QED
        BY <1>4, <2>2 DEF Ind, Chosen
<1>5. CASE g[a] # f /\ g[b] # f
    <2>1. T = {}
        BY <1>5
    <2>2. Cardinality(T) = 0
        BY <2>1, FS_EmptySet
    <2>. QED
        BY <1>5, <2>2 DEF Ind, Chosen
<1>. QED
    BY <1>2, <1>3, <1>4, <1>5

LEMMA TallyConcat ==
    ASSUME NEW S, NEW s \in Seq(S), NEW t \in Seq(S), NEW f
    PROVE  /\ Tally(s, f) \in Nat /\ Tally(t, f) \in Nat
           /\ Tally(s \o t, f) = Tally(s, f) + Tally(t, f)
<1>1. PICK m \in Nat : m = Len(s) /\ DOMAIN s = 1..m
    OBVIOUS
<1>2. PICK n \in Nat : n = Len(t) /\ DOMAIN t = 1..n
    OBVIOUS
<1>3. PICK w : w = s \o t
    OBVIOUS
<1>4. /\ DOMAIN w = 1..(m + n)
      /\ \A i \in 1..(m + n) : w[i] = IF i <= m THEN s[i] ELSE t[i - m]
    BY <1>1, <1>2, <1>3
<1>. DEFINE first == {i \in 1..m : s[i] = f}
            second == {i \in 1..n : t[i] = f}
            late == {i \in (m + 1)..(m + n) : t[i - m] = f}
            shift == [i \in second |-> i + m]
<1>5. {i \in DOMAIN w : w[i] = f} = first \cup late
    <2>1. ASSUME NEW i PROVE i \in DOMAIN w /\ w[i] = f <=> i \in first \cup late
        <3>1. CASE i \in 1..m
            BY <1>4, <3>1
        <3>2. CASE i \in (m + 1)..(m + n)
            BY <1>4, <3>2
        <3>3. CASE i \notin 1..m /\ i \notin (m + 1)..(m + n)
            BY <1>4, <3>3
        <3>. QED
            BY <3>1, <3>2, <3>3
    <2>. QED
        BY <2>1
<1>6. IsFiniteSet(first) /\ IsFiniteSet(second) /\ IsFiniteSet(late)
    <2>1. IsFiniteSet(1..m) /\ IsFiniteSet(1..n) /\ IsFiniteSet((m + 1)..(m + n))
        BY FS_Interval
    <2>. QED
        BY <2>1, FS_Subset
<1>7. Cardinality(late) = Cardinality(second)
    <2>1. \A i \in second : i \in 1..n /\ i \in Int /\ i + m \in late
        OBVIOUS
    <2>2. shift \in [second -> late]
        BY <2>1
    <2>3. \A i, j \in second : shift[i] = shift[j] => i = j
        BY <2>1
    <2>4. ASSUME NEW c \in late PROVE \E i \in second : shift[i] = c
        <3>1. c - m \in second /\ (c - m) + m = c
            OBVIOUS
        <3>. QED
            BY <3>1
    <2>5. shift \in Bijection(second, late)
        BY <2>2, <2>3, <2>4 DEF Bijection, Injection, Surjection, IsInjective
    <2>6. ExistsBijection(second, late)
        BY <2>5 DEF ExistsBijection
    <2>. QED
        BY <1>6, <2>6, FS_Bijection
<1>8. first \cap late = {}
    OBVIOUS
<1>9. Cardinality(first) \in Nat /\ Cardinality(second) \in Nat /\ Cardinality(late) \in Nat
    BY <1>6, FS_CardinalityType
<1>10. Cardinality(first \cup late) = Cardinality(first) + Cardinality(late)
    BY <1>6, <1>8, DisjointUnion
<1>11. Tally(s, f) = Cardinality(first) /\ Tally(t, f) = Cardinality(second)
    BY <1>1, <1>2 DEF Tally
<1>. QED
    BY <1>3, <1>5, <1>7, <1>9, <1>10, <1>11 DEF Tally

LEMMA TallyType == ASSUME NEW S, NEW s \in Seq(S), NEW f PROVE Tally(s, f) \in Nat
BY TallyConcat

LEMMA TallyOne ==
    ASSUME NEW S, NEW a \in S, NEW f
    PROVE  <<a>> \in Seq(S) /\ Tally(<<a>>, f) = Ind(a, f) /\ Ind(a, f) \in Nat
<1>1. DOMAIN <<a>> = {1} /\ <<a>>[1] = a
    OBVIOUS
<1>2. CASE a = f
    <2>1. {i \in DOMAIN <<a>> : <<a>>[i] = f} = {1}
        BY <1>1, <1>2
    <2>. QED
        BY <1>2, <2>1, FS_Singleton DEF Tally, Ind
<1>3. CASE a # f
    <2>1. {i \in DOMAIN <<a>> : <<a>>[i] = f} = {}
        BY <1>1, <1>3
    <2>. QED
        BY <1>3, <2>1, FS_EmptySet DEF Tally, Ind
<1>. QED
    BY <1>2, <1>3

LEMMA TallyNone ==
    ASSUME NEW S, NEW f
    PROVE  <<>> \in Seq(S) /\ Tally(<<>>, f) = 0
<1>1. {i \in DOMAIN <<>> : <<>>[i] = f} = {}
    OBVIOUS
<1>. QED
    BY <1>1, FS_EmptySet DEF Tally

LEMMA TallyTwo ==
    ASSUME NEW a, NEW b, NEW f
    PROVE  Tally(<<a, b>>, f) = Ind(a, f) + Ind(b, f)
<1>1. PICK w : w = <<a, b>>
    OBVIOUS
<1>2. DOMAIN w = {1, 2} /\ w[1] = a /\ w[2] = b
    <2>1. DOMAIN w = 1..2 /\ w[1] = a /\ w[2] = b
        BY <1>1
    <2>2. 1..2 = {1, 2}
        OBVIOUS
    <2>. QED
        BY <2>1, <2>2
<1>3. Chosen({1, 2}, w, f) = Ind(w[1], f) + Ind(w[2], f)
    BY PairCount
<1>4. Tally(w, f) = Chosen({1, 2}, w, f)
    BY <1>2 DEF Tally, Chosen
<1>. QED
    BY <1>1, <1>2, <1>3, <1>4

LEMMA TallyThree ==
    ASSUME NEW a, NEW b, NEW c, NEW f
    PROVE  Tally(<<a, b, c>>, f) = Ind(a, f) + Ind(b, f) + Ind(c, f)
<1>1. PICK w : w = <<a, b, c>>
    OBVIOUS
<1>2. DOMAIN w = {1, 2, 3} /\ w[1] = a /\ w[2] = b /\ w[3] = c
    BY <1>1
<1>3. Chosen({1, 2}, w, f) = Ind(a, f) + Ind(b, f)
    BY <1>2, PairCount
<1>4. PICK T : T = {i \in {1, 2} : w[i] = f}
    OBVIOUS
<1>5. PICK U : U = {i \in {1, 2, 3} : w[i] = f}
    OBVIOUS
<1>6. IsFiniteSet(T) /\ 3 \notin T
    <2>1. PICK n \in Nat : n = 2
        OBVIOUS
    <2>2. T \in SUBSET Nat /\ (\A i \in T : i <= n) /\ 3 \notin T
        BY <1>4, <2>1
    <2>. QED
        BY <2>2, FS_BoundedSetOfNaturals
<1>7. Cardinality(T) = Ind(a, f) + Ind(b, f)
    BY <1>3, <1>4 DEF Chosen
<1>8. Cardinality(U) = Cardinality(T) + Ind(c, f)
    <2>1. CASE c = f
        <3>1. U = T \cup {3}
            BY <1>2, <1>4, <1>5, <2>1
        <3>2. Cardinality(T \cup {3}) = Cardinality(T) + 1
            BY <1>6, FS_AddElement
        <3>. QED
            BY <2>1, <3>1, <3>2 DEF Ind
    <2>2. CASE c # f
        <3>1. U = T
            BY <1>2, <1>4, <1>5, <2>2
        <3>. QED
            BY <1>7, <2>2, <3>1, IndFact DEF Ind
    <2>. QED
        BY <2>1, <2>2
<1>9. Tally(w, f) = Cardinality(U)
    BY <1>2, <1>5 DEF Tally
<1>. QED
    BY <1>1, <1>7, <1>8, <1>9

-----------------------------------------------------------------------------
(* References to fences.                                                   *)

LEMMA SlotsFinite == IsFiniteSet(Slots)
<1>. DEFINE K == {"write", "read"}
            P == (Pixmaps \X Engines) \X K
            flat == [q \in P |-> <<q[1][1], q[1][2], q[2]>>]
<1>1. IsFiniteSet(Pixmaps) /\ IsFiniteSet(Engines) /\ IsFiniteSet(K)
    <2>1. \A x, y : IsFiniteSet({x} \cup {y})
        BY FS_Singleton, FS_AddElement
    <2>2. Engines = {"2D"} \cup {"3D"} /\ K = {"write"} \cup {"read"}
        BY DEF Engines
    <2>3. IsFiniteSet(Pixmaps)
        BY RenderAssumption
    <2>4. IsFiniteSet(Engines)
        BY <2>1, <2>2
    <2>5. IsFiniteSet(K)
        BY <2>1, <2>2
    <2>. QED
        BY <2>3, <2>4, <2>5
<1>2. IsFiniteSet(P)
    BY <1>1, FS_Product
<1>3. flat \in Surjection(P, Slots)
    <2>1. flat \in [P -> Slots]
        BY DEF Slots
    <2>2. ASSUME NEW s \in Slots PROVE \E q \in P : flat[q] = s
        <3>1. PICK p \in Pixmaps, e \in Engines, k \in K : s = <<p, e, k>>
            BY DEF Slots
        <3>2. <<<<p, e>>, k>> \in P /\ flat[<<<<p, e>>, k>>] = s
            BY <3>1
        <3>. QED
            BY <3>2
    <2>. QED
        BY <2>1, <2>2 DEF Surjection
<1>. QED
    BY <1>2, <1>3, FS_Surjection

Holders(f) == Cardinality({s \in Slots : held[s] = f})

LEMMA HoldersType == ASSUME NEW f PROVE Holders(f) \in Nat /\ Holders(f)' \in Nat
<1>1. \A h : IsFiniteSet({s \in Slots : h[s] = f})
    BY SlotsFinite, FS_Subset
<1>2. \A h : Cardinality({s \in Slots : h[s] = f}) \in Nat
    BY <1>1, FS_CardinalityType
<1>3. PICK k : k = held'
    OBVIOUS
<1>4. Holders(f)' = Cardinality({s \in Slots : k[s] = f})
    BY <1>3 DEF Holders
<1>. QED
    BY <1>2, <1>4 DEF Holders

\* What Replaced() adds and takes is what changes in the slots.
LEMMA ReplacedFact ==
    ASSUME NEW S \in SUBSET Slots, NEW h, Hold(S, h), NEW f \in Fences, NEW r, r[f] \in Int
    PROVE  Replaced(r, S, h)[f] = r[f] + Holders(f)' - Holders(f)
<1>. DEFINE A   == {s \in Slots : held[s] = f}
            N   == {s \in Slots : held'[s] = f}
            old == {s \in S : held[s] # h}
            B   == {s \in old : held[s] = f}
<1>1. \A s \in Slots : held'[s] = IF s \in S THEN h ELSE held[s]
    BY DEF Hold
<1>2. Replaced(r, S, h)[f] = r[f] + (IF f = h THEN Cardinality(old) ELSE 0) - Cardinality(B)
    BY DEF Replaced
<1>3. old \subseteq Slots /\ B \subseteq Slots /\ A \subseteq Slots /\ N \subseteq Slots
    OBVIOUS
<1>4. IsFiniteSet(old) /\ IsFiniteSet(A) /\ IsFiniteSet(B) /\ IsFiniteSet(N)
    BY <1>3, SlotsFinite, FS_Subset
<1>5. Cardinality(old) \in Nat /\ Cardinality(A) \in Nat /\ Cardinality(B) \in Nat /\ Cardinality(N) \in Nat
    BY <1>4, FS_CardinalityType
<1>6. CASE f = h
    <2>1. B = {} /\ N = A \cup old /\ A \cap old = {}
        BY <1>1, <1>6
    <2>2. Cardinality(B) = 0
        BY <2>1, FS_EmptySet
    <2>3. Cardinality(A \cup old) = Cardinality(A) + Cardinality(old)
        BY <1>4, <2>1, DisjointUnion
    <2>4. Cardinality(N) = Cardinality(A) + Cardinality(old)
        BY <2>1, <2>3
    <2>5. Holders(f) = Cardinality(A) /\ Holders(f)' = Cardinality(N)
        BY DEF Holders
    <2>6. Replaced(r, S, h)[f] = r[f] + Cardinality(old) - 0
        BY <1>2, <1>6, <2>2
    <2>. HIDE DEF A, N, old, B
    <2>. QED
        BY <1>5, <2>4, <2>5, <2>6
<1>7. CASE f # h
    <2>1. A = N \cup B /\ N \cap B = {}
        BY <1>1, <1>7
    <2>2. Cardinality(N \cup B) = Cardinality(N) + Cardinality(B)
        BY <1>4, <2>1, DisjointUnion
    <2>. QED
        BY <1>2, <1>5, <1>7, <2>1, <2>2 DEF Holders
<1>. QED
    BY <1>6, <1>7

LEMMA CountFact ==
    ASSUME NEW r, NEW gets \in Seq(Handle), NEW puts \in Seq(Handle), NEW f \in Fences
    PROVE  Count(r, gets, puts)[f] = r[f] + Tally(gets, f) - Tally(puts, f)
BY DEF Count, Tally

\* The references of the streams and of the deferred job.
Owed(f) == Ind(last["2D"], f) + Ind(last["3D"], f)
           + Ind(batch.job_fence, f) + Ind(batch.explicit_fence, f)

StreamRefs(l, f)   == Cardinality({e \in Engines : l[e] = f})
BatchRefs(j, x, f) ==
    Cardinality({y \in {"job", "explicit"} : (IF y = "job" THEN j ELSE x) = f})

LEMMA StreamFact ==
    ASSUME NEW l, NEW f
    PROVE  StreamRefs(l, f) = Ind(l["2D"], f) + Ind(l["3D"], f)
<1>1. PICK a : a = "2D"
    OBVIOUS
<1>2. PICK b : b = "3D"
    OBVIOUS
<1>3. a # b /\ Engines = {a, b}
    BY <1>1, <1>2 DEF Engines
<1>4. Chosen({a, b}, l, f) = Ind(l[a], f) + Ind(l[b], f)
    BY <1>3, PairCount
<1>. QED
    BY <1>1, <1>2, <1>3, <1>4 DEF Chosen, StreamRefs

LEMMA BatchRefsFact ==
    ASSUME NEW j, NEW x, NEW f
    PROVE  BatchRefs(j, x, f) = Ind(j, f) + Ind(x, f)
<1>1. PICK a : a = "job"
    OBVIOUS
<1>2. PICK b : b = "explicit"
    OBVIOUS
<1>3. PICK g : g = [y \in {a, b} |-> IF y = a THEN j ELSE x]
    OBVIOUS
<1>4. a # b /\ {"job", "explicit"} = {a, b}
    BY <1>1, <1>2
<1>5. Chosen({a, b}, g, f) = Ind(g[a], f) + Ind(g[b], f)
    BY <1>4, PairCount
<1>6. g[a] = j /\ g[b] = x
    BY <1>3, <1>4
<1>7. {y \in {a, b} : (IF y = a THEN j ELSE x) = f} = {y \in {a, b} : g[y] = f}
    BY <1>3
<1>. QED
    BY <1>1, <1>2, <1>5, <1>6, <1>7 DEF Chosen, BatchRefs

LEMMA RefsForm ==
    /\ RefsExact <=> \A f \in Fences : refs[f] = Holders(f) + Owed(f)
    /\ RefsExact' <=> \A f \in Fences : refs'[f] = Holders(f)' + Owed(f)'
<1>1. /\ RefsExact <=> \A f \in Fences : refs[f] = Holders(f) + StreamRefs(last, f)
                          + BatchRefs(batch.job_fence, batch.explicit_fence, f)
      /\ RefsExact' <=> \A f \in Fences : refs'[f] = Holders(f)' + StreamRefs(last', f)
                          + BatchRefs(batch'.job_fence, batch'.explicit_fence, f)
    BY DEF RefsExact, Holders, StreamRefs, BatchRefs
<1>2. ASSUME NEW l, NEW j, NEW x, NEW f
      PROVE  StreamRefs(l, f) + BatchRefs(j, x, f)
             = Ind(l["2D"], f) + Ind(l["3D"], f) + Ind(j, f) + Ind(x, f)
    BY StreamFact, BatchRefsFact, IndFact
<1>3. ASSUME NEW f PROVE Owed(f) = StreamRefs(last, f) + BatchRefs(batch.job_fence, batch.explicit_fence, f)
    BY <1>2 DEF Owed
<1>4. ASSUME NEW f PROVE Owed(f)' = StreamRefs(last', f) + BatchRefs(batch'.job_fence, batch'.explicit_fence, f)
    <2>1. PICK l : l = last'
        OBVIOUS
    <2>2. PICK j : j = batch'.job_fence
        OBVIOUS
    <2>3. PICK x : x = batch'.explicit_fence
        OBVIOUS
    <2>. QED
        BY <1>2, <2>1, <2>2, <2>3 DEF Owed
<1>5. \A l, j, x, f : StreamRefs(l, f) \in Nat /\ BatchRefs(j, x, f) \in Nat
    BY StreamFact, BatchRefsFact, IndFact
<1>. QED
    BY <1>1, <1>3, <1>4, <1>5, HoldersType

LEMMA OwedType == ASSUME NEW f PROVE Owed(f) \in Nat /\ Owed(f)' \in Nat
<1>1. Owed(f) \in Nat
    BY IndFact DEF Owed
<1>2. PICK a : a = last'["2D"]
    OBVIOUS
<1>3. PICK b : b = last'["3D"]
    OBVIOUS
<1>4. PICK c : c = batch'.job_fence
    OBVIOUS
<1>5. PICK d : d = batch'.explicit_fence
    OBVIOUS
<1>6. Ind(a, f) + Ind(b, f) + Ind(c, f) + Ind(d, f) \in Nat
    BY IndFact
<1>. QED
    BY <1>1, <1>2, <1>3, <1>4, <1>5, <1>6 DEF Owed

\* The references of every fence change as its holders do.
LEMMA RefsStep ==
    ASSUME RefsExact, NEW H, NEW W, NEW V,
           \A f \in Fences : /\ W[f] = Owed(f)' /\ V[f] = Holders(f)'
                             /\ refs'[f] = refs[f] + (V[f] - Holders(f)) + (W[f] - Owed(f))
    PROVE  RefsExact'
<1>1. ASSUME NEW f \in Fences PROVE refs'[f] = Holders(f)' + Owed(f)'
    <2>1. refs[f] = Holders(f) + Owed(f)
        BY RefsForm
    <2>2. PICK h \in Nat : h = Holders(f)
        BY HoldersType
    <2>3. PICK o \in Nat : o = Owed(f)
        BY OwedType
    <2>4. PICK v \in Nat : v = V[f] /\ v = Holders(f)'
        BY HoldersType
    <2>5. PICK w \in Nat : w = W[f] /\ w = Owed(f)'
        BY OwedType
    <2>6. refs'[f] = (h + o) + (v - h) + (w - o)
        BY <2>1, <2>2, <2>3, <2>4, <2>5
    <2>7. refs'[f] = v + w
        BY <2>6
    <2>. QED
        BY <2>4, <2>5, <2>7
<1>. QED
    BY <1>1, RefsForm

\* Puts of some fences, and of that of a job if it was refused.
PutsOf(puts, s, j, out) == puts = s \o (IF out = NoFence THEN <<j>> ELSE <<>>)

LEMMA PutsFact ==
    ASSUME NEW s \in Seq(Handle), NEW j \in Handle, NEW out, out = j \/ out = NoFence,
           NEW f \in Fences, NEW puts, PutsOf(puts, s, j, out)
    PROVE  puts \in Seq(Handle) /\ Tally(puts, f) = Tally(s, f) + Ind(j, f) - Ind(out, f)
<1>0. f # NoFence
    BY NumbersFact
<1>1. CASE out = NoFence
    <2>1. PICK t : t = <<j>>
        OBVIOUS
    <2>2. t \in Seq(Handle) /\ Tally(t, f) = Ind(j, f)
        BY <2>1, TallyOne
    <2>3. puts = s \o t
        BY <1>1, <2>1 DEF PutsOf
    <2>6. Tally(s \o t, f) = Tally(s, f) + Tally(t, f) /\ Tally(s, f) \in Nat
        BY <2>2, TallyConcat
    <2>4. Tally(puts, f) = Tally(s, f) + Tally(t, f) /\ Tally(s, f) \in Nat
        BY <2>3, <2>6
    <2>5. Ind(out, f) = 0 /\ Ind(j, f) \in Nat
        BY <1>0, <1>1, IndFact
    <2>. QED
        BY <2>2, <2>3, <2>4, <2>5
<1>2. CASE out # NoFence
    <2>1. puts = s \o <<>> /\ out = j
        BY <1>2 DEF PutsOf
    <2>2. s \o <<>> = s
        OBVIOUS
    <2>3. Tally(s, f) \in Nat /\ Ind(j, f) \in Nat
        BY TallyType, IndFact
    <2>. QED
        BY <2>1, <2>2, <2>3
<1>. QED
    BY <1>1, <1>2

LEMMA IndNone == \A f \in Fences : Ind(NoFence, f) = 0
BY NumbersFact DEF Ind

LEMMA HoldersKept == ASSUME held' = held PROVE \A f : Holders(f)' = Holders(f)
BY DEF Holders

LEMMA StillRefs ==
    ASSUME RefsExact, UNCHANGED <<fences, batch>>
    PROVE  RefsExact'
BY DEF RefsExact, fences

LEMMA SubmitLast ==
    ASSUME GpuInv, NEW e \in Engines, NEW f, NEW ops, NEW x, NEW out, Submit(e, f, ops, x, out)
    PROVE  last'[e] = out /\ last'[Other(e)] = last[Other(e)]
<1>1. last \in [Engines -> Handle] /\ Other(e) \in Engines /\ Other(e) # e
    BY EnginesFact DEF GpuInv, GpuType, Other, Engines
<1>. QED
    BY <1>1 DEF Submit

LEMMA FlushRefs ==
    ASSUME GpuInv, RefsExact, FlushBatch
    PROVE  RefsExact'
<1>1. PICK out \in {batch.job_fence, NoFence} :
        /\ Submit("3D", batch.job_fence, batch.ops, batch.explicit_fence, out)
        /\ refs' = Count(refs, <<>>,
                         <<last["3D"], batch.explicit_fence>> \o
                         (IF out = NoFence THEN <<batch.job_fence>> ELSE <<>>))
        /\ batch' = NoBatch
        /\ held' = held
    BY DEF FlushBatch
<1>2. last'["3D"] = out /\ last'["2D"] = last["2D"]
    BY <1>1, SubmitLast, EnginesFact
<1>3. PICK a \in Handle : a = last["3D"]
    BY LastFact, EnginesFact
<1>4. PICK j \in Handle : j = batch.job_fence
    BY BatchFact
<1>5. PICK x \in Handle : x = batch.explicit_fence
    BY BatchFact
<1>6. PICK s : s = <<a, x>>
    OBVIOUS
<1>7. PICK puts : puts = s \o (IF out = NoFence THEN <<j>> ELSE <<>>)
    OBVIOUS
<1>8. PICK none : none = <<>>
    OBVIOUS
<1>9. refs' = Count(refs, none, puts)
    BY <1>1, <1>3, <1>4, <1>5, <1>6, <1>7, <1>8
<1>10. PICK b \in Handle : b = last["2D"]
    BY LastFact, EnginesFact
<1>11. ASSUME NEW f \in Fences
       PROVE  refs'[f] = Holders(f)' + Owed(f)'
    <2>1. s \in Seq(Handle) /\ none \in Seq(Handle) /\ Tally(none, f) = 0
        BY <1>6, <1>8, TallyNone
    <2>2. Tally(s, f) = Ind(a, f) + Ind(x, f)
        BY <1>6, TallyTwo
    <2>3. (out = j \/ out = NoFence) /\ PutsOf(puts, s, j, out)
        BY <1>1, <1>4, <1>7 DEF PutsOf
    <2>4. puts \in Seq(Handle) /\ Tally(puts, f) = Tally(s, f) + Ind(j, f) - Ind(out, f)
        BY <2>1, <2>3, PutsFact
    <2>5. refs'[f] = refs[f] + Tally(none, f) - Tally(puts, f)
        <3>1. Count(refs, none, puts)[f] = refs[f] + Tally(none, f) - Tally(puts, f)
            BY <2>1, <2>4, CountFact
        <3>. QED
            BY <1>9, <3>1
    <2>6. refs[f] = Holders(f) + (Ind(b, f) + Ind(a, f) + Ind(j, f) + Ind(x, f))
        BY <1>3, <1>4, <1>5, <1>10, RefsForm DEF Owed
    <2>7. Owed(f)' = Ind(b, f) + Ind(out, f) + 0 + 0
        BY <1>1, <1>2, <1>10, IndNone, NoBatchFact DEF Owed
    <2>8. Holders(f)' = Holders(f) /\ Holders(f) \in Nat
        BY <1>1, HoldersKept, HoldersType
    <2>9. /\ Ind(a, f) \in Nat /\ Ind(b, f) \in Nat /\ Ind(x, f) \in Nat
          /\ Ind(j, f) \in Nat /\ Ind(out, f) \in Nat
        BY IndFact
    <2>10. refs'[f] = Holders(f) + (Ind(b, f) + Ind(out, f) + 0 + 0)
        <3>1. PICK h \in Nat, ka \in Nat, kb \in Nat, kx \in Nat, kj \in Nat, ko \in Nat :
                 /\ h = Holders(f) /\ ka = Ind(a, f) /\ kb = Ind(b, f) /\ kx = Ind(x, f)
                 /\ kj = Ind(j, f) /\ ko = Ind(out, f)
            BY <2>8, <2>9
        <3>2. Tally(s, f) = ka + kx
            BY <2>2, <3>1
        <3>3. Tally(puts, f) = ka + kx + kj - ko
            BY <2>4, <3>1, <3>2
        <3>4. refs[f] = h + (kb + ka + kj + kx)
            BY <2>6, <3>1
        <3>5. refs'[f] = h + (kb + ka + kj + kx) + 0 - (ka + kx + kj - ko)
            BY <2>1, <2>5, <3>3, <3>4
        <3>. QED
            BY <3>1, <3>5
    <2>. QED
        BY <2>7, <2>8, <2>10
<1>. QED
    BY <1>11, RefsForm

LEMMA CancelRefs ==
    ASSUME GpuInv, RefsExact, NEW p \in Pixmaps, CancelDeferred(p)
    PROVE  RefsExact'
<1>1. CASE Cancellable(p)
    <2>1. /\ refs' = Count(refs, <<>>, <<batch.job_fence, batch.explicit_fence>>)
          /\ batch' = NoBatch /\ held' = held /\ last' = last
        BY <1>1 DEF CancelDeferred, ResetBatch
    <2>2. PICK j \in Handle : j = batch.job_fence
        BY BatchFact
    <2>3. PICK x \in Handle : x = batch.explicit_fence
        BY BatchFact
    <2>4. PICK puts : puts = <<j, x>>
        OBVIOUS
    <2>5. PICK none : none = <<>>
        OBVIOUS
    <2>6. refs' = Count(refs, none, puts)
        BY <2>1, <2>2, <2>3, <2>4, <2>5
    <2>7. PICK a : a = last["2D"]
        OBVIOUS
    <2>8. PICK b : b = last["3D"]
        OBVIOUS
    <2>9. ASSUME NEW f \in Fences
          PROVE  refs'[f] = Holders(f)' + Owed(f)'
        <3>1. /\ puts \in Seq(Handle) /\ none \in Seq(Handle) /\ Tally(none, f) = 0
              /\ Tally(puts, f) = Ind(j, f) + Ind(x, f)
            BY <2>4, <2>5, TallyTwo, TallyNone
        <3>2. refs'[f] = refs[f] + Tally(none, f) - Tally(puts, f)
            BY <2>6, <3>1, CountFact
        <3>3. refs[f] = Holders(f) + (Ind(a, f) + Ind(b, f) + Ind(j, f) + Ind(x, f))
            BY <2>2, <2>3, <2>7, <2>8, RefsForm DEF Owed
        <3>4. Owed(f)' = Ind(a, f) + Ind(b, f) + 0 + 0
            BY <2>1, <2>7, <2>8, IndNone, NoBatchFact DEF Owed
        <3>5. Holders(f)' = Holders(f) /\ Holders(f) \in Nat
            BY <2>1, HoldersKept, HoldersType
        <3>6. /\ Ind(a, f) \in Nat /\ Ind(b, f) \in Nat /\ Ind(x, f) \in Nat
              /\ Ind(j, f) \in Nat
            BY IndFact
        <3>7. refs'[f] = Holders(f) + (Ind(a, f) + Ind(b, f) + 0 + 0)
            BY <3>1, <3>2, <3>3, <3>5, <3>6
        <3>. QED
            BY <3>4, <3>5, <3>7
    <2>. QED
        BY <2>9, RefsForm
<1>2. CASE ~ Cancellable(p) /\ NeedsFlush(p, TRUE, TRUE)
    BY <1>2, FlushRefs DEF CancelDeferred
<1>3. CASE ~ Cancellable(p) /\ ~ NeedsFlush(p, TRUE, TRUE)
    BY <1>3, StillRefs DEF CancelDeferred, NoFlush
<1>. QED
    BY <1>1, <1>2, <1>3

\* A wait puts the fences of its slots.
LEMMA WaitRefs ==
    ASSUME GpuInv, RefsExact, Wait, me.slots \in SUBSET Slots
    PROVE  RefsExact'
<1>1. PICK S \in SUBSET Slots : S = me.slots
    OBVIOUS
<1>2. /\ Hold(S, NoFence) /\ refs' = Replaced(refs, S, NoFence)
      /\ last' = last /\ batch' = batch
    BY <1>1 DEF Wait
<1>3. ASSUME NEW f \in Fences PROVE refs'[f] = Holders(f)' + Owed(f)'
    <2>1. refs[f] = Holders(f) + Owed(f)
        BY RefsForm
    <2>2. Holders(f) \in Nat /\ Holders(f)' \in Nat /\ Owed(f) \in Nat
        BY HoldersType, OwedType
    <2>3. refs[f] \in Int
        BY <2>1, <2>2
    <2>4. refs'[f] = refs[f] + Holders(f)' - Holders(f)
        BY <1>2, <2>3, ReplacedFact
    <2>5. Owed(f)' = Owed(f)
        BY <1>2 DEF Owed
    <2>6. PICK h \in Nat : h = Holders(f)'
        BY <2>2
    <2>. QED
        BY <2>1, <2>2, <2>4, <2>5, <2>6
<1>. QED
    BY <1>3, RefsForm

LEMMA SubmitRefs ==
    ASSUME GpuInv, RefsExact, SubmitJob, me.pix \in Pixmaps, me.srcs \in SUBSET Pixmaps
    PROVE  RefsExact'
<1>1. PICK S : S = {<<me.pix, "2D", "write">>} \cup {<<p, "2D", "read">> : p \in me.srcs}
    OBVIOUS
<1>2. S \in SUBSET Slots
    BY <1>1 DEF Slots, Engines
<1>3. PICK n \in Handle : n = seqno
    BY SeqnoFact, NumbersFact
<1>4. PICK a \in Handle : a = last["2D"]
    BY LastFact, EnginesFact
<1>5. PICK b \in Handle : b = last["3D"]
    BY LastFact, EnginesFact
<1>6. PICK s : s = <<a>>
    OBVIOUS
<1>7. PICK got : got = <<n>>
    OBVIOUS
<1>8. \E out \in {n, NoFence} :
        /\ Submit("2D", n, me.ops, ExplicitFence("3D", me.pix, me.srcs), out)
        /\ refs' = Replaced(Count(refs, got, s \o (IF out = NoFence THEN <<n>> ELSE <<>>)), S, out)
        /\ Hold(S, out)
    BY <1>1, <1>3, <1>4, <1>6, <1>7 DEF SubmitJob
<1>9. PICK out \in {n, NoFence} :
        /\ Submit("2D", n, me.ops, ExplicitFence("3D", me.pix, me.srcs), out)
        /\ refs' = Replaced(Count(refs, got, s \o (IF out = NoFence THEN <<n>> ELSE <<>>)), S, out)
        /\ Hold(S, out)
    BY <1>8
<1>10. PICK puts : PutsOf(puts, s, n, out)
    BY DEF PutsOf
<1>11. PICK r : r = Count(refs, got, puts)
    OBVIOUS
<1>12. refs' = Replaced(r, S, out) /\ Hold(S, out) /\ batch' = batch
    BY <1>9, <1>10, <1>11 DEF PutsOf, SubmitJob
<1>13. last'["2D"] = out /\ last'["3D"] = b
    BY <1>5, <1>9, SubmitLast, EnginesFact
<1>14. PICK j : j = batch.job_fence
    OBVIOUS
<1>15. PICK x : x = batch.explicit_fence
    OBVIOUS
<1>16. ASSUME NEW f \in Fences PROVE refs'[f] = Holders(f)' + Owed(f)'
    <2>1. s \in Seq(Handle) /\ Tally(s, f) = Ind(a, f)
        BY <1>6, TallyOne
    <2>2. got \in Seq(Handle) /\ Tally(got, f) = Ind(n, f)
        BY <1>7, TallyOne
    <2>3. puts \in Seq(Handle) /\ Tally(puts, f) = Tally(s, f) + Ind(n, f) - Ind(out, f)
        BY <1>10, <2>1, PutsFact
    <2>4. r[f] = refs[f] + Tally(got, f) - Tally(puts, f)
        BY <1>11, <2>2, <2>3, CountFact
    <2>5. refs[f] = Holders(f) + (Ind(a, f) + Ind(b, f) + Ind(j, f) + Ind(x, f))
        BY <1>4, <1>5, <1>14, <1>15, RefsForm DEF Owed
    <2>6. Owed(f)' = Ind(out, f) + Ind(b, f) + Ind(j, f) + Ind(x, f)
        BY <1>12, <1>13, <1>14, <1>15 DEF Owed
    <2>7. /\ Ind(a, f) \in Nat /\ Ind(b, f) \in Nat /\ Ind(x, f) \in Nat
          /\ Ind(j, f) \in Nat /\ Ind(out, f) \in Nat /\ Ind(n, f) \in Nat
        BY IndFact
    <2>8. PICK h \in Nat : h = Holders(f)'
        BY HoldersType
    <2>9. PICK g \in Nat : g = Holders(f)
        BY HoldersType
    <2>10. r[f] = g + Ind(out, f) + Ind(b, f) + Ind(j, f) + Ind(x, f)
        <3>1. r[f] = (g + (Ind(a, f) + Ind(b, f) + Ind(j, f) + Ind(x, f))) + Ind(n, f)
                     - (Ind(a, f) + Ind(n, f) - Ind(out, f))
            BY <2>1, <2>2, <2>3, <2>4, <2>5, <2>9
        <3>. QED
            BY <2>7, <2>9, <3>1
    <2>11. refs'[f] = r[f] + h - g
        <3>1. r[f] \in Int
            BY <2>7, <2>10
        <3>. QED
            BY <1>2, <1>12, <2>8, <2>9, <3>1, ReplacedFact
    <2>. QED
        BY <2>6, <2>7, <2>8, <2>10, <2>11
<1>. QED
    BY <1>16, RefsForm

\* Of two fences one is the latest, the other one is put.
LEMMA OutdatedFact ==
    ASSUME GpuInv, NEW x \in Handle
    PROVE  /\ Latest({batch.explicit_fence, x}) \in Handle /\ Outdated(x) \in Handle
           /\ \A f \in Fences : Ind(x, f) + Ind(batch.explicit_fence, f)
                 = Ind(Latest({batch.explicit_fence, x}), f) + Ind(Outdated(x), f)
<1>1. PICK e \in Handle : e = batch.explicit_fence
    BY BatchFact
<1>2. PICK y : y = Latest({e, x})
    OBVIOUS
<1>3. y \in Handle /\ e <= y /\ x <= y /\ (y = NoFence \/ y = e \/ y = x)
    BY <1>2, LatestFact
<1>4. e \in Nat /\ x \in Nat /\ y \in Nat /\ NoFence = 0
    BY <1>3, NumbersFact
<1>5. y = IF x > e THEN x ELSE e
    BY <1>3, <1>4
<1>6. Outdated(x) = IF x > e THEN e ELSE x
    BY <1>1 DEF Outdated
<1>7. ASSUME NEW f \in Fences
      PROVE  Ind(x, f) + Ind(e, f) = Ind(y, f) + Ind(Outdated(x), f)
    <2>1. Ind(x, f) \in Nat /\ Ind(e, f) \in Nat
        BY IndFact
    <2>2. CASE x > e
        <3>1. y = x /\ Outdated(x) = e
            BY <1>5, <1>6, <2>2
        <3>. QED
            BY <3>1
    <2>3. CASE ~ (x > e)
        <3>1. y = e /\ Outdated(x) = x
            BY <1>5, <1>6, <2>3
        <3>. QED
            BY <2>1, <3>1
    <2>. QED
        BY <2>2, <2>3
<1>8. Outdated(x) \in Handle
    BY <1>6
<1>. QED
    BY <1>1, <1>2, <1>3, <1>7, <1>8

LEMMA AppendRefs ==
    ASSUME GpuInv, RefsExact, AppendJob, NEW d \in Pixmaps, NEW src \in Operands, NEW mask \in Operands,
           req.want.dst = d, me.src = src, req.mask = mask, req.src \in Operands
    PROVE  RefsExact'
<1>. DEFINE reads == Textures(src, mask)
            x0 == ExplicitFence("2D", d, {reads[i] : i \in DOMAIN reads})
            f0 == IF batch.job_fence = NoFence THEN seqno ELSE batch.job_fence
            S0 == {<<d, "3D", "write">>} \cup
                    {<<t.pix, "3D", "read">> :
                        t \in {u \in {req.src, mask} : ~ IsSolid(u)}}
            ops0 == batch.ops \o [i \in DOMAIN req.ops |-> [req.ops[i] EXCEPT !.src = me.src]]
<1>1. PICK x : x = x0
    OBVIOUS
<1>2. PICK n : n = f0
    OBVIOUS
<1>3. PICK S : S = S0
    OBVIOUS
<1>4. PICK y : y = Latest({batch.explicit_fence, x})
    OBVIOUS
<1>5. PICK got : got = <<x>> \o (IF batch.job_fence = NoFence THEN <<n>> ELSE <<>>)
    OBVIOUS
<1>6. PICK old : old = <<Outdated(x)>>
    OBVIOUS
<1>7. PICK known : known = Count(refs, got, old)
    OBVIOUS
<1>8. PICK ops : ops = ops0
    OBVIOUS
<1>9. IF TooMany(reads)
      THEN \E out \in {n, NoFence} :
           /\ Submit("3D", n, ops, y, out)
           /\ LET put == Count(known, <<>>, <<last["3D"], y>> \o
                               (IF out = NoFence THEN <<n>> ELSE <<>>))
              IN  IF out = NoFence
                  THEN refs' = put /\ UNCHANGED held
                  ELSE refs' = Replaced(put, S, n) /\ Hold(S, n)
           /\ batch' = NoBatch
      ELSE /\ batch'.explicit_fence = y /\ batch'.job_fence = n
           /\ Hold(S, n)
           /\ refs' = Replaced(known, S, n)
           /\ last' = last
    BY <1>1, <1>2, <1>3, <1>4, <1>5, <1>6, <1>7, <1>8 DEF AppendJob
<1>10. S \in SUBSET Slots
    <2>1. \A t \in {req.src, mask} : ~ IsSolid(t) => t.pix \in Pixmaps
        BY DEF Operands, IsSolid, Solid, Texture
    <2>. QED
        BY <1>3, <2>1 DEF Slots, Engines
<1>11. n \in Handle
    BY <1>2, BatchFact, SeqnoFact, NumbersFact
<1>12. x \in Handle
    <2>1. \A p \in Pixmaps : /\ held[<<p, "2D", "write">>] \in Handle
                             /\ held[<<p, "2D", "read">>] \in Handle
        BY SlotsFact, EnginesFact DEF GpuInv, GpuType
    <2>2. {reads[i] : i \in DOMAIN reads} \in SUBSET Pixmaps
        BY TexturesFact
    <2>3. x = Latest({held[<<p, "2D", "write">>] : p \in {reads[i] : i \in DOMAIN reads} \cup {d}}
                     \cup {held[<<d, "2D", "read">>]})
        BY <1>1 DEF ExplicitFence
    <2>4. {held[<<p, "2D", "write">>] : p \in {reads[i] : i \in DOMAIN reads} \cup {d}}
          \cup {held[<<d, "2D", "read">>]} \subseteq Handle
        <3>1. PICK R \in SUBSET Pixmaps : R = {reads[i] : i \in DOMAIN reads} \cup {d}
            BY <2>2
        <3>2. {held[<<p, "2D", "write">>] : p \in R} \subseteq Handle
            BY <2>1
        <3>3. held[<<d, "2D", "read">>] \in Handle
            BY <2>1
        <3>. QED
            BY <3>1, <3>2, <3>3
    <2>. QED
        BY <2>3, <2>4, LatestFact
<1>. HIDE DEF reads, x0, f0, S0, ops0
<1>13. y \in Handle /\ Outdated(x) \in Handle
    BY <1>4, <1>12, OutdatedFact
<1>14. PICK a \in Handle : a = last["3D"]
    BY LastFact, EnginesFact
<1>15. PICK b \in Handle : b = last["2D"]
    BY LastFact, EnginesFact
<1>16. PICK j \in Handle : j = batch.job_fence
    BY BatchFact
<1>17. PICK e \in Handle : e = batch.explicit_fence
    BY BatchFact
<1>18. n = IF j = NoFence THEN seqno ELSE j
    BY <1>2, <1>16 DEF f0
<1>19. ASSUME NEW f \in Fences
       PROVE  known[f] = Holders(f) + Ind(b, f) + Ind(a, f) + Ind(n, f) + Ind(y, f)
    <2>1. old \in Seq(Handle) /\ Tally(old, f) = Ind(Outdated(x), f)
        BY <1>6, <1>13, TallyOne
    <2>2. got \in Seq(Handle) /\ Tally(got, f) = Ind(x, f) + Ind(n, f) - Ind(j, f)
        <3>1. PICK s : s = <<x>>
            OBVIOUS
        <3>2. s \in Seq(Handle) /\ Tally(s, f) = Ind(x, f)
            BY <1>12, <3>1, TallyOne
        <3>3. PICK out : out = IF j = NoFence THEN NoFence ELSE n
            OBVIOUS
        <3>4. (out = n \/ out = NoFence) /\ out = j
            BY <1>18, <3>3
        <3>5. PutsOf(got, s, n, out)
            BY <1>5, <1>16, <3>1, <3>4 DEF PutsOf
        <3>6. got \in Seq(Handle) /\ Tally(got, f) = Tally(s, f) + Ind(n, f) - Ind(out, f)
            BY <1>11, <3>2, <3>4, <3>5, PutsFact
        <3>. QED
            BY <3>2, <3>4, <3>6
    <2>3. known[f] = refs[f] + Tally(got, f) - Tally(old, f)
        BY <1>7, <2>1, <2>2, CountFact
    <2>4. refs[f] = Holders(f) + (Ind(b, f) + Ind(a, f) + Ind(j, f) + Ind(e, f))
        BY <1>14, <1>15, <1>16, <1>17, RefsForm DEF Owed
    <2>5. Ind(x, f) + Ind(e, f) = Ind(y, f) + Ind(Outdated(x), f)
        BY <1>4, <1>12, <1>17, OutdatedFact
    <2>6. /\ Ind(a, f) \in Nat /\ Ind(b, f) \in Nat /\ Ind(j, f) \in Nat /\ Ind(e, f) \in Nat
          /\ Ind(x, f) \in Nat /\ Ind(y, f) \in Nat /\ Ind(n, f) \in Nat
          /\ Ind(Outdated(x), f) \in Nat
        BY IndFact
    <2>7. PICK g \in Nat : g = Holders(f)
        BY HoldersType
    <2>8. PICK o \in Nat : o = Ind(Outdated(x), f)
        BY <2>6
    <2>9. known[f] = (g + (Ind(b, f) + Ind(a, f) + Ind(j, f) + Ind(e, f)))
                     + (Ind(x, f) + Ind(n, f) - Ind(j, f)) - o
        BY <2>1, <2>2, <2>3, <2>4, <2>7, <2>8
    <2>10. Ind(x, f) + Ind(e, f) = Ind(y, f) + o
        BY <2>5, <2>8
    <2>11. known[f] = g + Ind(b, f) + Ind(a, f) + Ind(n, f) + Ind(y, f)
        BY <2>6, <2>7, <2>8, <2>9, <2>10
    <2>. QED
        BY <2>7, <2>11
<1>20. ASSUME TooMany(reads), NEW f \in Fences PROVE refs'[f] = Holders(f)' + Owed(f)'
    <2>1. PICK s : s = <<a, y>>
        OBVIOUS
    <2>2. PICK none : none = <<>>
        OBVIOUS
    <2>3. \E out \in {n, NoFence} :
           /\ Submit("3D", n, ops, y, out)
           /\ LET put == Count(known, none, s \o (IF out = NoFence THEN <<n>> ELSE <<>>))
              IN  IF out = NoFence
                  THEN refs' = put /\ UNCHANGED held
                  ELSE refs' = Replaced(put, S, n) /\ Hold(S, n)
           /\ batch' = NoBatch
        BY <1>9, <1>14, <1>20, <2>1, <2>2
    <2>4. PICK out \in {n, NoFence} :
           /\ Submit("3D", n, ops, y, out)
           /\ LET put == Count(known, none, s \o (IF out = NoFence THEN <<n>> ELSE <<>>))
              IN  IF out = NoFence
                  THEN refs' = put /\ UNCHANGED held
                  ELSE refs' = Replaced(put, S, n) /\ Hold(S, n)
           /\ batch' = NoBatch
        BY <2>3
    <2>5. PICK puts : PutsOf(puts, s, n, out)
        BY DEF PutsOf
    <2>6. PICK put : put = Count(known, none, puts)
        OBVIOUS
    <2>7. IF out = NoFence THEN refs' = put /\ held' = held
          ELSE refs' = Replaced(put, S, n) /\ Hold(S, n)
        BY <2>4, <2>5, <2>6 DEF PutsOf
    <2>8. last'["3D"] = out /\ last'["2D"] = b
        BY <1>15, <2>4, SubmitLast, EnginesFact
    <2>9. /\ s \in Seq(Handle) /\ none \in Seq(Handle) /\ Tally(none, f) = 0
          /\ Tally(s, f) = Ind(a, f) + Ind(y, f)
        BY <1>13, <2>1, <2>2, TallyTwo, TallyNone
    <2>10. puts \in Seq(Handle) /\ Tally(puts, f) = Tally(s, f) + Ind(n, f) - Ind(out, f)
        BY <1>11, <2>5, <2>9, PutsFact
    <2>11. put[f] = known[f] + Tally(none, f) - Tally(puts, f)
        <3>1. Count(known, none, puts)[f] = known[f] + Tally(none, f) - Tally(puts, f)
            BY <2>9, <2>10, CountFact
        <3>. QED
            BY <2>6, <3>1
    <2>12. PICK g \in Nat : g = Holders(f)
        BY HoldersType
    <2>13. /\ Ind(a, f) \in Nat /\ Ind(b, f) \in Nat /\ Ind(y, f) \in Nat
           /\ Ind(n, f) \in Nat /\ Ind(out, f) \in Nat
        BY IndFact
    <2>14. put[f] = g + Ind(b, f) + Ind(out, f)
        <3>1. known[f] = g + Ind(b, f) + Ind(a, f) + Ind(n, f) + Ind(y, f)
            BY <1>19, <2>12
        <3>2. put[f] = (g + Ind(b, f) + Ind(a, f) + Ind(n, f) + Ind(y, f)) + 0
                       - ((Ind(a, f) + Ind(y, f)) + Ind(n, f) - Ind(out, f))
            BY <2>9, <2>10, <2>11, <3>1
        <3>. QED
            BY <2>12, <2>13, <3>2
    <2>15. PICK h \in Nat : h = Holders(f)'
        BY HoldersType
    <2>16. refs'[f] = put[f] + h - g
        <3>1. put[f] \in Int
            BY <2>13, <2>14
        <3>2. CASE out = NoFence
            <4>1. refs' = put /\ h = g
                BY <2>7, <2>12, <2>15, <3>2, HoldersKept
            <4>. QED
                BY <3>1, <4>1
        <3>3. CASE out # NoFence
            <4>1. refs' = Replaced(put, S, n) /\ Hold(S, n)
                BY <2>7, <3>3
            <4>. QED
                BY <1>10, <2>12, <2>15, <3>1, <4>1, ReplacedFact
        <3>. QED
            BY <3>2, <3>3
    <2>17. Owed(f)' = Ind(b, f) + Ind(out, f) + 0 + 0
        BY <2>4, <2>8, IndNone, NoBatchFact DEF Owed
    <2>. QED
        BY <2>13, <2>14, <2>15, <2>16, <2>17
<1>21. ASSUME ~ TooMany(reads), NEW f \in Fences PROVE refs'[f] = Holders(f)' + Owed(f)'
    <2>1. /\ batch'.explicit_fence = y /\ batch'.job_fence = n
          /\ Hold(S, n) /\ refs' = Replaced(known, S, n) /\ last' = last
        BY <1>9, <1>21
    <2>2. /\ Ind(a, f) \in Nat /\ Ind(b, f) \in Nat /\ Ind(y, f) \in Nat /\ Ind(n, f) \in Nat
        BY IndFact
    <2>3. PICK g \in Nat : g = Holders(f)
        BY HoldersType
    <2>4. PICK h \in Nat : h = Holders(f)'
        BY HoldersType
    <2>5. known[f] = g + Ind(b, f) + Ind(a, f) + Ind(n, f) + Ind(y, f)
        BY <1>19, <2>3
    <2>6. refs'[f] = known[f] + h - g
        <3>1. known[f] \in Int
            BY <2>2, <2>5
        <3>. QED
            BY <1>10, <2>1, <2>3, <2>4, <3>1, ReplacedFact
    <2>7. Owed(f)' = Ind(b, f) + Ind(a, f) + Ind(n, f) + Ind(y, f)
        BY <1>14, <1>15, <2>1 DEF Owed
    <2>. QED
        BY <2>2, <2>4, <2>5, <2>6, <2>7
<1>. QED
    BY <1>20, <1>21, RefsForm

-----------------------------------------------------------------------------
(* Locks.                                                                  *)

LEMMA LocksForm ==
    /\ LocksExact <=> \A p \in Pixmaps : lockcnt[p] = batch.uses[p].refcnt + Tally(RequestLocks, p)
    /\ LocksExact' <=> \A p \in Pixmaps : lockcnt'[p] = batch'.uses[p].refcnt + Tally(RequestLocks', p)
BY DEF LocksExact, Tally

\* The locks of a request.
LEMMA LocksFact ==
    /\ req.kind \notin {"solid", "copy", "copyfill"} => RequestLocks = <<>>
    /\ req'.kind \notin {"solid", "copy", "copyfill"} => RequestLocks' = <<>>
    /\ req'.kind = "solid" => RequestLocks' = <<req'.want.dst>>
    /\ req'.kind = "copy" => RequestLocks' = <<req'.want.src.pix, req'.want.dst>>
    /\ req'.kind = "copyfill" => RequestLocks' = <<req'.want.dst, req'.want.src.pix, req'.want.dst>>
    /\ req.kind = "solid" => RequestLocks = <<req.want.dst>>
    /\ req.kind \in {"copy", "copyfill"} => RequestLocks = CopyLocks
    /\ req'.kind = req.kind /\ req'.want = req.want => RequestLocks' = RequestLocks
BY DEF RequestLocks, CopyLocks

LEMMA StillLocks ==
    ASSUME LocksExact, lockcnt' = lockcnt, batch' = batch, RequestLocks' = RequestLocks
    PROVE  LocksExact'
BY LocksForm

LEMMA FlushLocks ==
    ASSUME GpuInv, LocksExact, lockcnt' = Unlocked, batch' = NoBatch, RequestLocks' = RequestLocks,
           \A p \in Pixmaps : Tally(RequestLocks, p) \in Nat
    PROVE  LocksExact'
<1>1. ASSUME NEW p \in Pixmaps
      PROVE  lockcnt'[p] = batch'.uses[p].refcnt + Tally(RequestLocks', p)
    <2>1. PICK n \in Nat : n = batch.uses[p].refcnt
        BY BatchFact DEF Use
    <2>2. PICK t \in Nat : t = Tally(RequestLocks, p)
        OBVIOUS
    <2>3. lockcnt[p] = n + t
        BY <2>1, <2>2, LocksForm
    <2>4. lockcnt'[p] = lockcnt[p] - n
        BY <2>1 DEF Unlocked
    <2>5. batch'.uses[p].refcnt = 0
        BY NoBatchFact
    <2>. QED
        BY <2>2, <2>3, <2>4, <2>5
<1>. QED
    BY <1>1, LocksForm

LEMMA LockedStep ==
    ASSUME GpuInv, LocksExact, NEW s, Lock(s), RequestLocks = <<>>, RequestLocks' = s, batch' = batch,
           \A p \in Pixmaps : Tally(s, p) \in Nat
    PROVE  LocksExact'
<1>1. ASSUME NEW p \in Pixmaps
      PROVE  lockcnt'[p] = batch'.uses[p].refcnt + Tally(RequestLocks', p)
    <2>1. PICK n \in Nat : n = batch.uses[p].refcnt
        BY BatchFact DEF Use
    <2>2. PICK t \in Nat : t = Tally(s, p)
        OBVIOUS
    <2>3. lockcnt'[p] = lockcnt[p] + t
        BY <2>2 DEF Lock, Tally
    <2>4. Tally(RequestLocks, p) = 0
        BY TallyNone
    <2>5. lockcnt[p] = n + 0
        BY <2>1, <2>4, LocksForm
    <2>6. Tally(RequestLocks', p) = t
        BY <2>2
    <2>. QED
        BY <2>1, <2>2, <2>3, <2>5, <2>6
<1>. QED
    BY <1>1, LocksForm

LEMMA UnlockedStep ==
    ASSUME GpuInv, LocksExact, NEW s, Unlock(s), RequestLocks = s, RequestLocks' = <<>>, batch' = batch,
           \A p \in Pixmaps : Tally(s, p) \in Nat
    PROVE  LocksExact'
<1>1. ASSUME NEW p \in Pixmaps
      PROVE  lockcnt'[p] = batch'.uses[p].refcnt + Tally(RequestLocks', p)
    <2>1. PICK n \in Nat : n = batch.uses[p].refcnt
        BY BatchFact DEF Use
    <2>2. PICK t \in Nat : t = Tally(s, p)
        OBVIOUS
    <2>3. lockcnt'[p] = lockcnt[p] - t
        BY <2>2 DEF Unlock, Tally
    <2>4. lockcnt[p] = n + t
        BY <2>1, <2>2, LocksForm
    <2>5. Tally(RequestLocks', p) = 0
        BY TallyNone
    <2>. QED
        BY <2>1, <2>2, <2>3, <2>4, <2>5
<1>. QED
    BY <1>1, LocksForm

\* A composite joins the batch, with a lock for each use of a pixmap.
LEMMA AppendLocks ==
    ASSUME GpuInv, LocksExact, AppendJob, NEW d \in Pixmaps, NEW src \in Operands, NEW mask \in Operands,
           req.want.dst = d, me.src = src, req.mask = mask,
           RequestLocks = <<>>, RequestLocks' = <<>>
    PROVE  LocksExact'
<1>1. PICK reads : reads = Textures(src, mask)
    OBVIOUS
<1>2. IF TooMany(reads) THEN lockcnt' = Unlocked /\ batch' = NoBatch
      ELSE /\ batch'.uses = [p \in Pixmaps |-> Uses(p, d, reads)]
           /\ Lock(<<d>> \o reads)
    BY <1>1 DEF AppendJob
<1>3. reads \in Seq(Pixmaps)
    BY <1>1, TexturesFact
<1>4. CASE TooMany(reads)
    <2>1. \A p \in Pixmaps : Tally(RequestLocks, p) \in Nat
        BY TallyNone
    <2>. QED
        BY <1>2, <1>4, <2>1, FlushLocks
<1>5. ASSUME ~ TooMany(reads), NEW p \in Pixmaps
      PROVE  lockcnt'[p] = batch'.uses[p].refcnt + Tally(RequestLocks', p)
    <2>1. PICK n \in Nat : n = batch.uses[p].refcnt
        BY BatchFact DEF Use
    <2>2. PICK s : s = <<d>>
        OBVIOUS
    <2>3. s \in Seq(Pixmaps) /\ Tally(s, p) = Ind(d, p)
        BY <2>2, TallyOne
    <2>4. Tally(s \o reads, p) = Tally(s, p) + Tally(reads, p)
        BY <1>3, <2>3, TallyConcat
    <2>5. PICK k \in Nat : k = Tally(reads, p)
        BY <1>3, TallyType
    <2>6. lockcnt'[p] = lockcnt[p] + Tally(s \o reads, p)
        BY <1>2, <1>5, <2>2 DEF Lock, Tally
    <2>7. lockcnt[p] = n + 0
        BY <2>1, LocksForm, TallyNone
    <2>8. batch'.uses[p].refcnt = n + k + (IF p = d THEN 1 ELSE 0)
        BY <1>2, <1>5, <2>1, <2>5 DEF Uses, Tally
    <2>9. Ind(d, p) = IF p = d THEN 1 ELSE 0
        BY DEF Ind
    <2>10. Tally(RequestLocks', p) = 0
        BY TallyNone
    <2>11. PICK i \in Nat : i = Ind(d, p)
        BY IndFact
    <2>12. lockcnt'[p] = n + 0 + (i + k)
        BY <2>3, <2>4, <2>5, <2>6, <2>7, <2>11
    <2>. QED
        BY <2>8, <2>9, <2>10, <2>11, <2>12
<1>. QED
    BY <1>4, <1>5, LocksForm

=============================================================================
