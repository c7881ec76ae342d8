---------------------------- MODULE Render_proof ----------------------------
(***************************************************************************)
(* Proofs about accelerated drawing: every action keeps the invariant, and *)
(* the theorems.                                                           *)
(***************************************************************************)
EXTENDS RenderAgenda_proof

-----------------------------------------------------------------------------
(* Steps that leave the fences alone.                                      *)

LEMMA StillStep ==
    ASSUME GpuInv, UNCHANGED <<fences, batch, gpu>> \/ UNCHANGED <<held, fence, seqno, last, batch, gpu>>
    PROVE  GpuInv' /\ batch' = batch /\ CalmBut({})
<1>1. /\ batch' = batch /\ queue' = queue /\ signalled' = signalled
      /\ held' = held /\ fence' = fence /\ seqno' = seqno /\ last' = last
    BY DEF fences, gpu
<1>2. GpuInv'
    <2>1. Hold({}, NoFence) /\ {} \in SUBSET Slots
        BY <1>1 DEF Hold, GpuInv, GpuType
    <2>2. /\ fence' \in [Fences -> {"none", "new", "active", "marked"}]
          /\ last' \in [Engines -> Handle] /\ seqno' \in Fences /\ seqno <= seqno'
        BY <1>1, SeqnoFact DEF GpuInv, GpuType
    <2>. QED
        BY <1>1, <2>1, <2>2, Released
<1>. QED
    BY <1>1, <1>2, CalmFact

\* The pixmap that is drawn over is no longer in the batch.
LEMMA CancelFact ==
    ASSUME GpuInv, NEW p \in Pixmaps, CancelDeferred(p)
    PROVE  GpuInv' /\ CalmBut({}) /\ (InBatch(p))' = FALSE
<1>1. ASSUME batch' = NoBatch PROVE (InBatch(p))' = FALSE
    BY <1>1, NoBatchFact DEF InBatch
<1>2. CASE Cancellable(p)
    BY <1>1, <1>2, ResetStep DEF CancelDeferred
<1>3. CASE ~ Cancellable(p) /\ NeedsFlush(p, TRUE, TRUE)
    <2>1. Deferred /\ FlushBatch
        BY <1>3, UsesFact DEF CancelDeferred
    <2>. QED
        BY <1>1, <2>1, FlushBatchStep
<1>4. CASE ~ Cancellable(p) /\ ~ NeedsFlush(p, TRUE, TRUE)
    <2>1. NoFlush /\ ~ InBatch(p)
        BY <1>4, UsesFact DEF CancelDeferred
    <2>2. GpuInv' /\ batch' = batch /\ CalmBut({})
        BY <2>1, NoFlushStep
    <2>. QED
        BY <2>1, <2>2 DEF InBatch
<1>. QED
    BY <1>2, <1>3, <1>4

\* No fill is deferred anew, and no pixmap joins the batch.
LEMMA InvKept ==
    ASSUME RenderInv, GpuInv', Agenda', mem' \in Maps, ideal' \in Maps,
           alpha_0' \in [Pixmaps -> BOOLEAN], fill' \in [Pixmaps -> Colours \cup {NoFill}],
           \A p \in Pixmaps : fill'[p] \in {fill[p], NoFill},
           \A p \in Pixmaps : /\ batch'.uses[p].write => batch.uses[p].write
                              /\ batch'.uses[p].read => batch.uses[p].read,
           served' \in 0..MaxRequests
    PROVE  RenderInv'
<1>1. PictureType'
    BY DEF PictureType
<1>2. ASSUME NEW p \in Pixmaps, fill'[p] # NoFill, (InBatch(p))' PROVE FALSE
    <2>1. batch'.uses[p].read \/ batch'.uses[p].write
        BY <1>2 DEF GpuInv, BatchInv
    <2>2. InBatch(p)
        BY <2>1 DEF RenderInv, GpuInv, BatchInv
    <2>. QED
        BY <1>2, <2>2 DEF RenderInv, FillInv
<1>3. FillInv'
    BY <1>2 DEF FillInv
<1>. QED
    BY <1>1, <1>3 DEF RenderInv

LEMMA RequestFact ==
    ASSUME NEW q \in Requests
    PROVE  /\ q.kind \in {"solid", "copy", "rotate", "composite", "soft", "look"}
           /\ q.dst \in Pixmaps /\ q.src \in Operands /\ q.mask \in Operands
           /\ \A t \in {q.src, q.mask} : /\ t.colour \in Colours
                                         /\ t.pix \in Pixmaps \cup {NoPixmap}
                                         /\ ~ IsSolid(t) => t.pix \in Pixmaps
           /\ q.rects \in Seq(Rectangles)
           /\ \A i \in DOMAIN q.rects : Asked(q, q.rects[i]) \in Operations
BY RequestsAssumption, ColoursFact DEF Operands, Solid, Texture, IsSolid

LEMMA BusyFact ==
    ASSUME GpuInv, NEW p \in Pixmaps, ~ Busy(p)
    PROVE  Clean(p, TRUE)
<1>1. ~ NeedsFlush(p, TRUE, TRUE)
    BY UsesFact DEF Busy
<1>2. \A s \in WaitSlots(p, TRUE) : Completed(held[s])
    BY DEF Busy, WaitSlots
<1>. QED
    BY <1>1, <1>2 DEF Clean

-----------------------------------------------------------------------------
(* Requests for fills and copies.                                          *)

LEMMA BlitStarted ==
    ASSUME RenderInv, NEW q \in Requests, NEW kind, Start(q, kind), NEW k \in Blits, NEW c \in Colours,
           NEW o \in BOOLEAN, NEW b \in BOOLEAN, b => ~ Busy(q.dst),
           req' = [kind |-> k, want |-> q, rects |-> q.rects, ops |-> <<>>,
                   colour |-> c, optimize |-> o, cpu |-> b, mapped |-> FALSE],
           k \in {"copy", "copyfill"} => q.kind \in {"copy", "rotate"},
           k = "solid" => q.kind = "solid",
           UNCHANGED <<picture, fill, alpha_0, fences, batch, gpu, todo>>
    PROVE  RenderInv'
<1>1. /\ req'.kind = k /\ req'.want = q /\ req'.rects = q.rects /\ req'.ops = <<>> /\ req'.cpu = b
      /\ k \in {"solid", "copyfill", "copy"}
    BY DEF Blits, Filling
<1>2. GpuInv /\ GpuInv' /\ batch' = batch /\ CalmBut({})
    BY StillStep DEF RenderInv
<1>3. req' \in Blit
    BY <1>1, RequestFact DEF Blit
<1>4. ReqType'
    BY <1>1, <1>3, RequestFact DEF ReqType, Painting
<1>5. ReqInv'
    <2>1. k \in {"copy", "copyfill"} => q.src.pix \in Pixmaps
        BY RequestFact, RequestsAssumption
    <2>2. k = "solid" => q.src.pix = NoPixmap
        BY RequestsAssumption
    <2>3. q.op = "Copy" /\ q.mask.pix = NoPixmap
        BY <1>1, RequestsAssumption
    <2>4. \A d, S : OpsOf(<<>>, d, S)
        BY DEF OpsOf
    <2>. QED
        BY <1>1, <2>1, <2>2, <2>3, <2>4 DEF ReqInv
<1>6. todo' = <<>>
    BY DEF Start, RenderInv, Agenda, TodoType
<1>7. b => (Clean(req.want.dst, TRUE))'
    <2>1. SUFFICES ASSUME b PROVE (Clean(req.want.dst, TRUE))'
        OBVIOUS
    <2>2. PICK p \in Pixmaps : p = q.dst
        BY RequestFact
    <2>3. Clean(p, TRUE)
        BY <1>2, <2>1, <2>2, BusyFact
    <2>4. Clean(p, TRUE)'
        BY <1>2, <2>3 DEF CalmBut
    <2>. QED
        BY <1>1, <2>2, <2>4 DEF Clean, NeedsFlush, WaitSlots, Written, Read, Completed
<1>8. Agenda'
    BY <1>1, <1>4, <1>5, <1>6, <1>7, EmptyAgenda
<1>9. /\ mem' \in Maps /\ ideal' \in Maps /\ alpha_0' \in [Pixmaps -> BOOLEAN]
      /\ fill' = fill /\ fill' \in [Pixmaps -> Colours \cup {NoFill}]
    BY DEF RenderInv, PictureType, picture
<1>10. served' \in 0..MaxRequests
    BY RenderAssumption DEF Start, RenderInv
<1>. QED
    BY <1>2, <1>8, <1>9, <1>10, InvKept DEF CalmBut

LEMMA PrepareSolidInv == RenderInv /\ PrepareSolid => RenderInv'
<1>. SUFFICES ASSUME RenderInv, PrepareSolid PROVE RenderInv'
    OBVIOUS
<1>1. PICK q \in Requests :
          /\ Start(q, "solid")
          /\ req' = SolidState(q, "solid", q.src.colour)
          /\ UNCHANGED <<picture, fill, alpha_0, fences, batch, gpu, todo>>
    BY DEF PrepareSolid
<1>2. PICK b \in BOOLEAN : b = ~ Busy(q.dst)
    OBVIOUS
<1>3. PICK o \in BOOLEAN : o = (q.dst \notin Scanout)
    OBVIOUS
<1>4. req' = [kind |-> "solid", want |-> q, rects |-> q.rects, ops |-> <<>>,
              colour |-> q.src.colour, optimize |-> o, cpu |-> b, mapped |-> FALSE]
    BY <1>1, <1>2, <1>3 DEF SolidState
<1>5. q.src.colour \in Colours /\ "solid" \in Blits /\ q.kind = "solid"
    BY <1>1, RequestFact DEF Start, Blits, Filling
<1>. QED
    BY <1>1, <1>2, <1>4, <1>5, BlitStarted

LEMMA PrepareCopyInv == RenderInv /\ PrepareCopy => RenderInv'
<1>. SUFFICES ASSUME RenderInv, PrepareCopy PROVE RenderInv'
    OBVIOUS
<1>1. PICK q \in Requests :
          /\ Start(q, "copy")
          /\ IF fill[q.src.pix] # NoFill
             THEN req' = SolidState(q, "copyfill", fill[q.src.pix])
             ELSE req' = [SolidState(q, "copy", Clear) EXCEPT !.optimize =
                     \/ fill[q.src.pix] # NoFill \/ fill[q.dst] # NoFill
                     \/ alpha_0[q.src.pix] \/ alpha_0[q.dst]]
          /\ UNCHANGED <<picture, fill, alpha_0, fences, batch, gpu, todo>>
    BY DEF PrepareCopy
<1>2. PICK b \in BOOLEAN : b = ~ Busy(q.dst)
    OBVIOUS
<1>3. q.kind = "copy" /\ "copy" \in Blits /\ "copyfill" \in Blits
    BY <1>1 DEF Start, Blits, Filling
<1>4. q.src.pix \in Pixmaps /\ Clear \in Colours
    BY <1>3, RequestFact, RequestsAssumption, ColoursFact
<1>5. CASE fill[q.src.pix] # NoFill
    <2>1. PICK o \in BOOLEAN : o = (q.dst \notin Scanout)
        OBVIOUS
    <2>2. fill[q.src.pix] \in Colours
        BY <1>4, <1>5 DEF RenderInv, PictureType
    <2>3. PICK c \in Colours : c = fill[q.src.pix]
        BY <2>2
    <2>4. req' = [kind |-> "copyfill", want |-> q, rects |-> q.rects, ops |-> <<>>,
                  colour |-> c, optimize |-> o, cpu |-> b, mapped |-> FALSE]
        BY <1>1, <1>2, <1>5, <2>1, <2>3 DEF SolidState
    <2>5. /\ Start(q, "copy") /\ "copyfill" \in Blits /\ q.kind \in {"copy", "rotate"}
          /\ b => ~ Busy(q.dst)
        BY <1>1, <1>2, <1>3
    <2>6. UNCHANGED <<picture, fill, alpha_0, fences, batch, gpu, todo>>
        BY <1>1
    <2>. QED
        BY <2>4, <2>5, <2>6, BlitStarted
<1>6. CASE fill[q.src.pix] = NoFill
    <2>1. PICK o \in BOOLEAN : o = (\/ fill[q.src.pix] # NoFill \/ fill[q.dst] # NoFill
                                    \/ alpha_0[q.src.pix] \/ alpha_0[q.dst])
        OBVIOUS
    <2>2. req' = [SolidState(q, "copy", Clear) EXCEPT !.optimize = o]
        BY <1>1, <1>6, <2>1
    <2>4. req' = [kind |-> "copy", want |-> q, rects |-> q.rects, ops |-> <<>>,
                  colour |-> Clear, optimize |-> o, cpu |-> b, mapped |-> FALSE]
        BY <1>2, <2>2 DEF SolidState
    <2>. QED
        BY <1>1, <1>2, <1>3, <1>4, <2>4, BlitStarted
<1>. QED
    BY <1>5, <1>6

LEMMA PrepareRotatedInv == RenderInv /\ PrepareRotated => RenderInv'
<1>. SUFFICES ASSUME RenderInv, PrepareRotated PROVE RenderInv'
    OBVIOUS
<1>1. PICK q \in Requests :
          /\ Start(q, "rotate")
          /\ req' = [SolidState(q, "copy", Clear) EXCEPT !.optimize = FALSE]
          /\ UNCHANGED <<picture, pixmap, fences, batch, gpu, todo>>
    BY DEF PrepareRotated
<1>2. PICK b \in BOOLEAN : b = ~ Busy(q.dst)
    OBVIOUS
<1>6. PICK o \in BOOLEAN : o = FALSE
    OBVIOUS
<1>3. req' = [kind |-> "copy", want |-> q, rects |-> q.rects, ops |-> <<>>,
              colour |-> Clear, optimize |-> o, cpu |-> b, mapped |-> FALSE]
    BY <1>1, <1>2, <1>6 DEF SolidState
<1>4. UNCHANGED <<picture, fill, alpha_0, fences, batch, gpu, todo>>
    BY <1>1 DEF pixmap
<1>5. Clear \in Colours /\ "copy" \in Blits /\ q.kind = "rotate" /\ Start(q, "rotate")
    BY <1>1, ColoursFact DEF Start, Blits, Filling
<1>. QED
    BY <1>2, <1>3, <1>4, <1>5, <1>6, BlitStarted

LEMMA ReduceFact ==
    ASSUME RenderInv, NEW t \in Operands, NEW op
    PROVE  /\ Reduce(t, op) \in Operands
           /\ IsSolid(t) => Reduce(t, op) = t
           /\ IsEmpty(Reduce(t, op)) => MayBeEmpty(t)
<1>1. ASSUME Reduced(t, op)
      PROVE  Reduce(t, op) \in Operands /\ (IsEmpty(Reduce(t, op)) => MayBeEmpty(t))
    <2>1. t.pix \in Pixmaps /\ fill[t.pix] # NoFill
        BY <1>1 DEF Reduced, Operands, Solid, Texture
    <2>2. fill[t.pix] \in Colours
        BY <2>1 DEF RenderInv, PictureType
    <2>3. View(t.pix, fill[t.pix]) \in Colours
        BY <2>2, ColoursFact DEF View
    <2>4. Reduce(t, op) = Solid(View(t.pix, fill[t.pix]))
        BY <1>1 DEF Reduce
    <2>5. View(t.pix, fill[t.pix]) = Clear => t.pix \in Alpha
        BY DEF View, Clear, Black
    <2>6. ~ IsSolid(t)
        BY <1>1 DEF Reduced, IsSolid
    <2>7. Reduce(t, op) \in Operands
        BY <2>3, <2>4 DEF Operands
    <2>8. IsEmpty(Reduce(t, op)) => MayBeEmpty(t)
        <3>1. PICK c : c = View(t.pix, fill[t.pix])
            OBVIOUS
        <3>2. IsEmpty(Solid(c)) => c = Clear
            BY DEF IsEmpty, Solid
        <3>. QED
            BY <2>4, <2>5, <2>6, <3>1, <3>2 DEF MayBeEmpty
    <2>. QED
        BY <2>7, <2>8
<1>2. ASSUME ~ Reduced(t, op) PROVE Reduce(t, op) = t
    BY <1>2 DEF Reduce
<1>3. IsSolid(t) => ~ Reduced(t, op)
    BY DEF IsSolid, Reduced
<1>. QED
    BY <1>1, <1>2, <1>3 DEF MayBeEmpty, IsEmpty

LEMMA PrepareCompositeInv ==
    ASSUME NoUnfetched
    PROVE  RenderInv /\ PrepareComposite => RenderInv'
<1>. SUFFICES ASSUME RenderInv, PrepareComposite PROVE RenderInv'
    OBVIOUS
<1>1. PICK q \in Requests :
          /\ Start(q, "composite")
          /\ req' = [kind |-> "composite", want |-> q, rects |-> q.rects,
                     ops |-> <<>>, src |-> Reduce(q.src, q.op), mask |-> Reduce(q.mask, q.op),
                     op |-> SelectedOp(q.op, q.dst, Reduce(q.src, q.op), Reduce(q.mask, q.op)),
                     out |-> OptimizedOut(q.op, q.dst, Reduce(q.src, q.op), Reduce(q.mask, q.op)),
                     full |-> FALSE]
          /\ UNCHANGED <<picture, pixmap, fences, batch, gpu, todo>>
    BY DEF PrepareComposite
<1>2. PICK src \in Operands : src = Reduce(q.src, q.op)
    BY RequestFact, ReduceFact
<1>3. PICK mask \in Operands : mask = Reduce(q.mask, q.op)
    BY RequestFact, ReduceFact
<1>4. PICK out \in BOOLEAN : out = OptimizedOut(q.op, q.dst, src, mask)
    BY DEF OptimizedOut
<1>5. q.op \in {"Src", "Over"} /\ q.kind = "composite"
    BY <1>1, RequestsAssumption DEF Start
<1>6. PICK op \in {"Src", "Over"} : op = SelectedOp(q.op, q.dst, src, mask)
    BY <1>5 DEF SelectedOp
<1>7. req' = [kind |-> "composite", want |-> q, rects |-> q.rects, ops |-> <<>>,
              src |-> src, mask |-> mask, op |-> op, out |-> out, full |-> FALSE]
    BY <1>1, <1>2, <1>3, <1>4, <1>6
<1>8. /\ req'.kind = "composite" /\ req'.want = q /\ req'.rects = q.rects /\ req'.ops = <<>>
      /\ req'.src = src /\ req'.mask = mask /\ req'.op = op /\ req'.out = out
    BY <1>7
<1>9. req' \in Composite
    BY <1>5, <1>7, RequestFact DEF Composite
<1>10. ReqType'
    BY <1>8, <1>9, RequestFact DEF ReqType, Painting
<1>11. out \/ Fetched'.pix = src.pix
    <2>1. SUFFICES ASSUME op = "Over", IsEmpty(mask), src.pix # NoPixmap PROVE out
        BY <1>8 DEF Fetched, Solid
    <2>2. q.op = "Over"
        BY <1>5, <1>6, <2>1 DEF SelectedOp
    <2>3. ~ IsSolid(q.src)
        BY <1>2, <2>1, RequestFact, ReduceFact DEF IsSolid
    <2>4. MayBeEmpty(q.mask)
        BY <1>3, <2>1, RequestFact, ReduceFact
    <2>5. q.dst \in Alpha
        BY <1>5, <2>2, <2>3, <2>4 DEF NoUnfetched
    <2>. QED
        BY <1>4, <2>1, <2>2, <2>5 DEF OptimizedOut, OverOut
<1>12. ReqInv'
    <2>1. req'.kind \notin Blits
        BY <1>8 DEF Blits, Filling
    <2>. QED
        BY <1>5, <1>8, <1>11, <2>1 DEF ReqInv, Blits
<1>13. /\ GpuInv' /\ batch' = batch /\ CalmBut({})
    BY <1>1, StillStep DEF RenderInv
<1>14. todo' = <<>>
    BY <1>1 DEF Start, RenderInv, Agenda, TodoType
<1>15. Agenda'
    BY <1>8, <1>10, <1>12, <1>14, EmptyAgenda DEF Filling
<1>16. /\ mem' \in Maps /\ ideal' \in Maps /\ alpha_0' \in [Pixmaps -> BOOLEAN]
       /\ fill' = fill /\ fill' \in [Pixmaps -> Colours \cup {NoFill}]
    BY <1>1 DEF RenderInv, PictureType, picture, pixmap
<1>17. served' \in 0..MaxRequests
    BY <1>1, RenderAssumption DEF Start, RenderInv
<1>. QED
    BY <1>13, <1>15, <1>16, <1>17, InvKept DEF CalmBut

-----------------------------------------------------------------------------
(* Rectangles.                                                             *)

LEMMA RectsFact ==
    ASSUME RenderInv, NEW kinds, NextRect(kinds), "idle" \notin kinds
    PROVE  /\ req # Idle /\ req \in Blit \cup Composite \cup Access2 /\ req.kind \in kinds
           /\ req.want \in Requests /\ todo = <<>>
           /\ Head(req.rects) \in Rectangles /\ Painting(Head(req.rects)) \in Operations
           /\ Head(req.rects).cells \subseteq Cells(req.want.dst)
           /\ Tail(req.rects) \in Seq(Rectangles)
           /\ \A i \in DOMAIN Tail(req.rects) : Painting(Tail(req.rects)[i]) \in Operations
           /\ ideal' \in Maps
<1>1. req.kind \in kinds /\ todo = <<>> /\ req.rects # <<>>
      /\ ideal' = Draw(ideal, Painting(Head(req.rects)))
    BY DEF NextRect
<1>2. req # Idle
    BY <1>1 DEF Idle
<1>3. /\ req \in Blit \cup Composite \cup Access2
      /\ \A i \in DOMAIN req.rects : Painting(req.rects[i]) \in Operations
    BY <1>2 DEF RenderInv, Agenda, ReqType
<1>4. req.want \in Requests /\ req.rects \in Seq(Rectangles)
    BY <1>3 DEF Blit, Composite, Access2
<1>5. PICK s \in Seq(Rectangles) : s = req.rects
    BY <1>4
<1>6. /\ Head(s) = s[1] /\ 1 \in DOMAIN s /\ s[1] \in Rectangles
      /\ Tail(s) \in Seq(Rectangles)
      /\ \A i \in DOMAIN Tail(s) : i + 1 \in DOMAIN s /\ Tail(s)[i] = s[i + 1]
    <2>1. s # <<>>
        BY <1>1, <1>5
    <2>2. Len(s) \in Nat /\ Len(s) > 0 /\ DOMAIN s = 1..Len(s)
        BY <2>1
    <2>3. /\ Tail(s) \in Seq(Rectangles) /\ Len(Tail(s)) = Len(s) - 1
          /\ \A i \in 1..(Len(s) - 1) : Tail(s)[i] = s[i + 1]
        BY <2>1, <2>2
    <2>4. DOMAIN Tail(s) = 1..(Len(s) - 1)
        BY <2>2, <2>3
    <2>5. \A i \in 1..(Len(s) - 1) : i + 1 \in 1..Len(s)
        BY <2>2
    <2>6. 1 \in DOMAIN s /\ Head(s) = s[1]
        BY <2>1, <2>2
    <2>. QED
        BY <2>2, <2>3, <2>4, <2>5, <2>6
<1>7. Painting(Head(req.rects)) \in Operations
    BY <1>3, <1>5, <1>6
<1>8. ideal' \in Maps
    BY <1>1, <1>7, DrawFact DEF RenderInv, PictureType
<1>9. Head(req.rects).cells \subseteq Cells(req.want.dst)
    BY <1>7 DEF Painting, Asked, Operations
<1>. QED
    BY <1>1, <1>2, <1>3, <1>4, <1>5, <1>6, <1>7, <1>8, <1>9

LEMMA BlitReq ==
    ASSUME ReqInv, req.kind \in Blits, req' \in Blit, req'.kind = req.kind, req'.want = req.want,
           \A i \in DOMAIN req'.rects : Asked(req.want, req'.rects[i]) \in Operations,
           OpsOf(req'.ops, req.want.dst, CopySources)
    PROVE  ReqType' /\ ReqInv'
<1>1. ReqType'
    BY DEF ReqType, Painting
<1>2. CopySources' = CopySources
    BY DEF CopySources
<1>3. req.kind # "composite" /\ req.kind # "look"
    BY DEF Blits, Filling
<1>4. ReqInv'
    BY <1>2, <1>3 DEF ReqInv
<1>. QED
    BY <1>1, <1>4

\* The calls of a fill: nothing is left, or there is one call at least.
LEMMA CpuFact ==
    ASSUME RenderInv, req.kind \in Filling, req.cpu, Direct
    PROVE  Clean(req.want.dst, TRUE)
BY DEF RenderInv, Agenda, DirectAgenda

LEMMA FillingFact ==
    ASSUME RenderInv, req.kind \in Filling
    PROVE  /\ req \in Blit /\ req # Idle /\ req.kind \in Blits /\ req.want \in Requests /\ CopySources = {}
           /\ ReqInv /\ req.want.dst \in Pixmaps
           /\ \A i \in DOMAIN req.rects : Asked(req.want, req.rects[i]) \in Operations
           /\ OpsOf(req.ops, req.want.dst, {})
<1>1. req # Idle /\ req.kind \in Blits /\ req.kind \in {"solid", "copyfill"}
    BY DEF Idle, Filling, Blits
<1>2. req \in Blit /\ \A i \in DOMAIN req.rects : Asked(req.want, req.rects[i]) \in Operations
    BY <1>1 DEF RenderInv, Agenda, ReqType, Composite, Access2, Painting
<1>3. CopySources = {} /\ ReqInv
    BY <1>1 DEF CopySources, RenderInv, Agenda
<1>4. OpsOf(req.ops, req.want.dst, {})
    BY <1>1, <1>3 DEF ReqInv
<1>5. req.want \in Requests
    BY <1>2 DEF Blit
<1>. QED
    BY <1>1, <1>2, <1>3, <1>4, <1>5, RequestFact

LEMMA SkipFillInv == RenderInv /\ SkipFill => RenderInv'
<1>. SUFFICES ASSUME RenderInv, SkipFill PROVE RenderInv'
    OBVIOUS
<1>1. /\ NextRect(Filling) /\ req' = [req EXCEPT !.rects = Tail(@)]
      /\ UNCHANGED <<mem, seen, pixmap, fences, batch, gpu, todo, served>>
    BY DEF SkipFill
<1>2. /\ req.kind \in Filling /\ todo = <<>> /\ req.want \in Requests
      /\ Tail(req.rects) \in Seq(Rectangles)
      /\ \A i \in DOMAIN Tail(req.rects) : Asked(req.want, Tail(req.rects)[i]) \in Operations
      /\ ideal' \in Maps
    BY <1>1, RectsFact DEF Filling, Painting
<1>3. /\ req' \in Blit /\ req'.kind = req.kind /\ req'.want = req.want /\ req'.rects = Tail(req.rects)
      /\ req'.ops = req.ops /\ req'.cpu = req.cpu
    BY <1>1, <1>2, FillingFact DEF Blit
<1>4. ReqType' /\ ReqInv'
    BY <1>2, <1>3, BlitReq, FillingFact
<1>5. GpuInv' /\ batch' = batch /\ CalmBut({})
    BY <1>1, StillStep DEF RenderInv
<1>6. req'.cpu => (Clean(req.want.dst, TRUE))'
    <2>1. SUFFICES ASSUME req.cpu PROVE (Clean(req.want.dst, TRUE))'
        BY <1>3
    <2>2. PICK p \in Pixmaps : p = req.want.dst
        BY <1>2, FillingFact
    <2>3. Direct
        BY <1>2 DEF Direct
    <2>4. Clean(p, TRUE)
        BY <1>2, <2>1, <2>2, <2>3, CpuFact
    <2>5. Clean(p, TRUE)'
        BY <1>5, <2>4 DEF CalmBut
    <2>. QED
        BY <1>3, <2>2, <2>5 DEF Clean, NeedsFlush, WaitSlots, Written, Read, Completed
<1>7. todo' = <<>> /\ req'.kind \notin {"soft", "look"}
    BY <1>1, <1>2, <1>3 DEF Filling
<1>8. Agenda'
    BY <1>4, <1>6, <1>7, EmptyAgenda
<1>9. /\ mem' \in Maps /\ alpha_0' \in [Pixmaps -> BOOLEAN]
      /\ fill' = fill /\ fill' \in [Pixmaps -> Colours \cup {NoFill}] /\ served' \in 0..MaxRequests
    BY <1>1 DEF RenderInv, PictureType, pixmap
<1>. QED
    BY <1>2, <1>5, <1>8, <1>9, InvKept DEF CalmBut

LEMMA ZeroAlphaFact == \A p, cells, c : ZeroAlpha(p, cells, c) \in BOOLEAN
BY DEF ZeroAlpha

LEMMA DeferFillInv == RenderInv /\ DeferFill => RenderInv'
<1>. SUFFICES ASSUME RenderInv, DeferFill PROVE RenderInv'
    OBVIOUS
<1>0. PICK a \in BOOLEAN :
          a = ZeroAlpha(req.want.dst, Head(req.rects).cells, req.colour)
    BY ZeroAlphaFact
<1>1. /\ NextRect(Filling) /\ CancelDeferred(req.want.dst)
      /\ fill' = [fill EXCEPT ![req.want.dst] = req.colour]
      /\ alpha_0' = [alpha_0 EXCEPT ![req.want.dst] = a]
      /\ req' = [req EXCEPT !.rects = Tail(@), !.cpu = FALSE]
      /\ UNCHANGED <<mem, seen, todo, served>>
    BY <1>0 DEF DeferFill
<1>2. /\ req.kind \in Filling /\ todo = <<>> /\ req.want \in Requests
      /\ Tail(req.rects) \in Seq(Rectangles)
      /\ \A i \in DOMAIN Tail(req.rects) : Asked(req.want, Tail(req.rects)[i]) \in Operations
      /\ ideal' \in Maps
    BY <1>1, RectsFact DEF Filling, Painting
<1>3. /\ req' \in Blit /\ req'.kind = req.kind /\ req'.want = req.want /\ req'.rects = Tail(req.rects)
      /\ req'.ops = req.ops /\ ~ req'.cpu
    BY <1>1, <1>2, FillingFact DEF Blit
<1>4. ReqType' /\ ReqInv'
    BY <1>2, <1>3, BlitReq, FillingFact
<1>5. PICK p \in Pixmaps : p = req.want.dst
    BY <1>2, FillingFact
<1>6. GpuInv' /\ CalmBut({}) /\ (InBatch(p))' = FALSE
    BY <1>1, <1>5, CancelFact DEF RenderInv
<1>7. todo' = <<>> /\ req'.kind \notin {"soft", "look"}
    BY <1>1, <1>2, <1>3 DEF Filling
<1>8. Agenda'
    BY <1>3, <1>4, <1>7, EmptyAgenda
<1>9. /\ mem' \in Maps /\ alpha_0' \in [Pixmaps -> BOOLEAN] /\ served' \in 0..MaxRequests
    BY <1>1, <1>5 DEF RenderInv, PictureType
<1>10. req.colour \in Colours
    BY <1>2, FillingFact DEF Blit
<1>11. fill' \in [Pixmaps -> Colours \cup {NoFill}] /\ \A q \in Pixmaps \ {p} : fill'[q] = fill[q]
    BY <1>1, <1>5, <1>10 DEF RenderInv, PictureType
<1>12. PictureType'
    BY <1>2, <1>9, <1>11 DEF PictureType
<1>13. ASSUME NEW q \in Pixmaps, fill'[q] # NoFill, (InBatch(q))' PROVE FALSE
    <2>1. q # p
        BY <1>6, <1>13
    <2>2. batch'.uses[q].read \/ batch'.uses[q].write
        BY <1>6, <1>13 DEF GpuInv, BatchInv
    <2>3. InBatch(q)
        BY <1>6, <2>2 DEF RenderInv, GpuInv, BatchInv, CalmBut
    <2>. QED
        BY <1>11, <1>13, <2>1, <2>3 DEF RenderInv, FillInv
<1>14. FillInv'
    BY <1>13 DEF FillInv
<1>. QED
    BY <1>6, <1>8, <1>9, <1>12, <1>14 DEF RenderInv

Three(s, a, b, z) == /\ s \in Seq(Calls) /\ Len(s) = 3 /\ DOMAIN s = {1, 2, 3}
                     /\ s[1] = a /\ s[2] = b /\ s[3] = z /\ s # <<>>
One(s, z)         == /\ s \in Seq(Calls) /\ Len(s) = 1 /\ DOMAIN s = {1} /\ s[1] = z /\ s # <<>>
Two(s, a, z)      == /\ s \in Seq(Calls) /\ Len(s) = 2 /\ DOMAIN s = {1, 2}
                     /\ s[1] = a /\ s[2] = z /\ s # <<>>

LEMMA TupleFact ==
    ASSUME NEW a \in Calls, NEW b \in Calls, NEW z \in Calls
    PROVE  One(<<z>>, z) /\ Two(<<a, z>>, a, z) /\ Three(<<a, b, z>>, a, b, z)
<1>1. PICK s : s = <<z>>
    OBVIOUS
<1>2. PICK u : u = <<a, z>>
    OBVIOUS
<1>3. PICK w : w = <<a, b, z>>
    OBVIOUS
<1>4. s \in Seq(Calls) /\ Len(s) = 1 /\ s[1] = z /\ s # <<>>
    BY <1>1
<1>5. u \in Seq(Calls) /\ Len(u) = 2 /\ u[1] = a /\ u[2] = z /\ u # <<>>
    BY <1>2
<1>6. w \in Seq(Calls) /\ Len(w) = 3 /\ w[1] = a /\ w[2] = b /\ w[3] = z /\ w # <<>>
    BY <1>3
<1>7. /\ DOMAIN s = 1..Len(s) /\ DOMAIN u = 1..Len(u) /\ DOMAIN w = 1..Len(w)
      /\ 1..1 = {1} /\ 1..2 = {1, 2} /\ 1..3 = {1, 2, 3}
    BY <1>4, <1>5, <1>6
<1>8. One(s, z) /\ Two(u, a, z) /\ Three(w, a, b, z)
    BY <1>4, <1>5, <1>6, <1>7 DEF One, Two, Three
<1>. QED
    BY <1>1, <1>2, <1>3, <1>8

LEMMA JoinFact ==
    ASSUME NEW a \in Calls, NEW b \in Calls, NEW z \in Calls
    PROVE  Three(<<a, b>> \o <<z>>, a, b, z)
<1>1. PICK u : u = <<a, b>>
    OBVIOUS
<1>2. PICK s : s = <<z>>
    OBVIOUS
<1>3. /\ u \in Seq(Calls) /\ Len(u) = 2 /\ u[1] = a /\ u[2] = b
      /\ s \in Seq(Calls) /\ Len(s) = 1 /\ s[1] = z
    BY <1>1, <1>2
<1>4. PICK w : w = u \o s
    OBVIOUS
<1>5. /\ w \in Seq(Calls) /\ Len(w) = Len(u) + Len(s) /\ DOMAIN w = 1..(Len(u) + Len(s))
      /\ \A i \in 1..(Len(u) + Len(s)) : w[i] = IF i <= Len(u) THEN u[i] ELSE s[i - Len(u)]
    BY <1>3, <1>4, ConcatFact
<1>6. Len(w) = 3 /\ DOMAIN w = 1..3 /\ 1..3 = {1, 2, 3}
    BY <1>3, <1>5
<1>7. w[1] = a /\ w[2] = b /\ w[3] = z
    BY <1>3, <1>5
<1>. QED
    BY <1>1, <1>2, <1>4, <1>5, <1>6, <1>7 DEF Three

\* What is deferred for the pixmap goes first.
LEMMA LateAgenda ==
    ASSUME NEW d \in Pixmaps, NEW z \in Calls, ReqType', ReqInv', req'.kind \in Filling, req' # Idle,
           req'.want.dst = d,
           NEW a \in Calls, a.call = "fill", a.pix = d,
           NEW b \in Calls, b.call = "flush", b.pix = d, b.reads = TRUE,
           Three(todo', a, b, z),
           \/ z.call = "rect" /\ z.flushed /\ z.cells \subseteq Cells(d)
           \/ z.call = "submit" /\ z.pix = d /\ z.srcs = {} /\ OpsOf(z.ops, d, {})
    PROVE  Agenda'
<1>3. /\ a.call = "fill" /\ a.pix = d /\ b.call = "flush" /\ b.pix = d /\ b.reads = TRUE
    OBVIOUS
<1>4. /\ todo' \in Seq(Calls) /\ Len(todo') = 3 /\ DOMAIN todo' = {1, 2, 3}
      /\ todo'[1] = a /\ todo'[2] = b /\ todo'[3] = z /\ todo' # <<>>
    BY DEF Three
<1>5. req'.kind \in {"solid", "copyfill"} /\ Final(req'.kind) = {"submit", "rect", "poke"}
    BY KindsFact
<1>6. TodoType'
    <2>1. \A i \in DOMAIN todo' :
                IF i < Len(todo') THEN todo'[i].call \in Middle ELSE todo'[i].call \in Final(req'.kind)
        <3>1. a.call \in Middle /\ b.call \in Middle /\ z.call \in Final(req'.kind)
            BY <1>3, <1>5, KindsFact
        <3>2. ASSUME NEW i \in DOMAIN todo'
              PROVE  (i < 3 /\ todo'[i].call \in Middle) \/ (i = 3 /\ todo'[i].call \in Final(req'.kind))
            <4>1. i = 1 \/ i = 2 \/ i = 3
                BY <1>4
            <4>. QED
                BY <1>4, <3>1, <4>1
        <3>. QED
            BY <1>4, <3>2
    <2>2. \A i \in DOMAIN todo' : todo'[i].call # "poke"
        BY <1>3, <1>4
    <2>3. \A i \in DOMAIN todo' : todo'[i].call = "rect" => todo'[i].cells \subseteq Cells(req'.want.dst)
        BY <1>3, <1>4
    <2>. QED
        BY <1>4, <1>5, <2>1, <2>2, <2>3 DEF TodoType
<1>7. FlushAgenda' /\ WaitAgenda' /\ PokeAgenda'
    BY <1>3, <1>4, <1>5 DEF FlushAgenda, WaitAgenda, PokeAgenda
<1>8. SubmitAgenda'
    <2>1. SUFFICES ASSUME z.call = "submit"
                   PROVE  /\ OpsOf(z.ops, z.pix, z.srcs)
                          /\ (Flushed(3, d, TRUE))' /\ z.srcs = {} /\ z.pix = d
        <3>1. \A i \in DOMAIN todo' : todo'[i].call = "submit" => i = 3 /\ todo'[i] = z
            BY <1>3, <1>4
        <3>2. ASSUME NEW i \in DOMAIN todo', todo'[i].call = "submit"
              PROVE  /\ OpsOf(todo'[i].ops, todo'[i].pix, todo'[i].srcs)
                     /\ (Flushed(i, todo[i].pix, TRUE))'
                     /\ \A p \in todo'[i].srcs : (Flushed(i, p, FALSE))'
                     /\ i = Len(todo') \/ (i <= 2 /\ todo'[i].srcs = {})
                     /\ i = 2 /\ i # Len(todo') => todo'[1].call = "flush"
            <4>1. i = 3 /\ todo'[i] = z /\ Len(todo') = 3 /\ z.call = "submit"
                BY <1>4, <3>1, <3>2
            <4>2. OpsOf(z.ops, z.pix, z.srcs) /\ (Flushed(3, d, TRUE))' /\ z.srcs = {} /\ z.pix = d
                BY <2>1, <4>1
            <4>3. (Flushed(i, todo[i].pix, TRUE))'
                BY <4>1, <4>2 DEF Flushed
            <4>. QED
                BY <4>1, <4>2, <4>3
        <3>. QED
            BY <3>2 DEF SubmitAgenda
    <2>2. 2 \in 1..(3 - 1)
        OBVIOUS
    <2>3. (Flushed(3, d, TRUE))'
        BY <1>3, <1>4, <2>2 DEF Flushed
    <2>. QED
        BY <2>1, <2>3
<1>9. AccessAgenda'
    <2>1. Accessed' = {}
        BY <1>5 DEF Accessed
    <2>. QED
        BY <1>3, <1>4, <2>1 DEF AccessAgenda
<1>10. AppendAgenda'
    BY <1>3, <1>4 DEF AppendAgenda
<1>11. DirectAgenda'
    <2>1. ~ Direct'
        BY <1>3, <1>4 DEF Direct
    <2>. QED
        BY <1>3, <1>4, <2>1 DEF DirectAgenda
<1>. QED
    BY <1>6, <1>7, <1>8, <1>9, <1>10, <1>11 DEF Agenda

\* Nothing is deferred for the pixmap.
LEMMA SoonAgenda ==
    ASSUME NEW d \in Pixmaps, ReqType', ReqInv', req'.kind \in Filling, req' # Idle,
           req'.want.dst = d, req'.cpu => Clean(d, TRUE)', NEW z \in Calls,
           NEW a \in Calls, a.call = "wait", a.pix = d, a.slots = WaitSlots(d, TRUE),
           \/ /\ One(todo', z)
              /\ \/ z.call = "rect" /\ ~ z.flushed /\ z.cells \subseteq Cells(d)
                 \/ z.call = "poke" /\ z.pix = d /\ z.cells \subseteq Cells(d) /\ Clean(d, TRUE)'
           \/ /\ Two(todo', a, z)
              /\ z.call = "poke" /\ z.pix = d /\ z.cells \subseteq Cells(d) /\ Clean(d, TRUE)'
    PROVE  Agenda'
<1>2. /\ a.call = "wait" /\ a.pix = d /\ a.slots = WaitSlots(d, TRUE)
    OBVIOUS
<1>3. \/ /\ todo' \in Seq(Calls) /\ Len(todo') = 1 /\ DOMAIN todo' = {1}
         /\ todo'[1] = z /\ todo' # <<>>
      \/ /\ todo' \in Seq(Calls) /\ Len(todo') = 2 /\ DOMAIN todo' = {1, 2}
         /\ todo'[1] = a /\ todo'[2] = z /\ todo' # <<>> /\ z.call = "poke"
    BY DEF One, Two
<1>4. req'.kind \in {"solid", "copyfill"} /\ Final(req'.kind) = {"submit", "rect", "poke"}
    BY KindsFact
<1>5. \/ z.call = "rect" /\ ~ z.flushed /\ z.cells \subseteq Cells(d)
      \/ z.call = "poke" /\ z.pix = d /\ z.cells \subseteq Cells(d) /\ Clean(d, TRUE)'
    OBVIOUS
<1>6. TodoType'
    <2>1. /\ todo' \in Seq(Calls) /\ todo' # <<>>
          /\ \A i \in DOMAIN todo' :
                IF i < Len(todo') THEN todo'[i].call \in Middle ELSE todo'[i].call \in Final(req'.kind)
        <3>1. a.call \in Middle /\ z.call \in Final(req'.kind)
            BY <1>2, <1>4, <1>5, KindsFact
        <3>2. ASSUME NEW i \in DOMAIN todo'
              PROVE  \/ i < Len(todo') /\ todo'[i].call \in Middle
                     \/ i = Len(todo') /\ todo'[i].call \in Final(req'.kind)
            <4>1. \/ i = 1 /\ Len(todo') = 1 /\ todo'[i] = z
                  \/ i = 1 /\ Len(todo') = 2 /\ todo'[i] = a
                  \/ i = 2 /\ Len(todo') = 2 /\ todo'[i] = z
                BY <1>3
            <4>2. 1 < 2
                OBVIOUS
            <4>3. todo'[i] = z => todo'[i].call \in Final(req'.kind)
                BY <3>1
            <4>4. todo'[i] = a => todo'[i].call \in Middle
                BY <3>1
            <4>. QED
                BY <4>1, <4>2, <4>3, <4>4, Zenon
        <3>. QED
            BY <1>3, <3>2
    <2>2. \A i \in DOMAIN todo' :
          /\ todo'[i].call = "rect" => todo'[i].cells \subseteq Cells(d)
          /\ todo'[i].call = "poke" => todo'[i].cells \subseteq Cells(todo'[i].pix)
        BY <1>2, <1>3, <1>5
    <2>. QED
        BY <1>4, <2>1, <2>2 DEF TodoType
<1>7. FlushAgenda' /\ SubmitAgenda' /\ AppendAgenda'
    BY <1>2, <1>3, <1>5 DEF FlushAgenda, SubmitAgenda, AppendAgenda
<1>8. AccessAgenda'
    <2>1. Accessed' = {}
        BY <1>4 DEF Accessed
    <2>. QED
        BY <1>2, <1>3, <1>5, <2>1 DEF AccessAgenda
<1>9. PokeAgenda'
    <2>1. ASSUME NEW i \in DOMAIN todo', todo'[i].call = "poke"
          PROVE  /\ (Clean(todo[i].pix, TRUE))'
                 /\ i <= 2 /\ (i = 2 => todo'[1].call = "wait")
        <3>1. todo'[i] = z /\ z.call = "poke" /\ z.pix = d /\ Clean(d, TRUE)'
              /\ i <= 2 /\ (i = 2 => todo'[1].call = "wait")
            <4>1. todo'[i] = z /\ i <= 2 /\ (i = 2 => todo'[1].call = "wait")
                BY <1>2, <1>3, <2>1
            <4>2. z.call = "poke"
                BY <2>1, <4>1
            <4>. QED
                BY <1>5, <4>1, <4>2
        <3>2. PICK p \in Pixmaps : p = todo'[i].pix
            BY <3>1
        <3>3. Clean(p, TRUE)'
            BY <3>1, <3>2 DEF Clean, NeedsFlush, WaitSlots, Written, Read, Completed
        <3>. QED
            BY <3>1, <3>2, <3>3 DEF Clean, NeedsFlush, WaitSlots, Written, Read, Completed
    <2>. QED
        BY <2>1 DEF PokeAgenda
<1>10. WaitAgenda'
    <2>1. ASSUME NEW i \in DOMAIN todo', todo'[i].call = "wait"
          PROVE  \E r \in BOOLEAN :
                    /\ todo'[i].slots = (WaitSlots(todo[i].pix, r))'
                    /\ (Flushed(i, todo[i].pix, r))'
                    /\ req'.kind \notin Filling => (Filled(i, todo[i].pix))'
        <3>1. todo'[i] = a /\ z.call = "poke" /\ Clean(d, TRUE)'
            BY <1>2, <1>3, <1>5, <2>1
        <3>2. ~ (NeedsFlush(d, TRUE, TRUE))'
            BY <3>1 DEF Clean
        <3>3. (Flushed(i, todo[i].pix, TRUE))'
            BY <1>2, <3>1, <3>2 DEF Flushed, NeedsFlush
        <3>4. todo'[i].slots = (WaitSlots(todo[i].pix, TRUE))'
            BY <1>2, <3>1 DEF WaitSlots, Written, Read
        <3>. QED
            BY <3>3, <3>4
    <2>. QED
        BY <2>1 DEF WaitAgenda
<1>11. DirectAgenda'
    <2>1. Direct'
        BY <1>2, <1>3, <1>5 DEF Direct
    <2>2. req'.cpu => (Clean(req.want.dst, TRUE))'
        BY DEF Clean, NeedsFlush, WaitSlots, Written, Read, Completed
    <2>. QED
        BY <2>1, <2>2 DEF DirectAgenda
<1>. QED
    BY <1>6, <1>7, <1>8, <1>9, <1>10, <1>11 DEF Agenda

LEMMA PartialFillInv == RenderInv /\ PartialFill => RenderInv'
<1>. SUFFICES ASSUME RenderInv, PartialFill PROVE RenderInv'
    OBVIOUS
<1>1. PICK flushed \in BOOLEAN, a \in BOOLEAN :
          /\ flushed = (req.optimize /\ fill[req.want.dst] # NoFill)
          /\ a = ZeroAlpha(req.want.dst, Head(req.rects).cells, req.colour)
    BY ZeroAlphaFact
<1>2. PICK z : z = RectCall(Head(req.rects).cells, a, flushed)
    OBVIOUS
<1>3. /\ NextRect(Filling) /\ req' = [req EXCEPT !.rects = Tail(@)]
      /\ todo' = IF flushed THEN FlushDeferred(req.want.dst, TRUE, TRUE, TRUE) \o <<z>> ELSE <<z>>
      /\ UNCHANGED <<mem, seen, pixmap, fences, batch, gpu, served>>
    BY <1>1, <1>2 DEF PartialFill
<1>4. /\ req.kind \in Filling /\ todo = <<>> /\ req.want \in Requests
      /\ Tail(req.rects) \in Seq(Rectangles)
      /\ \A i \in DOMAIN Tail(req.rects) : Asked(req.want, Tail(req.rects)[i]) \in Operations
      /\ ideal' \in Maps /\ Head(req.rects) \in Rectangles
      /\ Head(req.rects).cells \subseteq Cells(req.want.dst)
    BY <1>3, RectsFact DEF Filling, Painting
<1>5. /\ req' \in Blit /\ req'.kind = req.kind /\ req'.want = req.want /\ req'.rects = Tail(req.rects)
      /\ req'.ops = req.ops /\ req'.cpu = req.cpu
    BY <1>3, <1>4, FillingFact DEF Blit
<1>6. ReqType' /\ ReqInv'
    BY <1>4, <1>5, BlitReq, FillingFact
<1>7. GpuInv' /\ batch' = batch /\ CalmBut({})
    BY <1>3, StillStep DEF RenderInv
<1>8. PICK d \in Pixmaps : d = req.want.dst
    BY <1>4, FillingFact
<1>9. z \in Calls /\ z.call = "rect" /\ z.flushed = flushed /\ z.cells \subseteq Cells(d)
    BY <1>2, <1>4, <1>8 DEF RectCall, Calls, Rectangles
<1>10. req' # Idle /\ req'.kind \in Filling /\ req'.want.dst = d
    BY <1>4, <1>5, <1>8 DEF Idle, Filling
<1>11. Agenda'
    <2>1. CASE flushed
        <3>1. PICK b \in Calls : b = FillCall(d, TRUE)
            BY DEF FillCall, Calls
        <3>2. PICK c \in Calls : c = FlushCall(d, TRUE, TRUE)
            BY DEF FlushCall, Calls
        <3>3. b.call = "fill" /\ b.pix = d /\ c.call = "flush" /\ c.pix = d /\ c.reads = TRUE
            BY <3>1, <3>2 DEF FillCall, FlushCall
        <3>4. todo' = <<b, c>> \o <<z>>
            BY <1>3, <1>8, <2>1, <3>1, <3>2 DEF FlushDeferred
        <3>5. Three(todo', b, c, z)
            BY <1>9, <3>4, JoinFact
        <3>. QED
            BY <1>6, <1>9, <1>10, <2>1, <3>3, <3>5, LateAgenda
    <2>2. CASE ~ flushed
        <3>1. Direct
            BY <1>4 DEF Direct
        <3>2. req'.cpu => Clean(d, TRUE)'
            <4>1. SUFFICES ASSUME req.cpu PROVE Clean(d, TRUE)'
                BY <1>5
            <4>2. Clean(d, TRUE)
                BY <1>4, <1>8, <3>1, <4>1, CpuFact
            <4>. QED
                BY <1>7, <4>2 DEF CalmBut
        <3>3. PICK b : b = WaitCall(d, WaitSlots(d, TRUE))
            OBVIOUS
        <3>4. b \in Calls /\ b.call = "wait" /\ b.pix = d /\ b.slots = WaitSlots(d, TRUE)
            BY <3>3, WaitSlotsFact DEF WaitCall, Calls
        <3>5. One(todo', z)
            BY <1>3, <1>9, <2>2, TupleFact
        <3>. QED
            BY <1>6, <1>9, <1>10, <2>2, <3>2, <3>4, <3>5, SoonAgenda
    <2>. QED
        BY <2>1, <2>2
<1>12. /\ mem' \in Maps /\ alpha_0' \in [Pixmaps -> BOOLEAN]
       /\ fill' = fill /\ fill' \in [Pixmaps -> Colours \cup {NoFill}] /\ served' \in 0..MaxRequests
    BY <1>3 DEF RenderInv, PictureType, pixmap
<1>. QED
    BY <1>4, <1>7, <1>11, <1>12, InvKept DEF CalmBut

\* A call for a rectangle is the last one.
LEMMA LastFactCall ==
    ASSUME Agenda, todo # <<>>, me.call \notin Middle
    PROVE  /\ todo' = Tail(todo) => todo' = <<>>
           /\ Tail(todo) = <<>> /\ DOMAIN todo = {1} /\ Len(todo) = 1 /\ todo[1] = me
           /\ me \in Calls /\ me.call \in Final(req.kind) /\ req # Idle
<1>1. /\ me = todo[1] /\ me \in Calls /\ todo \in Seq(Calls) /\ req # Idle
      /\ IF Len(todo) = 1 THEN me.call \in Final(req.kind) ELSE me.call \in Middle
    BY HeadCall
<1>2. Len(todo) = 1 /\ me.call \in Final(req.kind)
    BY <1>1
<1>3. PICK t \in Seq(Calls) : t = todo
    BY <1>1
<1>4. Tail(t) = <<>> /\ DOMAIN t = 1..1
    BY <1>2, <1>3, TailCalls
<1>. QED
    BY <1>1, <1>2, <1>3, <1>4

LEMMA EmptyFact ==
    ASSUME NEW S, NEW s \in Seq(S)
    PROVE  <<>> \o s = s /\ s \o <<>> = s
OBVIOUS

LEMMA PairFact ==
    ASSUME NEW a \in Calls, NEW z \in Calls
    PROVE  Two(<<a>> \o <<z>>, a, z)
<1>1. PICK u : u = <<a>>
    OBVIOUS
<1>2. PICK s : s = <<z>>
    OBVIOUS
<1>3. /\ u \in Seq(Calls) /\ Len(u) = 1 /\ u[1] = a
      /\ s \in Seq(Calls) /\ Len(s) = 1 /\ s[1] = z
    BY <1>1, <1>2
<1>4. PICK w : w = u \o s
    OBVIOUS
<1>5. /\ w \in Seq(Calls) /\ Len(w) = Len(u) + Len(s) /\ DOMAIN w = 1..(Len(u) + Len(s))
      /\ \A i \in 1..(Len(u) + Len(s)) : w[i] = IF i <= Len(u) THEN u[i] ELSE s[i - Len(u)]
    <2>1. /\ u \o s \in Seq(Calls) /\ Len(u \o s) = Len(u) + Len(s)
          /\ DOMAIN (u \o s) = 1..(Len(u) + Len(s))
          /\ \A i \in 1..(Len(u) + Len(s)) :
                (u \o s)[i] = IF i <= Len(u) THEN u[i] ELSE s[i - Len(u)]
        <3>1. u \in Seq(Calls) /\ s \in Seq(Calls)
            BY <1>3
        <3>. QED
            BY <3>1, ConcatFact
    <2>. QED
        BY <1>4, <2>1
<1>6. Len(w) = 2 /\ DOMAIN w = 1..2 /\ 1..2 = {1, 2}
    BY <1>3, <1>5
<1>7. w[1] = a /\ w[2] = z
    BY <1>3, <1>5
<1>. QED
    BY <1>1, <1>2, <1>4, <1>5, <1>6, <1>7 DEF Two

LEMMA FillOpFact ==
    ASSUME NEW p \in Pixmaps, NEW cells \in SUBSET {"s", "l"}, cells \subseteq Cells(p), NEW c \in Colours
    PROVE  FillOp(p, cells, c) \in Operations /\ OpsOf(<<FillOp(p, cells, c)>>, p, {})
<1>1. Solid(c) \in Operands /\ Solid(Black) \in Operands
    BY ColoursFact DEF Operands
<1>2. Solid(c).pix = NoPixmap /\ Solid(Black).pix = NoPixmap
    BY DEF Solid
<1>3. PICK o : o = FillOp(p, cells, c)
    OBVIOUS
<1>4. /\ o \in [op : {"Copy", "Src", "Over"}, dst : Pixmaps, src : Operands, mask : Operands,
               cells : SUBSET {"s", "l"}, shift : BOOLEAN]
      /\ o.dst = p /\ o.src = Solid(c) /\ o.mask = Solid(Black) /\ o.cells = cells
    BY <1>1, <1>3 DEF FillOp
<1>5. o \in Operations
    BY <1>2, <1>4 DEF Operations
<1>6. OpsOf(<<o>>, p, {})
    <2>1. \A i \in DOMAIN <<o>> : <<o>>[i] = o
        OBVIOUS
    <2>. QED
        BY <1>2, <1>4, <2>1 DEF OpsOf
<1>. QED
    BY <1>3, <1>5, <1>6

LEMMA AppendOps ==
    ASSUME NEW ops \in Seq(Operations), NEW o \in Operations, NEW d, NEW S, OpsOf(ops, d, S),
           o.dst = d, o.src.pix \in S \cup {NoPixmap}, o.mask.pix \in S \cup {NoPixmap}
    PROVE  Append(ops, o) \in Seq(Operations) /\ OpsOf(Append(ops, o), d, S)
<1>1. PICK t : t = Append(ops, o)
    OBVIOUS
<1>2. /\ t \in Seq(Operations) /\ Len(ops) \in Nat /\ DOMAIN ops = 1..Len(ops)
      /\ Len(t) = Len(ops) + 1 /\ t[Len(ops) + 1] = o
      /\ \A i \in 1..Len(ops) : t[i] = ops[i]
    BY <1>1
<1>3. DOMAIN t = 1..(Len(ops) + 1)
    BY <1>2
<1>4. ASSUME NEW i \in DOMAIN t
      PROVE  t[i].dst = d /\ t[i].src.pix \in S \cup {NoPixmap} /\ t[i].mask.pix \in S \cup {NoPixmap}
    <2>1. i \in DOMAIN ops \/ i = Len(ops) + 1
        BY <1>2, <1>3
    <2>. QED
        BY <1>2, <2>1 DEF OpsOf
<1>. QED
    BY <1>1, <1>2, <1>4 DEF OpsOf

LEMMA FillRectInv == RenderInv /\ FillRect => RenderInv'
<1>. SUFFICES ASSUME RenderInv, FillRect PROVE RenderInv'
    OBVIOUS
<1>1. todo # <<>> /\ me.call = "rect" /\ me.call \notin Middle
    BY DEF FillRect, At, me, Middle
<1>2. /\ Tail(todo) = <<>> /\ DOMAIN todo = {1} /\ Len(todo) = 1 /\ todo[1] = me
      /\ me \in Calls /\ me.call \in Final(req.kind) /\ req # Idle
    BY <1>1, LastFactCall DEF RenderInv
<1>3. req.kind \in Filling
    BY <1>1, <1>2 DEF Final, Filling
<1>4. PICK d \in Pixmaps : d = req.want.dst
    BY <1>3, FillingFact
<1>5. me.alpha \in BOOLEAN /\ me.flushed \in BOOLEAN /\ me.cells \in SUBSET {"s", "l"}
    BY <1>1, <1>2 DEF Calls
<1>6. me.cells \subseteq Cells(d)
    BY <1>1, <1>2, <1>4 DEF RenderInv, Agenda, TodoType
<1>7. PICK cpu \in BOOLEAN : cpu = (req.cpu /\ ~ (me.flushed /\ Busy(d)))
    OBVIOUS
<1>8. PICK byCpu \in BOOLEAN : byCpu = (cpu /\ IsSmall(d, me.cells))
    OBVIOUS
<1>9. PICK c \in Colours : c = req.colour
    BY <1>3, FillingFact DEF Blit
<1>10. PICK o : o = FillOp(d, me.cells, c)
    OBVIOUS
<1>11. PICK z : z = PokeCall(d, me.cells, c)
    OBVIOUS
<1>12. PICK a : a = WaitCall(d, Read(d) \cup Written(d))
    OBVIOUS
<1>13. /\ alpha_0' = [alpha_0 EXCEPT ![d] = me.alpha]
       /\ req' = [req EXCEPT !.cpu = cpu, !.mapped = @ \/ byCpu,
                             !.ops = IF byCpu THEN @ ELSE Append(@, o)]
       /\ todo' = (IF byCpu THEN (IF req.mapped THEN <<>> ELSE <<a>>) \o <<z>> ELSE <<>>) \o <<>>
       /\ UNCHANGED <<picture, fill, lockcnt, fences, batch, gpu, served>>
    BY <1>2, <1>4, <1>7, <1>8, <1>9, <1>10, <1>11, <1>12 DEF FillRect
<1>14. /\ o \in Operations /\ o.dst = d /\ o.src.pix = NoPixmap /\ o.mask.pix = NoPixmap
    BY <1>5, <1>6, <1>10, FillOpFact DEF FillOp, Solid
<1>15. /\ z \in Calls /\ z.call = "poke" /\ z.pix = d /\ z.cells \subseteq Cells(d)
    BY <1>5, <1>6, <1>11 DEF PokeCall, Calls
<1>16. a \in Calls /\ a.call = "wait" /\ a.pix = d /\ a.slots = WaitSlots(d, TRUE)
    <2>1. Read(d) \cup Written(d) \in SUBSET Slots
        BY DEF Read, Written, Slots
    <2>2. Read(d) \cup Written(d) = WaitSlots(d, TRUE)
        BY DEF WaitSlots
    <2>. QED
        BY <1>12, <2>1, <2>2 DEF WaitCall, Calls
<1>17. PICK ops \in Seq(Operations) : /\ ops = IF byCpu THEN req.ops ELSE Append(req.ops, o)
                                      /\ OpsOf(ops, d, {})
    <2>1. req.ops \in Seq(Operations) /\ OpsOf(req.ops, d, {})
        BY <1>3, <1>4, FillingFact DEF Blit
    <2>2. Append(req.ops, o) \in Seq(Operations) /\ OpsOf(Append(req.ops, o), d, {})
        BY <1>14, <2>1, AppendOps
    <2>. QED
        BY <2>1, <2>2
<1>18. PICK m \in BOOLEAN : m = (req.mapped \/ byCpu)
    OBVIOUS
<1>19. req' = [req EXCEPT !.cpu = cpu, !.mapped = m, !.ops = ops]
    BY <1>13, <1>17, <1>18
<1>20. /\ req' \in Blit /\ req'.kind = req.kind /\ req'.want = req.want /\ req'.rects = req.rects
       /\ req'.ops = ops /\ req'.cpu = cpu
    BY <1>3, <1>19, FillingFact DEF Blit
<1>21. ReqType' /\ ReqInv'
    BY <1>3, <1>4, <1>17, <1>20, BlitReq, FillingFact
<1>22. GpuInv /\ GpuInv' /\ batch' = batch /\ CalmBut({})
    BY <1>13, StillStep DEF RenderInv
<1>23. cpu => Clean(d, TRUE)
    <2>1. CASE cpu /\ me.flushed
        BY <1>7, <1>22, <2>1, BusyFact
    <2>2. CASE cpu /\ ~ me.flushed
        <3>1. Direct
            BY <1>1, <1>2, <1>3, <2>2 DEF RenderInv, Agenda, DirectAgenda
        <3>. QED
            BY <1>3, <1>4, <1>7, <2>2, <3>1, CpuFact
    <2>. QED
        BY <2>1, <2>2
<1>24. cpu => Clean(d, TRUE)'
    BY <1>22, <1>23 DEF CalmBut
<1>25. req' # Idle /\ req'.kind \in Filling /\ req'.want.dst = d
    BY <1>3, <1>4, <1>20 DEF Idle, Filling
<1>26. Agenda'
    <2>1. CASE ~ byCpu
        <3>1. todo' = <<>>
            BY <1>13, <2>1, EmptyFact
        <3>2. cpu => (Clean(req.want.dst, TRUE))'
            BY <1>24, <1>25 DEF Clean, NeedsFlush, WaitSlots, Written, Read, Completed
        <3>3. req'.kind \notin {"soft", "look"}
            BY <1>25 DEF Filling
        <3>. QED
            BY <1>20, <1>21, <3>1, <3>2, <3>3, EmptyAgenda
    <2>2. CASE byCpu /\ req.mapped
        <3>1. PICK s : s = <<z>>
            OBVIOUS
        <3>2. s \in Seq(Calls) /\ todo' = (<<>> \o s) \o <<>>
            BY <1>13, <1>15, <2>2, <3>1
        <3>3. todo' = s
            BY <3>2, EmptyFact
        <3>4. One(todo', z)
            BY <1>15, <3>1, <3>3, TupleFact
        <3>. QED
            BY <1>8, <1>15, <1>16, <1>20, <1>21, <1>24, <1>25, <2>2, <3>4, SoonAgenda
    <2>3. CASE byCpu /\ ~ req.mapped
        <3>1. PICK s : s = <<a>> \o <<z>>
            OBVIOUS
        <3>2. Two(s, a, z)
            BY <1>15, <1>16, <3>1, PairFact
        <3>3. s \in Seq(Calls) /\ todo' = s \o <<>>
            BY <1>13, <2>3, <3>1, <3>2 DEF Two
        <3>4. Two(todo', a, z)
            BY <3>2, <3>3, EmptyFact
        <3>. QED
            BY <1>8, <1>15, <1>16, <1>20, <1>21, <1>24, <1>25, <2>3, <3>4, SoonAgenda
    <2>. QED
        BY <2>1, <2>2, <2>3
<1>27. /\ mem' \in Maps /\ ideal' \in Maps /\ alpha_0' \in [Pixmaps -> BOOLEAN]
       /\ fill' = fill /\ fill' \in [Pixmaps -> Colours \cup {NoFill}] /\ served' \in 0..MaxRequests
    BY <1>5, <1>13 DEF RenderInv, PictureType, picture
<1>. QED
    BY <1>22, <1>26, <1>27, InvKept DEF CalmBut

LEMMA DoneAgenda ==
    ASSUME RenderInv, req.kind \in Filling, req' = req, req.ops # <<>>,
           todo' = FlushDeferred(req.want.dst, TRUE, TRUE, TRUE) \o <<SubmitCall(req.ops, req.want.dst, {})>>
    PROVE  Agenda'
<1>1. PICK d \in Pixmaps : d = req.want.dst
    BY FillingFact
<1>2. PICK b \in Calls : b = FillCall(d, TRUE)
    BY DEF FillCall, Calls
<1>3. PICK c \in Calls : c = FlushCall(d, TRUE, TRUE)
    BY DEF FlushCall, Calls
<1>4. b.call = "fill" /\ b.pix = d /\ c.call = "flush" /\ c.pix = d /\ c.reads = TRUE
    BY <1>2, <1>3 DEF FillCall, FlushCall
<1>5. PICK ops \in Seq(Operations) : ops = req.ops
    BY FillingFact DEF Blit
<1>6. PICK z : z = SubmitCall(ops, d, {})
    OBVIOUS
<1>7. z \in Calls /\ z.call = "submit" /\ z.pix = d /\ z.srcs = {} /\ z.ops = ops
    BY <1>6 DEF SubmitCall, Calls
<1>8. OpsOf(ops, d, {})
    BY <1>1, <1>5, FillingFact
<1>9. todo' = <<b, c>> \o <<z>>
    BY <1>1, <1>2, <1>3, <1>5, <1>6 DEF FlushDeferred
<1>10. Three(todo', b, c, z)
    BY <1>7, <1>9, JoinFact
<1>11. ReqType' /\ ReqInv'
    BY ReqKept DEF RenderInv, Agenda
<1>12. req' # Idle /\ req'.kind \in Filling /\ req'.want.dst = d
    BY <1>1 DEF Idle, Filling
<1>. QED
    BY <1>4, <1>7, <1>8, <1>10, <1>11, <1>12, LateAgenda

LEMMA DoneSolidInv == RenderInv /\ DoneSolid => RenderInv'
<1>. SUFFICES ASSUME RenderInv, DoneSolid PROVE RenderInv'
    OBVIOUS
<1>1. /\ req.kind = "solid" /\ todo = <<>>
      /\ IF req.ops = <<>> THEN req' = Idle /\ todo' = todo
         ELSE /\ req' = req
              /\ todo' = FlushDeferred(req.want.dst, TRUE, TRUE, TRUE) \o
                         <<SubmitCall(req.ops, req.want.dst, {})>>
      /\ UNCHANGED <<picture, fill, alpha_0, fences, batch, gpu, served>>
    BY DEF DoneSolid, AllDrawn
<1>2. GpuInv' /\ batch' = batch /\ CalmBut({})
    BY <1>1, StillStep DEF RenderInv
<1>3. Agenda'
    BY <1>1, IdleAgenda, DoneAgenda DEF Filling
<1>4. /\ mem' \in Maps /\ ideal' \in Maps /\ alpha_0' \in [Pixmaps -> BOOLEAN]
      /\ fill' = fill /\ fill' \in [Pixmaps -> Colours \cup {NoFill}] /\ served' \in 0..MaxRequests
    BY <1>1 DEF RenderInv, PictureType, picture
<1>. QED
    BY <1>2, <1>3, <1>4, InvKept DEF CalmBut

LEMMA CopyFact ==
    ASSUME RenderInv, req.kind = "copy"
    PROVE  /\ req \in Blit /\ req # Idle /\ req.kind \in Blits /\ req.want \in Requests
           /\ CopySources = {req.want.src.pix}
           /\ ReqInv /\ req.want.dst \in Pixmaps /\ req.want.src.pix \in Pixmaps
           /\ req.want.mask.pix = NoPixmap
           /\ \A i \in DOMAIN req.rects : Asked(req.want, req.rects[i]) \in Operations
           /\ OpsOf(req.ops, req.want.dst, {req.want.src.pix})
<1>1. req # Idle /\ req.kind \in Blits
    BY DEF Idle, Filling, Blits
<1>2. req \in Blit /\ \A i \in DOMAIN req.rects : Asked(req.want, req.rects[i]) \in Operations
    BY <1>1 DEF RenderInv, Agenda, ReqType, Composite, Access2, Painting
<1>3. CopySources = {req.want.src.pix} /\ ReqInv
    BY DEF CopySources, RenderInv, Agenda
<1>4. OpsOf(req.ops, req.want.dst, {req.want.src.pix}) /\ req.want.mask.pix = NoPixmap
      /\ req.want.src.pix \in Pixmaps
    BY <1>1, <1>3 DEF ReqInv
<1>5. req.want \in Requests
    BY <1>2 DEF Blit
<1>. QED
    BY <1>1, <1>2, <1>3, <1>4, <1>5, RequestFact

LEMMA CopyRectInv == RenderInv /\ CopyRect => RenderInv'
<1>. SUFFICES ASSUME RenderInv, CopyRect PROVE RenderInv'
    OBVIOUS
<1>1. req.kind = "copy" /\ NextRect({"copy"})
    BY DEF CopyRect, NextRect
<1>2. PICK s \in Pixmaps, d \in Pixmaps : s = req.want.src.pix /\ d = req.want.dst
    BY <1>1, CopyFact
<1>3. PICK R : R = Head(req.rects)
    OBVIOUS
<1>4. PICK o : o = Painting(R)
    OBVIOUS
<1>5. PICK a \in BOOLEAN : a = (alpha_0[s] /\ (R.cells = Cells(d) \/ alpha_0[d]))
    OBVIOUS
<1>6. /\ IF req.optimize /\ R.cells = Cells(d)
         THEN CancelDeferred(d) /\ fill' = [fill EXCEPT ![d] = NoFill]
         ELSE NoFlush /\ fill' = fill
      /\ alpha_0' = IF req.optimize THEN [alpha_0 EXCEPT ![d] = a] ELSE alpha_0
      /\ req' = [req EXCEPT !.rects = Tail(@), !.ops = Append(@, o)]
      /\ UNCHANGED <<mem, seen, todo, served>>
    BY <1>2, <1>3, <1>4, <1>5 DEF CopyRect
<1>7. /\ todo = <<>> /\ req.want \in Requests
      /\ Tail(req.rects) \in Seq(Rectangles)
      /\ \A i \in DOMAIN Tail(req.rects) : Asked(req.want, Tail(req.rects)[i]) \in Operations
      /\ ideal' \in Maps /\ o \in Operations
    BY <1>1, <1>3, <1>4, RectsFact DEF Painting
<1>8. o.dst = d /\ o.src.pix = s /\ o.mask.pix = NoPixmap
    BY <1>1, <1>2, <1>4, CopyFact DEF Painting, Asked
<1>9. PICK ops \in Seq(Operations) : ops = Append(req.ops, o) /\ OpsOf(ops, d, {s})
    <2>1. req.ops \in Seq(Operations) /\ OpsOf(req.ops, d, {s})
        BY <1>1, <1>2, CopyFact DEF Blit
    <2>. QED
        BY <1>7, <1>8, <2>1, AppendOps
<1>10. req' = [req EXCEPT !.rects = Tail(@), !.ops = ops]
    BY <1>6, <1>9
<1>11. /\ req' \in Blit /\ req'.kind = req.kind /\ req'.want = req.want /\ req'.rects = Tail(req.rects)
       /\ req'.ops = ops
    BY <1>1, <1>7, <1>10, CopyFact DEF Blit
<1>12. ReqType' /\ ReqInv'
    BY <1>1, <1>2, <1>7, <1>9, <1>11, BlitReq, CopyFact
<1>13. GpuInv' /\ CalmBut({})
    BY <1>6, CancelFact, NoFlushStep DEF RenderInv
<1>14. Agenda'
    BY <1>1, <1>6, <1>7, <1>11, <1>12, EmptyAgenda DEF Filling
<1>15. /\ mem' \in Maps /\ alpha_0' \in [Pixmaps -> BOOLEAN] /\ served' \in 0..MaxRequests
    BY <1>6 DEF RenderInv, PictureType
<1>16. fill' \in [Pixmaps -> Colours \cup {NoFill}] /\ \A q \in Pixmaps : fill'[q] \in {fill[q], NoFill}
    BY <1>6 DEF RenderInv, PictureType
<1>. QED
    BY <1>7, <1>13, <1>14, <1>15, <1>16, InvKept DEF CalmBut

Five(s, a, b, c, e, z) ==
    /\ s \in Seq(Calls) /\ Len(s) = 5 /\ s # <<>> /\ DOMAIN s = {1, 2, 3, 4, 5}
    /\ s[1] = a /\ s[2] = b /\ s[3] = c /\ s[4] = e /\ s[5] = z

\* The five calls of a copy.
LEMMA CopyAgenda ==
    ASSUME NEW d \in Pixmaps, NEW s \in Pixmaps, ReqType', ReqInv', req'.kind = "copy", req' # Idle,
           NEW a, a.call = "fill", NEW b, b.call = "flush", b.pix = s, b.reads = FALSE,
           NEW c, c.call = "fill", NEW e, e.call = "flush", e.pix = d, e.reads = TRUE,
           NEW z, z.call = "submit", z.pix = d, z.srcs = {s}, OpsOf(z.ops, d, {s}),
           Five(todo', a, b, c, e, z)
    PROVE  Agenda'
<1>. USE DEF Five
<1>1. /\ "copy" \notin Filling /\ Final("copy") = {"submit"}
    BY DEF Filling, Final
<1>2. a.call \in Middle /\ b.call \in Middle /\ c.call \in Middle /\ e.call \in Middle
    BY DEF Middle
<1>3. ASSUME NEW i \in DOMAIN todo'
      PROVE  \/ i < 5 /\ todo'[i].call \in Middle /\ todo'[i].call \in {"fill", "flush"}
             \/ i = 5 /\ todo'[i] = z
    <2>1. i = 1 \/ i = 2 \/ i = 3 \/ i = 4 \/ i = 5
        OBVIOUS
    <2>. QED
        BY <1>2, <2>1
<1>4. \A i \in DOMAIN todo' : todo'[i].call \in {"fill", "flush"} \/ (i = 5 /\ todo'[i] = z)
    BY <1>3
<1>5. TodoType'
    <2>1. \A i \in DOMAIN todo' :
             IF i < Len(todo') THEN todo'[i].call \in Middle ELSE todo'[i].call \in Final(req'.kind)
        BY <1>1, <1>3
    <2>. QED
        BY <1>4, <2>1 DEF TodoType
<1>6. FlushAgenda' /\ WaitAgenda' /\ PokeAgenda' /\ AppendAgenda'
    BY <1>4 DEF FlushAgenda, WaitAgenda, PokeAgenda, AppendAgenda
<1>7. DirectAgenda'
    BY <1>1 DEF DirectAgenda
<1>8. AccessAgenda'
    <2>1. Accessed' = {}
        BY DEF Accessed
    <2>. QED
        BY <1>4, <2>1 DEF AccessAgenda
<1>9. SubmitAgenda'
    <2>1. ASSUME NEW i \in DOMAIN todo', todo'[i].call = "submit"
          PROVE  /\ OpsOf(todo'[i].ops, todo'[i].pix, todo'[i].srcs)
                 /\ (Flushed(i, todo[i].pix, TRUE))'
                 /\ \A p \in todo'[i].srcs : (Flushed(i, p, FALSE))'
                 /\ i = Len(todo') \/ (i <= 2 /\ todo'[i].srcs = {})
                 /\ i = 2 /\ i # Len(todo') => todo'[1].call = "flush"
        <3>1. i = 5 /\ todo'[i] = z /\ 4 \in 1..(5 - 1) /\ 2 \in 1..(5 - 1)
            BY <1>4, <2>1
        <3>2. (Flushed(5, d, TRUE))' /\ (Flushed(5, s, FALSE))'
            BY <3>1 DEF Flushed
        <3>3. (Flushed(i, todo[i].pix, TRUE))'
            BY <3>1, <3>2 DEF Flushed
        <3>4. \A p \in todo'[i].srcs : (Flushed(i, p, FALSE))'
            <4>1. \A p \in todo'[i].srcs : p = s
                BY <3>1
            <4>. QED
                BY <3>1, <3>2, <4>1 DEF Flushed
        <3>. QED
            BY <3>1, <3>3, <3>4
    <2>. QED
        BY <2>1 DEF SubmitAgenda
<1>. QED
    BY <1>5, <1>6, <1>7, <1>8, <1>9 DEF Agenda

LEMMA DoneCopyInv == RenderInv /\ DoneCopy => RenderInv'
<1>. SUFFICES ASSUME RenderInv, DoneCopy PROVE RenderInv'
    OBVIOUS
<1>1. /\ req.kind \in {"copy", "copyfill"} /\ todo = <<>>
      /\ IF req.ops = <<>> THEN req' = Idle /\ todo' = todo
         ELSE /\ req' = req
              /\ todo' = (IF req.kind = "copy"
                          THEN FlushDeferred(req.want.src.pix, TRUE, FALSE, TRUE) ELSE <<>>)
                         \o FlushDeferred(req.want.dst, TRUE, TRUE, TRUE)
                         \o <<SubmitCall(req.ops, req.want.dst,
                                         IF req.kind = "copy" THEN {req.want.src.pix} ELSE {})>>
      /\ UNCHANGED <<picture, fill, alpha_0, fences, batch, gpu, served>>
    BY DEF DoneCopy, AllDrawn
<1>2. GpuInv' /\ batch' = batch /\ CalmBut({})
    BY <1>1, StillStep DEF RenderInv
<1>3. ASSUME req.ops = <<>> PROVE Agenda'
    BY <1>1, <1>3, IdleAgenda
<1>4. ASSUME req.ops # <<>>, req.kind = "copyfill" PROVE Agenda'
    <2>1. FlushDeferred(req.want.dst, TRUE, TRUE, TRUE) \in Seq(Calls)
        <3>1. PICK d \in Pixmaps : d = req.want.dst
            BY <1>4, FillingFact DEF Filling
        <3>2. PICK b \in Calls : b = FillCall(d, TRUE)
            BY DEF FillCall, Calls
        <3>3. PICK c \in Calls : c = FlushCall(d, TRUE, TRUE)
            BY DEF FlushCall, Calls
        <3>4. <<b, c>> \in Seq(Calls)
            OBVIOUS
        <3>. QED
            BY <3>1, <3>2, <3>3, <3>4 DEF FlushDeferred
    <2>2. <<>> \o FlushDeferred(req.want.dst, TRUE, TRUE, TRUE) = FlushDeferred(req.want.dst, TRUE, TRUE, TRUE)
        BY <2>1, EmptyFact
    <2>3. todo' = FlushDeferred(req.want.dst, TRUE, TRUE, TRUE) \o <<SubmitCall(req.ops, req.want.dst, {})>>
        BY <1>1, <1>4, <2>2
    <2>. QED
        BY <1>1, <1>4, <2>3, DoneAgenda DEF Filling
<1>5. ASSUME req.ops # <<>>, req.kind = "copy" PROVE Agenda'
    <2>1. PICK s \in Pixmaps, d \in Pixmaps : s = req.want.src.pix /\ d = req.want.dst
        BY <1>5, CopyFact
    <2>2. PICK ops \in Seq(Operations) : ops = req.ops /\ OpsOf(ops, d, {s})
        BY <1>5, <2>1, CopyFact DEF Blit
    <2>3. PICK a \in Calls : a = FillCall(s, TRUE)
        BY DEF FillCall, Calls
    <2>4. PICK b \in Calls : b = FlushCall(s, FALSE, TRUE)
        BY DEF FlushCall, Calls
    <2>5. PICK c \in Calls : c = FillCall(d, TRUE)
        BY DEF FillCall, Calls
    <2>6. PICK e \in Calls : e = FlushCall(d, TRUE, TRUE)
        BY DEF FlushCall, Calls
    <2>7. PICK z \in Calls : z = SubmitCall(ops, d, {s})
        BY DEF SubmitCall, Calls
    <2>8. /\ a.call = "fill" /\ b.call = "flush" /\ b.pix = s /\ b.reads = FALSE
          /\ c.call = "fill" /\ e.call = "flush" /\ e.pix = d /\ e.reads = TRUE
          /\ z.call = "submit" /\ z.pix = d /\ z.srcs = {s} /\ z.ops = ops
        BY <2>3, <2>4, <2>5, <2>6, <2>7 DEF FillCall, FlushCall, SubmitCall
    <2>9. PICK v : v = <<a, b>>
        OBVIOUS
    <2>10. PICK w : w = <<c, e>> \o <<z>>
        OBVIOUS
    <2>11. v \in Seq(Calls) /\ Len(v) = 2 /\ v[1] = a /\ v[2] = b
        BY <2>9
    <2>12. Three(w, c, e, z)
        BY <2>10, JoinFact
    <2>13. todo' = v \o w
        <3>1. todo' = (<<a, b>> \o <<c, e>>) \o <<z>>
            BY <1>1, <1>5, <2>1, <2>2, <2>3, <2>4, <2>5, <2>6, <2>7 DEF FlushDeferred
        <3>2. (<<a, b>> \o <<c, e>>) \o <<z>> = <<a, b>> \o (<<c, e>> \o <<z>>)
            OBVIOUS
        <3>. QED
            BY <2>9, <2>10, <3>1, <3>2
    <2>14. PICK u : u = v \o w
        OBVIOUS
    <2>15. /\ u \in Seq(Calls) /\ Len(u) = 5 /\ DOMAIN u = 1..5
           /\ \A i \in 1..5 : u[i] = IF i <= 2 THEN v[i] ELSE w[i - 2]
        <3>1. w \in Seq(Calls) /\ Len(w) = 3
            BY <2>12 DEF Three
        <3>2. /\ u \in Seq(Calls) /\ Len(u) = Len(v) + Len(w) /\ DOMAIN u = 1..(Len(v) + Len(w))
              /\ \A i \in 1..(Len(v) + Len(w)) : u[i] = IF i <= Len(v) THEN v[i] ELSE w[i - Len(v)]
            BY <2>11, <2>14, <3>1, ConcatFact
        <3>. QED
            BY <2>11, <3>1, <3>2
    <2>16. w[1] = c /\ w[2] = e /\ w[3] = z
        BY <2>12 DEF Three
    <2>17. u[1] = a /\ u[2] = b /\ u[3] = c /\ u[4] = e /\ u[5] = z /\ u # <<>> /\ DOMAIN u = {1, 2, 3, 4, 5}
        <3>1. u[1] = a /\ u[2] = b
            BY <2>11, <2>15
        <3>2. /\ u[3] = w[1] /\ u[4] = w[2] /\ u[5] = w[3]
            BY <2>15
        <3>3. 1..5 = {1, 2, 3, 4, 5}
            OBVIOUS
        <3>4. u # <<>>
            <4>1. u = <<>> => Len(u) = 0
                OBVIOUS
            <4>. QED
                BY <2>15, <4>1
        <3>. QED
            BY <2>15, <2>16, <3>1, <3>2, <3>3, <3>4
    <2>18. ReqType' /\ ReqInv' /\ req'.kind = "copy" /\ req' # Idle
        BY <1>1, <1>5, ReqKept, CopyFact DEF RenderInv, Agenda
    <2>19. todo' = u
        BY <2>13, <2>14
    <2>20. OpsOf(z.ops, d, {s})
        BY <2>2, <2>8
    <2>21. Five(todo', a, b, c, e, z)
        BY <2>15, <2>17, <2>19 DEF Five
    <2>. QED
        BY <2>8, <2>18, <2>20, <2>21, CopyAgenda
<1>6. Agenda'
    BY <1>1, <1>3, <1>4, <1>5
<1>7. /\ mem' \in Maps /\ ideal' \in Maps /\ alpha_0' \in [Pixmaps -> BOOLEAN]
      /\ fill' = fill /\ fill' \in [Pixmaps -> Colours \cup {NoFill}] /\ served' \in 0..MaxRequests
    BY <1>1 DEF RenderInv, PictureType, picture
<1>. QED
    BY <1>2, <1>6, <1>7, InvKept DEF CalmBut

-----------------------------------------------------------------------------
(* Requests for composites.                                                *)

LEMMA CompositeFact ==
    ASSUME RenderInv, req.kind = "composite"
    PROVE  /\ req \in Composite /\ req # Idle /\ req.want \in Requests /\ req.want.dst \in Pixmaps
           /\ req.want.op \in {"Src", "Over"} /\ req.op \in {"Src", "Over"}
           /\ req.src \in Operands /\ req.mask \in Operands /\ Fetched \in Operands
           /\ ReqInv /\ req.ops \in Seq(Operations)
           /\ \A i \in DOMAIN req.rects : Painting(req.rects[i]) \in Operations
           /\ \A t \in {req.src, req.mask, Fetched} : ~ IsSolid(t) => t.pix \in Pixmaps
<1>1. req # Idle
    BY DEF Idle
<1>2. req \in Composite /\ \A i \in DOMAIN req.rects : Painting(req.rects[i]) \in Operations
    BY <1>1 DEF RenderInv, Agenda, ReqType, Blit, Access2, Blits, Filling
<1>3. ReqInv /\ req.want.op \in {"Src", "Over"}
    BY DEF RenderInv, Agenda, ReqInv
<1>4. /\ req.want \in Requests /\ req.src \in Operands /\ req.mask \in Operands
      /\ req.op \in {"Src", "Over"} /\ req.ops \in Seq(Operations)
    BY <1>2 DEF Composite
<1>5. Fetched \in Operands
    BY <1>4, ColoursFact DEF Fetched, Operands
<1>6. \A t \in Operands : ~ IsSolid(t) => t.pix \in Pixmaps
    BY DEF Operands, Solid, Texture, IsSolid
<1>. QED
    BY <1>1, <1>2, <1>3, <1>4, <1>5, <1>6, RequestFact

LEMMA CompositeRectInv == RenderInv /\ CompositeRect => RenderInv'
<1>. SUFFICES ASSUME RenderInv, CompositeRect PROVE RenderInv'
    OBVIOUS
<1>1. req.kind = "composite" /\ NextRect({"composite"})
    BY DEF CompositeRect, NextRect
<1>2. PICK R : R = Head(req.rects)
    OBVIOUS
<1>3. PICK cells : cells = Clipped(R)
    OBVIOUS
<1>4. PICK o : o = [op |-> req.op, dst |-> req.want.dst, src |-> req.src,
                    mask |-> req.mask, cells |-> cells, shift |-> R.shift]
    OBVIOUS
<1>5. PICK full \in BOOLEAN : full = (req.full \/ R.cells = Cells(req.want.dst))
    OBVIOUS
<1>6. /\ req' = IF req.out THEN [req EXCEPT !.rects = Tail(@)]
                ELSE [req EXCEPT !.rects = Tail(@), !.full = full,
                                 !.ops = IF cells = {} THEN @ ELSE Append(@, o)]
      /\ UNCHANGED <<mem, seen, pixmap, fences, batch, gpu, todo, served>>
    BY <1>2, <1>3, <1>4, <1>5 DEF CompositeRect
<1>7. /\ todo = <<>> /\ req.want \in Requests
      /\ Tail(req.rects) \in Seq(Rectangles)
      /\ \A i \in DOMAIN Tail(req.rects) : Asked(req.want, Tail(req.rects)[i]) \in Operations
      /\ ideal' \in Maps /\ R \in Rectangles /\ R.cells \subseteq Cells(req.want.dst)
    BY <1>1, <1>2, RectsFact DEF Painting
<1>8. cells \subseteq R.cells
    BY <1>3 DEF Clipped, Inside
<1>9. o \in Operations
    <2>1. o \in [op : {"Copy", "Src", "Over"}, dst : Pixmaps, src : Operands, mask : Operands,
                 cells : SUBSET {"s", "l"}, shift : BOOLEAN]
        BY <1>1, <1>4, <1>7, <1>8, CompositeFact DEF Rectangles
    <2>2. o.op # "Copy" /\ o.cells \subseteq Cells(o.dst)
        BY <1>1, <1>4, <1>7, <1>8, CompositeFact
    <2>. QED
        BY <2>1, <2>2 DEF Operations
<1>10. PICK ops \in Seq(Operations) :
          /\ ops = IF req.out \/ cells = {} THEN req.ops ELSE Append(req.ops, o)
          /\ \A i \in DOMAIN ops : /\ ops[i].op = req.op /\ ops[i].dst = req.want.dst
                                   /\ ops[i].src = req.src /\ ops[i].mask = req.mask
    <2>1. /\ req.ops \in Seq(Operations)
          /\ \A i \in DOMAIN req.ops : /\ req.ops[i].op = req.op /\ req.ops[i].dst = req.want.dst
                                       /\ req.ops[i].src = req.src /\ req.ops[i].mask = req.mask
        BY <1>1, CompositeFact DEF ReqInv
    <2>2. PICK s \in Seq(Operations) : s = req.ops
        BY <2>1
    <2>3. PICK t : t = Append(s, o)
        OBVIOUS
    <2>4. /\ t \in Seq(Operations) /\ Len(s) \in Nat /\ DOMAIN s = 1..Len(s)
          /\ Len(t) = Len(s) + 1 /\ t[Len(s) + 1] = o
          /\ \A i \in 1..Len(s) : t[i] = s[i]
        BY <1>9, <2>3
    <2>5. DOMAIN t = 1..(Len(s) + 1)
        BY <2>4
    <2>6. /\ o.op = req.op /\ o.dst = req.want.dst /\ o.src = req.src /\ o.mask = req.mask
        BY <1>4
    <2>7. ASSUME NEW i \in DOMAIN t
          PROVE  /\ t[i].op = req.op /\ t[i].dst = req.want.dst
                 /\ t[i].src = req.src /\ t[i].mask = req.mask
        <3>1. (i \in DOMAIN s /\ t[i] = s[i]) \/ t[i] = o
            BY <2>4, <2>5
        <3>. QED
            BY <2>1, <2>2, <2>6, <3>1
    <2>8. t = Append(req.ops, o)
        BY <2>2, <2>3
    <2>. QED
        BY <2>1, <2>4, <2>7, <2>8
<1>11. /\ req' \in Composite /\ req'.kind = req.kind /\ req'.want = req.want
       /\ req'.rects = Tail(req.rects) /\ req'.ops = ops
       /\ req'.src = req.src /\ req'.mask = req.mask /\ req'.op = req.op /\ req'.out = req.out
    <2>1. CASE req.out
        BY <1>1, <1>6, <1>7, <1>10, <2>1, CompositeFact DEF Composite
    <2>2. CASE ~ req.out
        <3>1. req' = [req EXCEPT !.rects = Tail(@), !.full = full, !.ops = ops]
            BY <1>6, <1>10, <2>2
        <3>. QED
            BY <1>1, <1>7, <3>1, CompositeFact DEF Composite
    <2>. QED
        BY <2>1, <2>2
<1>12. ReqType'
    BY <1>7, <1>11 DEF ReqType, Painting
<1>13. Fetched' = Fetched
    BY <1>11 DEF Fetched
<1>14. ReqInv'
    <2>1. req'.kind \notin Blits /\ req'.kind = "composite"
        BY <1>1, <1>11 DEF Blits, Filling
    <2>2. req.out => req.ops = <<>>
        BY <1>1, CompositeFact DEF ReqInv
    <2>3. req.out \/ Fetched.pix = req.src.pix
        BY <1>1, CompositeFact DEF ReqInv
    <2>. QED
        BY <1>1, <1>10, <1>11, <1>13, <2>1, <2>2, <2>3, CompositeFact DEF ReqInv, Blits
<1>15. /\ GpuInv' /\ batch' = batch /\ CalmBut({})
    BY <1>6, StillStep DEF RenderInv
<1>16. Agenda'
    BY <1>1, <1>6, <1>7, <1>11, <1>12, <1>14, EmptyAgenda DEF Filling
<1>17. /\ mem' \in Maps /\ alpha_0' \in [Pixmaps -> BOOLEAN]
       /\ fill' = fill /\ fill' \in [Pixmaps -> Colours \cup {NoFill}] /\ served' \in 0..MaxRequests
    BY <1>6 DEF RenderInv, PictureType, pixmap
<1>. QED
    BY <1>7, <1>15, <1>16, <1>17, InvKept DEF CalmBut

-----------------------------------------------------------------------------
(* Agendas put together.                                                   *)

In(c, s) == \E i \in DOMAIN s : s[i] = c

LEMMA NeatConcat ==
    ASSUME NEW s \in Seq(Calls), NEW t \in Seq(Calls), Neat(s), Neat(t)
    PROVE  s \o t \in Seq(Calls) /\ Neat(s \o t) /\ \A c : In(c, s \o t) <=> In(c, s) \/ In(c, t)
<1>1. PICK u : u = s \o t
    OBVIOUS
<1>2. PICK n \in Nat, m \in Nat : n = Len(s) /\ m = Len(t)
    OBVIOUS
<1>3. /\ u \in Seq(Calls) /\ DOMAIN u = 1..(n + m) /\ DOMAIN s = 1..n /\ DOMAIN t = 1..m
      /\ \A i \in 1..(n + m) : u[i] = IF i <= n THEN s[i] ELSE t[i - n]
    BY <1>1, <1>2, ConcatFact
<1>4. \A i \in 1..n : i \in DOMAIN u /\ u[i] = s[i]
    BY <1>3
<1>5. \A i \in 1..m : i + n \in DOMAIN u /\ u[i + n] = t[i]
    <2>1. \A i \in 1..m : i + n \in 1..(n + m) /\ ~ (i + n <= n) /\ (i + n) - n = i
        OBVIOUS
    <2>. QED
        BY <1>3, <2>1
<1>6. \A i \in DOMAIN u : i \in 1..n \/ (i - n \in 1..m /\ (i - n) + n = i)
    BY <1>3
<1>7. \A c : In(c, u) <=> In(c, s) \/ In(c, t)
    <2>1. ASSUME NEW c, In(c, u) PROVE In(c, s) \/ In(c, t)
        <3>1. PICK i \in DOMAIN u : u[i] = c
            BY <2>1 DEF In
        <3>2. CASE i \in 1..n
            BY <1>3, <1>4, <3>1, <3>2 DEF In
        <3>3. CASE i - n \in 1..m /\ (i - n) + n = i
            <4>1. PICK k \in 1..m : k = i - n /\ k + n = i
                BY <3>3
            <4>. QED
                BY <1>3, <1>5, <3>1, <4>1 DEF In
        <3>. QED
            BY <1>6, <3>2, <3>3
    <2>2. ASSUME NEW c, In(c, s) PROVE In(c, u)
        <3>1. PICK i \in DOMAIN s : s[i] = c
            BY <2>2 DEF In
        <3>. QED
            BY <1>3, <1>4, <3>1 DEF In
    <2>3. ASSUME NEW c, In(c, t) PROVE In(c, u)
        <3>1. PICK i \in DOMAIN t : t[i] = c
            BY <2>3 DEF In
        <3>. QED
            BY <1>3, <1>5, <3>1 DEF In
    <2>. QED
        BY <2>1, <2>2, <2>3
<1>8. Neat(u)
    <2>1. ASSUME NEW i \in 1..n
          PROVE  /\ u[i].call \in {"fill", "flush", "wait"}
                 /\ u[i].call = "wait" => \E r \in BOOLEAN :
                      /\ u[i].slots = WaitSlots(u[i].pix, r)
                      /\ \E j \in 1..(i - 1) : u[j].call = "flush" /\ u[j].pix = u[i].pix /\ (r => u[j].reads)
                      /\ \E j \in 1..(i - 1) : u[j].call = "fill" /\ u[j].pix = u[i].pix
        <3>1. u[i] = s[i] /\ i \in DOMAIN s
            BY <1>3, <1>4
        <3>2. \A j \in 1..(i - 1) : u[j] = s[j]
            BY <1>4
        <3>. QED
            BY <3>1, <3>2 DEF Neat
    <2>2. ASSUME NEW k \in 1..m, NEW i, i = k + n
          PROVE  /\ u[i].call \in {"fill", "flush", "wait"}
                 /\ u[i].call = "wait" => \E r \in BOOLEAN :
                      /\ u[i].slots = WaitSlots(u[i].pix, r)
                      /\ \E j \in 1..(i - 1) : u[j].call = "flush" /\ u[j].pix = u[i].pix /\ (r => u[j].reads)
                      /\ \E j \in 1..(i - 1) : u[j].call = "fill" /\ u[j].pix = u[i].pix
        <3>1. u[i] = t[k] /\ k \in DOMAIN t
            BY <1>3, <1>5, <2>2
        <3>2. \A j \in 1..(k - 1) : j + n \in 1..(i - 1) /\ u[j + n] = t[j]
            BY <1>5, <2>2
        <3>3. t[k].call \in {"fill", "flush", "wait"}
            BY <3>1 DEF Neat
        <3>4. ASSUME t[k].call = "wait"
              PROVE  \E r \in BOOLEAN :
                      /\ u[i].slots = WaitSlots(u[i].pix, r)
                      /\ \E j \in 1..(i - 1) : u[j].call = "flush" /\ u[j].pix = u[i].pix /\ (r => u[j].reads)
                      /\ \E j \in 1..(i - 1) : u[j].call = "fill" /\ u[j].pix = u[i].pix
            <4>1. PICK r \in BOOLEAN :
                      /\ t[k].slots = WaitSlots(t[k].pix, r)
                      /\ \E j \in 1..(k - 1) : t[j].call = "flush" /\ t[j].pix = t[k].pix /\ (r => t[j].reads)
                      /\ \E j \in 1..(k - 1) : t[j].call = "fill" /\ t[j].pix = t[k].pix
                BY <3>1, <3>4 DEF Neat
            <4>2. PICK x \in 1..(k - 1) : t[x].call = "flush" /\ t[x].pix = t[k].pix /\ (r => t[x].reads)
                BY <4>1
            <4>3. PICK y \in 1..(k - 1) : t[y].call = "fill" /\ t[y].pix = t[k].pix
                BY <4>1
            <4>4. x + n \in 1..(i - 1) /\ u[x + n] = t[x] /\ y + n \in 1..(i - 1) /\ u[y + n] = t[y]
                BY <3>2
            <4>5. \E j \in 1..(i - 1) : u[j].call = "flush" /\ u[j].pix = u[i].pix /\ (r => u[j].reads)
                BY <3>1, <4>2, <4>4
            <4>6. \E j \in 1..(i - 1) : u[j].call = "fill" /\ u[j].pix = u[i].pix
                BY <3>1, <4>3, <4>4
            <4>. QED
                BY <3>1, <4>1, <4>5, <4>6
        <3>. QED
            BY <3>1, <3>3, <3>4
    <2>3. ASSUME NEW i \in DOMAIN u PROVE i \in 1..n \/ \E k \in 1..m : i = k + n
        BY <1>6
    <2>. DEFINE Fine(i) ==
             /\ u[i].call \in {"fill", "flush", "wait"}
             /\ u[i].call = "wait" => \E r \in BOOLEAN :
                  /\ u[i].slots = WaitSlots(u[i].pix, r)
                  /\ \E j \in 1..(i - 1) : u[j].call = "flush" /\ u[j].pix = u[i].pix /\ (r => u[j].reads)
                  /\ \E j \in 1..(i - 1) : u[j].call = "fill" /\ u[j].pix = u[i].pix
    <2>4. \A i \in 1..n : Fine(i)
        BY <2>1
    <2>5. \A k \in 1..m : Fine(k + n)
        <3>1. ASSUME NEW k \in 1..m PROVE Fine(k + n)
            <4>1. PICK i : i = k + n
                OBVIOUS
            <4>2. Fine(i)
                BY <2>2, <4>1
            <4>. QED
                BY <4>1, <4>2
        <3>. QED
            BY <3>1
    <2>6. \A i \in DOMAIN u : Fine(i)
        <3>. HIDE DEF Fine
        <3>. QED
            BY <2>3, <2>4, <2>5
    <2>. QED
        BY <2>6 DEF Neat
<1>. QED
    BY <1>1, <1>3, <1>7, <1>8

LEMMA NoneNeat == <<>> \in Seq(Calls) /\ Neat(<<>>) /\ \A c : ~ In(c, <<>>)
BY DEF Neat, In

LEMMA FillNeat ==
    ASSUME NEW p \in Pixmaps, NEW a \in BOOLEAN
    PROVE  /\ <<FillCall(p, a)>> \in Seq(Calls) /\ Neat(<<FillCall(p, a)>>)
           /\ \A c : In(c, <<FillCall(p, a)>>) <=> c = FillCall(p, a)
           /\ FillCall(p, a).call = "fill" /\ FillCall(p, a).pix = p
<1>1. PICK c \in Calls : c = FillCall(p, a)
    BY DEF FillCall, Calls
<1>2. c.call = "fill" /\ c.pix = p
    BY <1>1 DEF FillCall
<1>3. PICK s : s = <<c>>
    OBVIOUS
<1>4. One(s, c)
    BY <1>3, TupleFact
<1>5. s \in Seq(Calls) /\ Neat(s) /\ \A b : In(b, s) <=> b = c
    BY <1>2, <1>4 DEF One, Neat, In
<1>. QED
    BY <1>1, <1>2, <1>3, <1>5

LEMMA AccessNeat ==
    ASSUME NEW p \in Pixmaps, NEW w \in BOOLEAN
    PROVE  /\ Access(p, w) \in Seq(Calls) /\ Neat(Access(p, w))
           /\ In(WaitCall(p, WaitSlots(p, w)), Access(p, w))
<1>1. PICK a \in Calls : a = FillCall(p, FALSE)
    BY DEF FillCall, Calls
<1>2. PICK b \in Calls : b = FlushCall(p, w, TRUE)
    BY DEF FlushCall, Calls
<1>3. PICK c : c = WaitCall(p, WaitSlots(p, w))
    OBVIOUS
<1>4. c \in Calls
    BY <1>3, WaitSlotsFact DEF WaitCall, Calls
<1>5. /\ a.call = "fill" /\ a.pix = p /\ b.call = "flush" /\ b.pix = p /\ b.reads = w
      /\ c.call = "wait" /\ c.pix = p /\ c.slots = WaitSlots(p, w)
    BY <1>1, <1>2, <1>3 DEF FillCall, FlushCall, WaitCall
<1>6. PICK s : s = <<a, b>> \o <<c>>
    OBVIOUS
<1>7. Access(p, w) = s
    BY <1>1, <1>2, <1>3, <1>6 DEF Access, FlushDeferred, WaitSlots
<1>8. /\ s \in Seq(Calls) /\ DOMAIN s = {1, 2, 3} /\ s[1] = a /\ s[2] = b /\ s[3] = c
    BY <1>4, <1>6, JoinFact DEF Three
<1>9. Neat(s)
    <2>1. ASSUME NEW i \in DOMAIN s
          PROVE  /\ s[i].call \in {"fill", "flush", "wait"}
                 /\ s[i].call = "wait" => i = 3 /\ s[i] = c
        BY <1>5, <1>8
    <2>2. 1 \in 1..(3 - 1) /\ 2 \in 1..(3 - 1)
        OBVIOUS
    <2>3. \E r \in BOOLEAN :
             /\ c.slots = WaitSlots(c.pix, r)
             /\ \E j \in 1..(3 - 1) : s[j].call = "flush" /\ s[j].pix = c.pix /\ (r => s[j].reads)
             /\ \E j \in 1..(3 - 1) : s[j].call = "fill" /\ s[j].pix = c.pix
        BY <1>5, <1>8, <2>2
    <2>. QED
        BY <2>1, <2>3 DEF Neat
<1>10. In(c, s)
    BY <1>8 DEF In
<1>. QED
    BY <1>3, <1>7, <1>8, <1>9, <1>10

LEMMA FillsNeat ==
    ASSUME NEW p, NEW b \in BOOLEAN, b => p \in Pixmaps, NEW s,
           s = IF b THEN <<FillCall(p, TRUE)>> ELSE <<>>
    PROVE  /\ s \in Seq(Calls) /\ Neat(s) /\ (\A x : In(x, s) => x.call = "fill")
           /\ b => In(FillCall(p, TRUE), s)
<1>1. CASE b
    <2>1. p \in Pixmaps /\ s = <<FillCall(p, TRUE)>>
        BY <1>1
    <2>4. /\ <<FillCall(p, TRUE)>> \in Seq(Calls) /\ Neat(<<FillCall(p, TRUE)>>)
          /\ \A x : In(x, <<FillCall(p, TRUE)>>) <=> x = FillCall(p, TRUE)
          /\ FillCall(p, TRUE).call = "fill"
        BY <2>1, FillNeat
    <2>2. \A x : In(x, s) <=> x = FillCall(p, TRUE)
        BY <2>1, <2>4
    <2>3. FillCall(p, TRUE).call = "fill" /\ s \in Seq(Calls) /\ Neat(s)
        BY <2>1, <2>4
    <2>. QED
        BY <2>2, <2>3
<1>2. CASE ~ b
    BY <1>2, NoneNeat
<1>. QED
    BY <1>1, <1>2

LEMMA DoneCompositeInv == RenderInv /\ DoneComposite => RenderInv'
<1>. SUFFICES ASSUME RenderInv, DoneComposite PROVE RenderInv'
    OBVIOUS
<1>1. /\ req.kind = "composite" /\ todo = <<>>
      /\ UNCHANGED <<picture, pixmap, fences, batch, gpu, served>>
    BY DEF DoneComposite, AllDrawn
<1>2. PICK s1 : s1 = IF IsSolid(Fetched) THEN <<>> ELSE <<FillCall(Fetched.pix, TRUE)>>
    OBVIOUS
<1>3. PICK s2 : s2 = IF IsSolid(req.mask) THEN <<>> ELSE <<FillCall(req.mask.pix, TRUE)>>
    OBVIOUS
<1>4. PICK s3 : s3 = IF req.want.dst = batch.cur THEN <<>> ELSE <<FillCall(req.want.dst, TRUE)>>
    OBVIOUS
<1>5. PICK c : c = AppendCall
    OBVIOUS
<1>6. IF req.ops = <<>> THEN req' = Idle /\ todo' = todo
      ELSE req' = req /\ todo' = ((s1 \o s2) \o s3) \o <<c>>
    BY <1>2, <1>3, <1>4, <1>5 DEF DoneComposite
<1>7. /\ s1 \in Seq(Calls) /\ Neat(s1) /\ (\A x : In(x, s1) => x.call = "fill")
      /\ ~ IsSolid(Fetched) => In(FillCall(Fetched.pix, TRUE), s1)
    <2>1. PICK b \in BOOLEAN : b = (~ IsSolid(Fetched))
        OBVIOUS
    <2>2. PICK p : p = Fetched.pix
        OBVIOUS
    <2>3. b => p \in Pixmaps
        BY <1>1, <2>1, <2>2, CompositeFact
    <2>4. s1 = IF b THEN <<FillCall(p, TRUE)>> ELSE <<>>
        BY <1>2, <2>1, <2>2
    <2>5. /\ s1 \in Seq(Calls) /\ Neat(s1) /\ (\A x : In(x, s1) => x.call = "fill")
          /\ b => In(FillCall(p, TRUE), s1)
        BY <2>3, <2>4, FillsNeat
    <2>. QED
        BY <2>1, <2>2, <2>5
<1>8. /\ s2 \in Seq(Calls) /\ Neat(s2) /\ (\A x : In(x, s2) => x.call = "fill")
      /\ ~ IsSolid(req.mask) => In(FillCall(req.mask.pix, TRUE), s2)
    <2>1. PICK b \in BOOLEAN : b = (~ IsSolid(req.mask))
        OBVIOUS
    <2>2. PICK p : p = req.mask.pix
        OBVIOUS
    <2>3. b => p \in Pixmaps
        BY <1>1, <2>1, <2>2, CompositeFact
    <2>4. s2 = IF b THEN <<FillCall(p, TRUE)>> ELSE <<>>
        BY <1>3, <2>1, <2>2
    <2>5. /\ s2 \in Seq(Calls) /\ Neat(s2) /\ (\A x : In(x, s2) => x.call = "fill")
          /\ b => In(FillCall(p, TRUE), s2)
        BY <2>3, <2>4, FillsNeat
    <2>. QED
        BY <2>1, <2>2, <2>5
<1>9. /\ s3 \in Seq(Calls) /\ Neat(s3) /\ (\A x : In(x, s3) => x.call = "fill")
      /\ req.want.dst # batch.cur => In(FillCall(req.want.dst, TRUE), s3)
    <2>1. PICK b \in BOOLEAN : b = (req.want.dst # batch.cur)
        OBVIOUS
    <2>2. PICK p : p = req.want.dst
        OBVIOUS
    <2>3. b => p \in Pixmaps
        BY <1>1, <2>1, <2>2, CompositeFact
    <2>4. s3 = IF b THEN <<FillCall(p, TRUE)>> ELSE <<>>
        BY <1>4, <2>1, <2>2
    <2>5. /\ s3 \in Seq(Calls) /\ Neat(s3) /\ (\A x : In(x, s3) => x.call = "fill")
          /\ b => In(FillCall(p, TRUE), s3)
        BY <2>3, <2>4, FillsNeat
    <2>. QED
        BY <2>1, <2>2, <2>5
<1>10. PICK v \in Seq(Calls) : v = s1 \o s2 /\ Neat(v) /\ \A x : In(x, v) <=> In(x, s1) \/ In(x, s2)
    BY <1>7, <1>8, NeatConcat
<1>11. PICK s \in Seq(Calls) : s = v \o s3 /\ Neat(s) /\ \A x : In(x, s) <=> In(x, v) \/ In(x, s3)
    <2>1. s3 \in Seq(Calls) /\ Neat(s3) /\ Neat(v)
        BY <1>9, <1>10
    <2>. QED
        BY <2>1, NeatConcat
<1>12. ASSUME NEW x, In(x, s) PROVE x.call = "fill"
    BY <1>7, <1>8, <1>9, <1>10, <1>11, <1>12
<1>13. \A i \in DOMAIN s : s[i].call = "fill"
    BY <1>12 DEF In
<1>14. ASSUME NEW p, In(FillCall(p, TRUE), s)
       PROVE  \E i \in DOMAIN s : s[i].call = "fill" /\ s[i].pix = p
    <2>1. PICK i \in DOMAIN s : s[i] = FillCall(p, TRUE)
        BY <1>14 DEF In
    <2>. QED
        BY <2>1 DEF FillCall
<1>15. /\ c \in Calls /\ c.call = "append" /\ c.src = Fetched
    BY <1>1, <1>5, CompositeFact DEF AppendCall, Calls
<1>16. GpuInv' /\ batch' = batch /\ CalmBut({})
    BY <1>1, StillStep DEF RenderInv
<1>17. ASSUME req.ops # <<>> PROVE Agenda'
    <2>1. req' = req /\ todo' = s \o <<c>>
        BY <1>6, <1>10, <1>11, <1>17
    <2>2. ReqType' /\ ReqInv' /\ Fetched' = Fetched /\ Accessed' = {}
        BY <1>1, <2>1, ReqKept DEF RenderInv, Agenda, Accessed
    <2>3. req' # Idle /\ req'.kind = "composite" /\ c.call \in Final(req'.kind)
        BY <1>1, <1>15, <2>1 DEF Idle, Final, Filling
    <2>4. ~ req'.out
        BY <1>1, <1>17, <2>1, CompositeFact DEF ReqInv
    <2>5. ~ IsSolid(Fetched) => \E i \in DOMAIN s : s[i].call = "fill" /\ s[i].pix = Fetched.pix
        BY <1>7, <1>10, <1>11, <1>14
    <2>6. ~ IsSolid(req.mask) => \E i \in DOMAIN s : s[i].call = "fill" /\ s[i].pix = req.mask.pix
        BY <1>8, <1>10, <1>11, <1>14
    <2>7. req.want.dst # batch.cur => \E i \in DOMAIN s : s[i].call = "fill" /\ s[i].pix = req.want.dst
        BY <1>9, <1>11, <1>14
    <2>8. \A t \in {Fetched', req'.mask} : ~ IsSolid(t) =>
                    \E i \in DOMAIN s : s[i].call = "fill" /\ s[i].pix = t.pix
        BY <2>1, <2>2, <2>5, <2>6
    <2>9. req'.want.dst = batch'.cur \/
                    \E i \in DOMAIN s : s[i].call = "fill" /\ s[i].pix = req'.want.dst
        BY <1>16, <2>1, <2>7
    <2>10. c.call # "look" /\ c.src = Fetched'
        BY <1>15, <2>2
    <2>. QED
        BY <1>11, <1>13, <1>15, <2>1, <2>2, <2>3, <2>4, <2>8, <2>9, <2>10, NeatAgenda
<1>18. Agenda'
    BY <1>1, <1>6, <1>17, IdleAgenda
<1>19. /\ mem' \in Maps /\ ideal' \in Maps /\ alpha_0' \in [Pixmaps -> BOOLEAN]
       /\ fill' = fill /\ fill' \in [Pixmaps -> Colours \cup {NoFill}] /\ served' \in 0..MaxRequests
    BY <1>1 DEF RenderInv, PictureType, picture, pixmap
<1>. QED
    BY <1>16, <1>18, <1>19, InvKept DEF CalmBut

LEMMA AppendJobInv == RenderInv /\ AppendJob => RenderInv'
<1>. SUFFICES ASSUME RenderInv, AppendJob PROVE RenderInv'
    OBVIOUS
<1>1. todo # <<>> /\ me.call = "append" /\ me.call \notin Middle
    BY DEF AppendJob, At, me, Middle
<1>2. /\ DOMAIN todo = {1} /\ todo[1] = me /\ me \in Calls /\ me.call \in Final(req.kind)
    BY <1>1, LastFactCall DEF RenderInv
<1>3. req.kind = "composite"
    BY <1>1, <1>2 DEF Final, Filling
<1>4. me.src = Fetched /\ ~ req.out
    BY <1>1, <1>2 DEF RenderInv, Agenda, AppendAgenda
<1>5. PICK d \in Pixmaps : d = req.want.dst
    BY <1>3, CompositeFact
<1>6. PICK src \in Operands : src = Fetched
    BY <1>3, CompositeFact
<1>7. PICK mask \in Operands : mask = req.mask
    BY <1>3, CompositeFact
<1>8. \A p : ~ \E j \in 1..(1 - 1) : todo[j].call = "fill" /\ todo[j].pix = p
    OBVIOUS
<1>9. /\ \A t \in {src, mask} : ~ IsSolid(t) => fill[t.pix] = NoFill
      /\ d = batch.cur \/ fill[d] = NoFill
    <2>1. /\ \A t \in {Fetched, req.mask} : ~ IsSolid(t) => Filled(1, t.pix)
          /\ req.want.dst = batch.cur \/ Filled(1, req.want.dst)
        BY <1>1, <1>2 DEF RenderInv, Agenda, AppendAgenda
    <2>. QED
        BY <1>5, <1>6, <1>7, <1>8, <2>1 DEF Filled
<1>10. d = batch.cur => fill[d] = NoFill
    <2>1. d # NoPixmap
        BY RenderAssumption
    <2>2. d = batch.cur => InBatch(d)
        BY <2>1 DEF RenderInv, GpuInv, BatchInv
    <2>. QED
        BY <2>2 DEF RenderInv, FillInv
<1>11. /\ GpuInv'
       /\ \A p \in Pixmaps : InBatch(p)' => InBatch(p) \/ p = d
                                \/ \E t \in {src, mask} : ~ IsSolid(t) /\ p = t.pix
    <2>1. req.src.pix = src.pix /\ req.src \in Operands
        BY <1>3, <1>4, <1>6, CompositeFact DEF ReqInv
    <2>2. /\ req.ops \in Seq(Operations) /\ req.op # "Copy"
          /\ \A i \in DOMAIN req.ops : /\ req.ops[i].op = req.op /\ req.ops[i].dst = d
                                       /\ req.ops[i].mask = mask
        BY <1>3, <1>5, <1>7, CompositeFact DEF ReqInv
    <2>. QED
        BY <1>4, <1>5, <1>6, <1>7, <2>1, <2>2, AppendStep DEF RenderInv
<1>12. /\ req' = Idle /\ todo' = <<>>
       /\ UNCHANGED <<picture, fill, served>>
    BY DEF AppendJob
<1>13. alpha_0' \in [Pixmaps -> BOOLEAN]
    <2>1. PICK a \in BOOLEAN : a = CompositeAlpha(d)
        <3>1. req.full \in BOOLEAN /\ alpha_0[d] \in BOOLEAN
            BY <1>3, CompositeFact DEF Composite, RenderInv, PictureType
        <3>2. \A t : ZeroTexture(t) \in BOOLEAN
            BY DEF ZeroTexture, IsEmpty, IsSolid
        <3>. QED
            BY <3>1, <3>2 DEF CompositeAlpha
    <2>2. alpha_0' = [alpha_0 EXCEPT ![d] = a]
        BY <1>5, <2>1 DEF AppendJob
    <2>. QED
        BY <2>2 DEF RenderInv, PictureType
<1>14. Agenda'
    BY <1>12, IdleAgenda
<1>15. PictureType' /\ served' \in 0..MaxRequests
    BY <1>12, <1>13 DEF RenderInv, PictureType, picture
<1>16. ASSUME NEW p \in Pixmaps, fill'[p] # NoFill, (InBatch(p))' PROVE FALSE
    <2>1. InBatch(p) => fill[p] = NoFill
        BY DEF RenderInv, FillInv
    <2>2. fill[p] # NoFill
        BY <1>12, <1>16
    <2>. QED
        BY <1>9, <1>10, <1>11, <1>16, <2>1, <2>2
<1>17. FillInv'
    BY <1>16 DEF FillInv
<1>. QED
    BY <1>11, <1>14, <1>15, <1>17 DEF RenderInv

-----------------------------------------------------------------------------
(* Access by the processor.                                                *)

\* The wait for p sees to an access to p.
Awaits(s, p, w) == \E i \in DOMAIN s :
    s[i].call = "wait" /\ s[i].pix = p /\ WaitSlots(p, w) \subseteq s[i].slots

LEMMA AwaitsFact ==
    ASSUME NEW s, NEW p, NEW w, In(WaitCall(p, WaitSlots(p, w)), s)
    PROVE  Awaits(s, p, w)
<1>1. PICK i \in DOMAIN s : s[i] = WaitCall(p, WaitSlots(p, w))
    BY DEF In
<1>. QED
    BY <1>1 DEF Awaits, WaitCall

LEMMA AccessStarted ==
    ASSUME RenderInv, NEW q \in Requests, NEW k \in {"soft", "look"}, Start(q, k),
           NEW s \in Seq(Calls), Neat(s), NEW c \in Calls,
           todo' = s \o <<c>>, c.call \in Final(k), c.call = "look" => c.pix = q.dst,
           req' = [kind |-> k, want |-> q, rects |-> IF k = "look" THEN <<>> ELSE q.rects],
           Awaits(s, q.dst, k = "soft"),
           k = "soft" => \A t \in {q.src, q.mask} : ~ IsSolid(t) => Awaits(s, t.pix, FALSE),
           UNCHANGED <<picture, pixmap, fences, batch, gpu>>
    PROVE  RenderInv'
<1>1. /\ req'.kind = k /\ req'.want = q /\ req'.rects = IF k = "look" THEN <<>> ELSE q.rects
    OBVIOUS
<1>2. <<>> \in Seq(Rectangles) /\ DOMAIN <<>> = {}
    OBVIOUS
<1>3. req' \in Access2
    BY <1>1, <1>2, RequestFact DEF Access2
<1>4. ReqType'
    <2>1. \A i \in DOMAIN req'.rects : Asked(q, req'.rects[i]) \in Operations
        BY <1>1, <1>2, RequestFact
    <2>. QED
        BY <1>1, <1>3, <2>1 DEF ReqType, Painting
<1>5. ReqInv'
    <2>1. k \notin Blits
        BY DEF Blits, Filling
    <2>. QED
        BY <1>1, <2>1 DEF ReqInv, Blits
<1>6. /\ GpuInv' /\ batch' = batch /\ CalmBut({})
    BY StillStep DEF RenderInv
<1>7. ASSUME NEW a \in Accessed'
      PROVE  \E i \in DOMAIN s :
                s[i].call = "wait" /\ s[i].pix = a[1] /\ WaitSlots(a[1], a[2]) \subseteq s[i].slots
    <2>1. CASE k = "look"
        <3>1. a = <<q.dst, FALSE>>
            BY <1>1, <2>1 DEF Accessed
        <3>2. a[1] = q.dst /\ a[2] = FALSE
            BY <3>1
        <3>3. Awaits(s, q.dst, FALSE)
            BY <2>1
        <3>. QED
            BY <3>2, <3>3 DEF Awaits
    <2>2. CASE k = "soft"
        <3>1. a = <<q.dst, TRUE>> \/ \E t \in {q.src, q.mask} : ~ IsSolid(t) /\ a = <<t.pix, FALSE>>
            <4>1. Accessed' = {<<q.dst, TRUE>>}
                    \cup {<<o.pix, FALSE>> : o \in {v \in {q.src, q.mask} : ~ IsSolid(v)}}
                BY <1>1, <2>2 DEF Accessed
            <4>. QED
                BY <4>1
        <3>2. CASE a = <<q.dst, TRUE>>
            <4>1. a[1] = q.dst /\ a[2] = TRUE
                BY <3>2
            <4>2. Awaits(s, q.dst, TRUE)
                BY <2>2
            <4>. QED
                BY <4>1, <4>2 DEF Awaits
        <3>3. CASE \E t \in {q.src, q.mask} : ~ IsSolid(t) /\ a = <<t.pix, FALSE>>
            <4>1. PICK t \in {q.src, q.mask} : ~ IsSolid(t) /\ a = <<t.pix, FALSE>>
                BY <3>3
            <4>2. a[1] = t.pix /\ a[2] = FALSE
                BY <4>1
            <4>3. Awaits(s, t.pix, FALSE)
                BY <2>2, <4>1
            <4>. QED
                BY <4>2, <4>3 DEF Awaits
        <3>. QED
            BY <3>1, <3>2, <3>3
    <2>. QED
        BY <2>1, <2>2
<1>8. req' # Idle /\ req'.kind \in {"soft", "look", "composite"} /\ req'.kind # "composite"
    BY <1>1 DEF Idle
<1>9. c.call # "append"
    BY DEF Final, Filling
<1>10. Agenda'
    BY <1>1, <1>4, <1>5, <1>7, <1>8, <1>9, NeatAgenda
<1>11. /\ mem' \in Maps /\ ideal' \in Maps /\ alpha_0' \in [Pixmaps -> BOOLEAN]
       /\ fill' = fill /\ fill' \in [Pixmaps -> Colours \cup {NoFill}]
    BY DEF RenderInv, PictureType, picture, pixmap
<1>12. served' \in 0..MaxRequests
    BY RenderAssumption DEF Start, RenderInv
<1>. QED
    BY <1>6, <1>10, <1>11, <1>12, InvKept DEF CalmBut

LEMMA PrepareSoftwareInv == RenderInv /\ PrepareSoftware => RenderInv'
<1>. SUFFICES ASSUME RenderInv, PrepareSoftware PROVE RenderInv'
    OBVIOUS
<1>1. PICK q \in Requests :
          /\ Start(q, "soft")
          /\ req' = [kind |-> "soft", want |-> q, rects |-> q.rects]
          /\ todo' = Access(q.dst, TRUE)
                     \o (IF IsSolid(q.src) THEN <<>> ELSE Access(q.src.pix, FALSE))
                     \o (IF IsSolid(q.mask) THEN <<>> ELSE Access(q.mask.pix, FALSE))
                     \o <<[call |-> "software"]>>
          /\ UNCHANGED <<picture, pixmap, fences, batch, gpu>>
    BY DEF PrepareSoftware
<1>2. PICK c : c = [call |-> "software"]
    OBVIOUS
<1>3. c \in Calls /\ c.call = "software"
    BY <1>2 DEF Calls
<1>4. PICK s1 : s1 = Access(q.dst, TRUE)
    OBVIOUS
<1>5. PICK s2 : s2 = IF IsSolid(q.src) THEN <<>> ELSE Access(q.src.pix, FALSE)
    OBVIOUS
<1>6. PICK s3 : s3 = IF IsSolid(q.mask) THEN <<>> ELSE Access(q.mask.pix, FALSE)
    OBVIOUS
<1>7. s1 \in Seq(Calls) /\ Neat(s1) /\ In(WaitCall(q.dst, WaitSlots(q.dst, TRUE)), s1)
    BY <1>4, AccessNeat, RequestFact
<1>8. /\ s2 \in Seq(Calls) /\ Neat(s2)
      /\ ~ IsSolid(q.src) => In(WaitCall(q.src.pix, WaitSlots(q.src.pix, FALSE)), s2)
    <2>1. CASE IsSolid(q.src)
        BY <1>5, <2>1, NoneNeat
    <2>2. CASE ~ IsSolid(q.src)
        <3>1. PICK p \in Pixmaps : p = q.src.pix
            BY <2>2, RequestFact
        <3>. QED
            BY <1>5, <2>2, <3>1, AccessNeat
    <2>. QED
        BY <2>1, <2>2
<1>9. /\ s3 \in Seq(Calls) /\ Neat(s3)
      /\ ~ IsSolid(q.mask) => In(WaitCall(q.mask.pix, WaitSlots(q.mask.pix, FALSE)), s3)
    <2>1. CASE IsSolid(q.mask)
        BY <1>6, <2>1, NoneNeat
    <2>2. CASE ~ IsSolid(q.mask)
        <3>1. PICK p \in Pixmaps : p = q.mask.pix
            BY <2>2, RequestFact
        <3>. QED
            BY <1>6, <2>2, <3>1, AccessNeat
    <2>. QED
        BY <2>1, <2>2
<1>10. PICK v \in Seq(Calls) : v = s1 \o s2 /\ Neat(v) /\ \A x : In(x, v) <=> In(x, s1) \/ In(x, s2)
    BY <1>7, <1>8, NeatConcat
<1>11. PICK s \in Seq(Calls) : s = v \o s3 /\ Neat(s) /\ \A x : In(x, s) <=> In(x, v) \/ In(x, s3)
    <2>1. s3 \in Seq(Calls) /\ Neat(s3) /\ Neat(v)
        BY <1>9, <1>10
    <2>. QED
        BY <2>1, NeatConcat
<1>12. todo' = s \o <<c>>
    BY <1>1, <1>2, <1>4, <1>5, <1>6, <1>10, <1>11
<1>13. Awaits(s, q.dst, TRUE)
    <2>1. In(WaitCall(q.dst, WaitSlots(q.dst, TRUE)), s)
        BY <1>7, <1>10, <1>11
    <2>. QED
        BY <2>1, AwaitsFact
<1>14. ASSUME NEW t \in {q.src, q.mask}, ~ IsSolid(t) PROVE Awaits(s, t.pix, FALSE)
    <2>1. In(WaitCall(t.pix, WaitSlots(t.pix, FALSE)), s)
        <3>1. CASE t = q.src
            BY <1>8, <1>10, <1>11, <1>14, <3>1
        <3>2. CASE t = q.mask
            BY <1>9, <1>11, <1>14, <3>2
        <3>. QED
            BY <3>1, <3>2
    <2>. QED
        BY <2>1, AwaitsFact
<1>15. PICK k \in {"soft", "look"} : k = "soft"
    OBVIOUS
<1>16. /\ Start(q, k) /\ c.call \in Final(k) /\ c.call # "look"
       /\ req' = [kind |-> k, want |-> q, rects |-> IF k = "look" THEN <<>> ELSE q.rects]
       /\ Awaits(s, q.dst, k = "soft")
    BY <1>1, <1>3, <1>13, <1>15 DEF Final, Filling
<1>17. UNCHANGED <<picture, pixmap, fences, batch, gpu>>
    BY <1>1
<1>. QED
    BY <1>3, <1>11, <1>12, <1>14, <1>16, <1>17, AccessStarted

LEMMA PrepareLookInv == RenderInv /\ PrepareLook => RenderInv'
<1>. SUFFICES ASSUME RenderInv, PrepareLook PROVE RenderInv'
    OBVIOUS
<1>1. PICK q \in Requests :
          /\ Start(q, "look")
          /\ req' = [kind |-> "look", want |-> q, rects |-> <<>>]
          /\ todo' = Access(q.dst, FALSE) \o <<[call |-> "look", pix |-> q.dst]>>
          /\ UNCHANGED <<picture, pixmap, fences, batch, gpu>>
    BY DEF PrepareLook
<1>2. PICK c : c = [call |-> "look", pix |-> q.dst]
    OBVIOUS
<1>3. c \in Calls /\ c.call = "look" /\ c.pix = q.dst
    BY <1>2, RequestFact DEF Calls
<1>4. PICK s \in Seq(Calls) : s = Access(q.dst, FALSE) /\ Neat(s) /\
          In(WaitCall(q.dst, WaitSlots(q.dst, FALSE)), s)
    BY AccessNeat, RequestFact
<1>5. Awaits(s, q.dst, FALSE)
    BY <1>4, AwaitsFact
<1>6. PICK k \in {"soft", "look"} : k = "look"
    OBVIOUS
<1>7. /\ Start(q, k) /\ c.call \in Final(k) /\ k # "soft"
      /\ req' = [kind |-> k, want |-> q, rects |-> IF k = "look" THEN <<>> ELSE q.rects]
      /\ Awaits(s, q.dst, k = "soft")
      /\ todo' = s \o <<c>> /\ Neat(s)
    BY <1>1, <1>2, <1>3, <1>4, <1>5, <1>6 DEF Final, Filling
<1>8. UNCHANGED <<picture, pixmap, fences, batch, gpu>>
    BY <1>1
<1>. QED
    BY <1>3, <1>7, <1>8, AccessStarted

LEMMA SoftwareInv == RenderInv /\ Software => RenderInv'
<1>. SUFFICES ASSUME RenderInv, Software PROVE RenderInv'
    OBVIOUS
<1>1. todo # <<>> /\ me.call = "software" /\ me.call \notin Middle
    BY DEF Software, At, me, Middle
<1>2. me.call \in Final(req.kind) /\ req # Idle
    BY <1>1, LastFactCall DEF RenderInv
<1>3. req.kind = "soft"
    BY <1>1, <1>2 DEF Final, Filling
<1>4. /\ req \in Access2 /\ \A i \in DOMAIN req.rects : Painting(req.rects[i]) \in Operations
    BY <1>2, <1>3 DEF RenderInv, Agenda, ReqType, Blit, Composite, Blits, Filling
<1>5. PICK ops : ops = [i \in DOMAIN req.rects |-> Painting(req.rects[i])]
    OBVIOUS
<1>6. ops \in Seq(Operations)
    <2>1. PICK s \in Seq(Rectangles) : s = req.rects
        BY <1>4 DEF Access2
    <2>2. Len(s) \in Nat /\ DOMAIN s = 1..Len(s)
        OBVIOUS
    <2>3. ops \in [1..Len(s) -> Operations]
        BY <1>4, <1>5, <2>1, <2>2
    <2>. QED
        BY <2>2, <2>3
<1>7. /\ mem' = DrawAll(mem, ops) /\ ideal' = DrawAll(ideal, ops)
      /\ alpha_0' = [alpha_0 EXCEPT ![req.want.dst] = FALSE]
      /\ req' = Idle /\ todo' = <<>>
      /\ UNCHANGED <<seen, fill, lockcnt, fences, batch, gpu, served>>
    BY <1>5 DEF Software
<1>8. mem' \in Maps /\ ideal' \in Maps
    BY <1>6, <1>7, DrawAllFact DEF RenderInv, PictureType
<1>9. /\ GpuInv' /\ batch' = batch /\ CalmBut({})
    BY <1>7, StillStep DEF RenderInv
<1>10. Agenda'
    BY <1>7, IdleAgenda
<1>11. /\ alpha_0' \in [Pixmaps -> BOOLEAN] /\ served' \in 0..MaxRequests
       /\ fill' = fill /\ fill' \in [Pixmaps -> Colours \cup {NoFill}]
    BY <1>7 DEF RenderInv, PictureType
<1>. QED
    BY <1>8, <1>9, <1>10, <1>11, InvKept DEF CalmBut

LEMMA LookInv == RenderInv /\ Look => RenderInv'
<1>. SUFFICES ASSUME RenderInv, Look PROVE RenderInv'
    OBVIOUS
<1>1. /\ req' = Idle /\ todo' = <<>>
      /\ UNCHANGED <<mem, ideal, pixmap, fences, batch, gpu, served>>
    BY DEF Look
<1>2. /\ GpuInv' /\ batch' = batch /\ CalmBut({})
    BY <1>1, StillStep DEF RenderInv
<1>3. Agenda'
    BY <1>1, IdleAgenda
<1>4. /\ mem' \in Maps /\ ideal' \in Maps /\ alpha_0' \in [Pixmaps -> BOOLEAN]
      /\ fill' = fill /\ fill' \in [Pixmaps -> Colours \cup {NoFill}] /\ served' \in 0..MaxRequests
    BY <1>1 DEF RenderInv, PictureType, pixmap
<1>. QED
    BY <1>2, <1>3, <1>4, InvKept DEF CalmBut

-----------------------------------------------------------------------------
(* The calls shared by the requests.                                       *)

\* Nothing but the fences, the memory and the agenda changes.
LEMMA CallKept ==
    ASSUME RenderInv, GpuInv', Agenda', mem' \in Maps, UNCHANGED <<ideal, alpha_0, served>>,
           fill' = fill,
           \A p \in Pixmaps : /\ batch'.uses[p].write => batch.uses[p].write
                              /\ batch'.uses[p].read => batch.uses[p].read
    PROVE  RenderInv'
<1>1. /\ ideal' \in Maps /\ alpha_0' \in [Pixmaps -> BOOLEAN]
      /\ fill' \in [Pixmaps -> Colours \cup {NoFill}] /\ served' \in 0..MaxRequests
    BY DEF RenderInv, PictureType
<1>. QED
    BY <1>1, InvKept

LEMMA FillDeferredInv == RenderInv /\ FillDeferred => RenderInv'
<1>. SUFFICES ASSUME RenderInv, FillDeferred PROVE RenderInv'
    OBVIOUS
<1>1. todo # <<>> /\ me.call = "fill" /\ me.call \in Middle /\ me.call \notin {"submit", "flush", "wait"}
    BY DEF FillDeferred, At, me, Middle
<1>2. PICK p \in Pixmaps : p = me.pix
    BY <1>1, HeadCall, CallsFact DEF RenderInv
<1>3. /\ req' = req /\ UNCHANGED <<picture, lockcnt, fences, batch, gpu, served>>
      /\ held' = held /\ fence' = fence /\ signalled' = signalled
    BY DEF FillDeferred, fences, gpu
<1>4. GpuInv /\ GpuInv' /\ batch' = batch /\ CalmBut({})
    BY <1>3, StillStep DEF RenderInv
<1>5. mem' \in Maps /\ ideal' \in Maps /\ served' \in 0..MaxRequests
    BY <1>3 DEF RenderInv, PictureType, picture
<1>6. CASE fill[p] = NoFill
    <2>1. todo' = Tail(todo) /\ fill' = fill /\ alpha_0' = alpha_0
        BY <1>2, <1>6 DEF FillDeferred
    <2>2. me.call = "fill" => fill'[me.pix] = NoFill
        BY <1>2, <1>6, <2>1
    <2>3. Agenda'
        BY <1>1, <1>3, <1>4, <2>1, <2>2, PopStep DEF CalmBut, RenderInv
    <2>. QED
        BY <1>3, <1>4, <1>5, <2>1, <2>3, CallKept DEF CalmBut, picture
<1>7. CASE fill[p] # NoFill
    <2>1. PICK c \in Colours : c = fill[p]
        BY <1>7 DEF RenderInv, PictureType
    <2>2. PICK v : v = Tail(todo)
        OBVIOUS
    <2>3. PICK byCpu \in BOOLEAN : byCpu = (IsSmall(p, Cells(p)) /\ ~ Busy(p))
        OBVIOUS
    <2>4. PICK a : a = IF byCpu THEN WaitCall(p, Read(p) \cup Written(p)) ELSE FlushCall(p, TRUE, TRUE)
        OBVIOUS
    <2>5. PICK b : b = IF byCpu THEN PokeCall(p, Cells(p), c)
                       ELSE SubmitCall(<<FillOp(p, Cells(p), c)>>, p, {})
        OBVIOUS
    <2>6. fill' = [fill EXCEPT ![p] = NoFill] /\ todo' = <<a, b>> \o v
        BY <1>2, <1>7, <2>1, <2>2, <2>3, <2>4, <2>5 DEF FillDeferred
    <2>7. \/ alpha_0' = [alpha_0 EXCEPT ![p] = ZeroAlpha(p, Cells(p), c)]
          \/ alpha_0' = alpha_0
        BY <1>2, <1>7, <2>1 DEF FillDeferred
    <2>8. alpha_0' \in [Pixmaps -> BOOLEAN]
        BY <2>7, ZeroAlphaFact DEF RenderInv, PictureType
    <2>9. /\ fill' \in [Pixmaps -> Colours \cup {NoFill}]
          /\ \A q \in Pixmaps : fill'[q] = IF q = p THEN NoFill ELSE fill[q]
        BY <2>6 DEF RenderInv, PictureType
    <2>10. CASE byCpu
        <3>1. Read(p) \cup Written(p) \in SUBSET Slots /\ Read(p) \cup Written(p) = WaitSlots(p, TRUE)
            BY DEF Read, Written, Slots, WaitSlots
        <3>2. a \in Calls /\ a.call = "wait" /\ a.pix = p /\ a.slots = WaitSlots(p, TRUE)
            BY <2>4, <2>10, <3>1 DEF WaitCall, Calls
        <3>3. b \in Calls /\ b.call = "poke" /\ b.pix = p /\ b.cells = Cells(p)
            BY <2>5, <2>10, CellsFact DEF PokeCall, Calls
        <3>4. Clean(p, TRUE)
            BY <1>4, <2>3, <2>10, BusyFact
        <3>5. Agenda'
            BY <1>1, <1>2, <1>3, <1>7, <2>2, <2>6, <2>9, <3>2, <3>3, <3>4, FillStep DEF RenderInv
        <3>. QED
            BY <1>4, <1>5, <2>8, <2>9, <3>5, InvKept DEF CalmBut
    <2>11. CASE ~ byCpu
        <3>1. a \in Calls /\ a.call = "flush" /\ a.pix = p /\ a.reads = TRUE
            BY <2>4, <2>11 DEF FlushCall, Calls
        <3>2. PICK ops : ops = <<FillOp(p, Cells(p), c)>>
            OBVIOUS
        <3>3. ops \in Seq(Operations) /\ OpsOf(ops, p, {})
            BY <3>2, CellsFact, FillOpFact
        <3>4. b \in Calls /\ b.call = "submit" /\ b.pix = p /\ b.srcs = {} /\ OpsOf(b.ops, p, {})
            BY <2>5, <2>11, <3>2, <3>3 DEF SubmitCall, Calls
        <3>5. Agenda'
            BY <1>1, <1>2, <1>3, <1>7, <2>2, <2>6, <2>9, <3>1, <3>4, FillStep DEF RenderInv
        <3>. QED
            BY <1>4, <1>5, <2>8, <2>9, <3>5, InvKept DEF CalmBut
    <2>. QED
        BY <2>10, <2>11
<1>. QED
    BY <1>6, <1>7

LEMMA FlushDeferred3DInv == RenderInv /\ FlushDeferred3D => RenderInv'
<1>. SUFFICES ASSUME RenderInv, FlushDeferred3D PROVE RenderInv'
    OBVIOUS
<1>1. todo # <<>> /\ me.call = "flush" /\ me.call \in Middle /\ me.call \notin {"submit", "fill", "wait"}
    BY DEF FlushDeferred3D, At, me, Middle
<1>2. PICK p \in Pixmaps : p = me.pix
    BY <1>1, HeadCall, CallsFact DEF RenderInv
<1>3. PICK r \in BOOLEAN : r = me.reads
    BY <1>1, HeadCall, CallsFact DEF RenderInv
<1>4. me.writes = TRUE
    BY <1>1, HeadCall, CallsFact DEF RenderInv
<1>5. /\ IF NeedsFlush(p, r, TRUE) THEN FlushBatch ELSE NoFlush
      /\ todo' = Tail(todo) /\ req' = req /\ fill' = fill
      /\ UNCHANGED <<picture, alpha_0, served>>
    BY <1>2, <1>3, <1>4 DEF FlushDeferred3D
<1>6. GpuInv' /\ CalmBut({}) /\ (~ NeedsFlush(p, r, TRUE)' /\ (req.kind = "composite" => batch' = batch))
    <2>1. CASE NeedsFlush(p, r, TRUE)
        <3>1. NeedsFlush(p, TRUE, TRUE)
            BY <2>1 DEF NeedsFlush
        <3>2. InBatch(p) /\ Deferred
            BY <3>1, UsesFact DEF RenderInv
        <3>3. GpuInv' /\ batch' = NoBatch /\ CalmBut({})
            BY <1>5, <2>1, <3>2, FlushBatchStep DEF RenderInv
        <3>4. ~ NeedsFlush(p, r, TRUE)'
            BY <3>3, NoBatchFact DEF NeedsFlush
        <3>5. req.kind # "composite"
            <4>1. todo[1] = me /\ 1 \in DOMAIN todo
                BY <1>1, HeadCall DEF RenderInv
            <4>. QED
                BY <1>1, <1>2, <3>2, <4>1 DEF RenderInv, Agenda, FlushAgenda
        <3>. QED
            BY <3>3, <3>4, <3>5
    <2>2. CASE ~ NeedsFlush(p, r, TRUE)
        <3>1. GpuInv' /\ batch' = batch /\ CalmBut({})
            BY <1>5, <2>2, NoFlushStep DEF RenderInv
        <3>2. ~ NeedsFlush(p, r, TRUE)'
            BY <2>2, <3>1 DEF NeedsFlush
        <3>. QED
            BY <3>1, <3>2
    <2>. QED
        BY <2>1, <2>2
<1>7. \A q \in Pixmaps : \A k \in BOOLEAN :
         me.call = "flush" /\ me.pix = q /\ me.reads = k => ~ NeedsFlush(q, k, TRUE)'
    BY <1>2, <1>3, <1>6 DEF NeedsFlush
<1>8. req.kind = "composite" => batch'.cur = batch.cur
    BY <1>6
<1>9. Agenda'
    BY <1>1, <1>5, <1>6, <1>7, <1>8, PopStep DEF CalmBut, RenderInv
<1>10. mem' \in Maps /\ UNCHANGED <<ideal, alpha_0, served>>
    BY <1>5 DEF RenderInv, PictureType, picture
<1>. QED
    BY <1>5, <1>6, <1>9, <1>10, CallKept DEF CalmBut

LEMMA WaitInvKept == RenderInv /\ Wait => RenderInv'
<1>. SUFFICES ASSUME RenderInv, Wait PROVE RenderInv'
    OBVIOUS
<1>1. todo # <<>> /\ me.call = "wait" /\ me.call \in Middle /\ me.call \notin {"submit", "fill", "flush"}
    BY DEF Wait, At, me, Middle
<1>2. PICK p \in Pixmaps : p = me.pix
    BY <1>1, HeadCall, CallsFact DEF RenderInv
<1>3. todo[1] = me /\ 1 \in DOMAIN todo
    BY <1>1, HeadCall DEF RenderInv
<1>4. PICK r \in BOOLEAN : me.slots = WaitSlots(p, r) /\ Flushed(1, p, r)
    BY <1>1, <1>2, <1>3 DEF RenderInv, Agenda, WaitAgenda
<1>5. ~ NeedsFlush(p, r, TRUE)
    <2>1. ~ \E j \in 1..(1 - 1) : TRUE
        OBVIOUS
    <2>. QED
        BY <1>4, <2>1 DEF Flushed
<1>6. GpuInv' /\ batch' = batch /\ CalmBut({}) /\ Clean(p, r)'
    BY <1>4, <1>5, WaitStep DEF RenderInv
<1>7. /\ todo' = Tail(todo) /\ req' = req /\ fill' = fill
      /\ UNCHANGED <<picture, alpha_0, served>>
    BY DEF Wait, pixmap
<1>8. \A q \in Pixmaps : me.call = "wait" /\ me.pix = q =>
          \E k \in BOOLEAN : me.slots = WaitSlots(q, k) /\ Clean(q, k)'
    BY <1>2, <1>4, <1>6
<1>9. Agenda'
    BY <1>1, <1>6, <1>7, <1>8, PopStep DEF CalmBut, RenderInv
<1>10. mem' \in Maps /\ UNCHANGED <<ideal, alpha_0, served>>
    BY <1>7 DEF RenderInv, PictureType, picture
<1>. QED
    BY <1>6, <1>7, <1>9, <1>10, CallKept DEF CalmBut

\* A 2D job of the request, or of a fill deferred before.
LEMMA SubmitJobInv == RenderInv /\ SubmitJob => RenderInv'
<1>. SUFFICES ASSUME RenderInv, SubmitJob PROVE RenderInv'
    OBVIOUS
<1>1. todo # <<>> /\ me.call = "submit" /\ me.call \in Middle /\ me.call \notin {"wait", "fill", "flush"}
    BY DEF SubmitJob, At, me, Middle
<1>2. PICK d \in Pixmaps : d = me.pix
    BY <1>1, HeadCall, CallsFact DEF RenderInv
<1>3. /\ todo[1] = me /\ 1 \in DOMAIN todo /\ me \in Calls /\ todo \in Seq(Calls)
      /\ IF Len(todo) = 1 THEN me.call \in Final(req.kind) ELSE me.call \in Middle
      /\ DOMAIN todo = 1..Len(todo) /\ Len(todo) \in Nat /\ Len(todo) > 0
    BY <1>1, HeadCall DEF RenderInv
<1>4. PICK srcs \in SUBSET Pixmaps : srcs = me.srcs
    BY <1>1, <1>3, CallsFact
<1>5. PICK ops \in Seq(Operations) : ops = me.ops
    BY <1>1, <1>3, CallsFact
<1>6. /\ OpsOf(ops, d, srcs) /\ Flushed(1, d, TRUE) /\ \A q \in srcs : Flushed(1, q, FALSE)
      /\ 1 = Len(todo) \/ srcs = {}
    BY <1>1, <1>2, <1>3, <1>4, <1>5 DEF RenderInv, Agenda, SubmitAgenda
<1>7. ~ NeedsFlush(d, TRUE, TRUE) /\ \A q \in srcs : ~ NeedsFlush(q, FALSE, TRUE)
    <2>1. ~ \E j \in 1..(1 - 1) : TRUE
        OBVIOUS
    <2>. QED
        BY <1>6, <2>1 DEF Flushed
<1>8. Writes(ops) \subseteq {d} /\ Reads(ops) \subseteq srcs \cup {NoPixmap}
    BY <1>6 DEF OpsOf, Writes, Reads
<1>9. GpuInv' /\ batch' = batch /\ (srcs = {} => CalmBut({d}))
    BY <1>2, <1>4, <1>5, <1>7, <1>8, SubmitStep DEF RenderInv
<1>10. /\ todo' = Tail(todo) /\ fill' = fill
       /\ IF todo' # <<>> THEN req' = req ELSE req' = Idle
       /\ UNCHANGED <<picture, alpha_0, served>>
    BY DEF SubmitJob
<1>11. Agenda'
    <2>1. PICK n \in Nat : n = Len(todo)
        BY <1>3
    <2>2. Len(todo') = n - 1 /\ todo' \in Seq(Calls)
        BY <1>1, <1>3, <1>10, <2>1, TailCalls
    <2>3. CASE n = 1
        <3>1. todo' = <<>>
            BY <2>2, <2>3
        <3>. QED
            BY <1>10, <3>1, IdleAgenda
    <2>4. CASE n > 1
        <3>1. todo' # <<>> /\ req' = req /\ srcs = {}
            <4>1. todo' # <<>>
                BY <2>2, <2>4
            <4>2. srcs = {}
                BY <1>6, <2>1, <2>4
            <4>. QED
                BY <1>10, <4>1, <4>2
        <3>2. CalmBut({d})
            BY <1>9, <3>1
        <3>3. \A p \in Pixmaps : \A r \in BOOLEAN :
                 Clean(p, r) /\ ~ (me.call = "submit" /\ me.pix = p) => Clean(p, r)'
            BY <1>1, <1>2, <3>2 DEF CalmBut
        <3>. QED
            BY <1>1, <1>9, <1>10, <2>1, <2>4, <3>1, <3>2, <3>3, PopStep DEF CalmBut, RenderInv
    <2>. QED
        BY <1>3, <2>1, <2>3, <2>4
<1>12. mem' \in Maps /\ UNCHANGED <<ideal, alpha_0, served>>
    BY <1>10 DEF RenderInv, PictureType, picture
<1>. QED
    BY <1>9, <1>10, <1>11, <1>12, CallKept

LEMMA PokeInv == RenderInv /\ Poke => RenderInv'
<1>. SUFFICES ASSUME RenderInv, Poke PROVE RenderInv'
    OBVIOUS
<1>1. todo # <<>> /\ me.call = "poke" /\ me.call \in Middle /\ me.call \notin {"wait", "fill", "flush", "submit"}
    BY DEF Poke, At, me, Middle
<1>2. /\ me.pix \in Pixmaps /\ me.cells \in SUBSET {"s", "l"} /\ me.colour \in Colours
      /\ me.cells \subseteq Cells(me.pix)
    <2>1. todo[1] = me /\ 1 \in DOMAIN todo /\ me \in Calls
        BY <1>1, HeadCall DEF RenderInv
    <2>. QED
        BY <1>1, <2>1 DEF Calls, RenderInv, Agenda, TodoType
<1>3. PICK o \in Operations : o = FillOp(me.pix, me.cells, me.colour)
    BY <1>2, FillOpFact
<1>4. mem' \in Maps
    BY <1>3, DrawFact DEF Poke, RenderInv, PictureType
<1>5. /\ todo' = Tail(todo) /\ req' = req /\ fill' = fill
      /\ UNCHANGED <<ideal, alpha_0, served>> /\ UNCHANGED <<fences, batch, gpu>>
    BY DEF Poke, pixmap
<1>6. GpuInv /\ GpuInv' /\ batch' = batch /\ CalmBut({})
    BY <1>5, StillStep DEF RenderInv
<1>7. Agenda'
    BY <1>1, <1>5, <1>6, PopStep DEF CalmBut, RenderInv
<1>. QED
    BY <1>4, <1>5, <1>6, <1>7, CallKept DEF CalmBut

-----------------------------------------------------------------------------
(* The timer and the engines.                                              *)

LEMMA TimerFiresInv == RenderInv /\ TimerFires => RenderInv'
<1>. SUFFICES ASSUME RenderInv, TimerFires PROVE RenderInv'
    OBVIOUS
<1>1. /\ req' = Idle /\ todo' = <<>> /\ Deferred /\ FlushBatch /\ fill' = fill
      /\ UNCHANGED <<picture, alpha_0, served>>
    BY DEF TimerFires, Deferred, RenderInv, Agenda, TodoType
<1>2. GpuInv' /\ batch' = NoBatch /\ CalmBut({})
    BY <1>1, FlushBatchStep DEF RenderInv
<1>3. Agenda'
    BY <1>1, IdleAgenda
<1>4. mem' \in Maps /\ UNCHANGED <<ideal, alpha_0, served>>
    BY <1>1 DEF RenderInv, PictureType, picture
<1>. QED
    BY <1>1, <1>2, <1>3, <1>4, CallKept DEF CalmBut

LEMMA ExecuteInv == ASSUME NEW e \in Engines PROVE RenderInv /\ Execute(e) => RenderInv'
<1>. SUFFICES ASSUME RenderInv, Execute(e) PROVE RenderInv'
    OBVIOUS
<1>1. /\ queue[e] # <<>> /\ mem' = DrawAll(mem, Head(queue[e]).ops)
      /\ signalled' = signalled \cup {Head(queue[e]).fence}
      /\ queue' = [queue EXCEPT ![e] = Tail(@)]
      /\ fence' = fence /\ held' = held /\ last' = last /\ seqno' = seqno /\ batch' = batch
      /\ todo' = todo /\ req' = req /\ fill' = fill
      /\ UNCHANGED <<ideal, alpha_0, served>>
    BY DEF Execute, Runnable, fences, pixmap
<1>2. GpuInv /\ GpuInv'
    BY <1>1, Executed DEF RenderInv
<1>3. CalmBut({})
    BY <1>1, <1>2, CalmFact
<1>4. Agenda'
    BY <1>1, <1>3, AgendaKept DEF CalmBut, RenderInv
<1>5. mem' \in Maps
    <2>1. Head(queue[e]) \in Queued(e)
        BY <1>1, <1>2, HeadFact
    <2>2. Head(queue[e]).ops \in Seq(Operations)
        BY <1>2, <2>1, JobsFact
    <2>. QED
        BY <1>1, <2>2, DrawAllFact DEF RenderInv, PictureType
<1>. QED
    BY <1>1, <1>2, <1>3, <1>4, <1>5, CallKept DEF CalmBut

LEMMA StutterInv == RenderInv /\ UNCHANGED vars => RenderInv'
<1>. SUFFICES ASSUME RenderInv, UNCHANGED vars PROVE RenderInv'
    OBVIOUS
<1>1. /\ UNCHANGED <<fences, batch, gpu>> /\ todo' = todo /\ req' = req /\ fill' = fill
      /\ UNCHANGED <<mem, ideal, alpha_0, served>>
    BY DEF vars, fences, gpu
<1>2. GpuInv /\ GpuInv' /\ batch' = batch /\ CalmBut({})
    BY <1>1, StillStep DEF RenderInv
<1>3. Agenda'
    BY <1>1, <1>2, AgendaKept DEF CalmBut, RenderInv
<1>4. mem' \in Maps
    BY <1>1 DEF RenderInv, PictureType
<1>. QED
    BY <1>1, <1>2, <1>3, <1>4, CallKept DEF CalmBut

-----------------------------------------------------------------------------
(* The invariant.                                                          *)

LEMMA InitInv == Init => RenderInv
<1>. SUFFICES ASSUME Init PROVE RenderInv
    OBVIOUS
<1>1. PictureType
    <2>1. mem \in Maps
        <3>1. mem = [p \in Pixmaps |-> mem[p]]
            BY DEF Init
        <3>2. \A p \in Pixmaps : mem[p] \in [Cells(p) -> Colours]
            BY ColoursFact DEF Init
        <3>. QED
            BY <3>1, <3>2, MapsFact
    <2>. QED
        BY <2>1 DEF Init, PictureType
<1>2. /\ seqno = 1 /\ held = [s \in Slots |-> NoFence] /\ last = [e \in Engines |-> NoFence]
      /\ queue = [e \in Engines |-> <<>>] /\ signalled = {} /\ batch = NoBatch
      /\ fence = [f \in Fences |-> "none"] /\ req = Idle /\ todo = <<>> /\ served = 0
      /\ fill = [p \in Pixmaps |-> NoFill]
    BY DEF Init
<1>3. \A e \in Engines : Queued(e) = {} /\ QF(e) = {} /\ queue[e] = <<>>
    BY <1>2 DEF Queued, QF
<1>4. ~ Deferred
    BY <1>2, NoBatchFact DEF Deferred
<1>5. 1 \in Fences
    BY RenderAssumption DEF Fences
<1>6. GpuType
    BY <1>2, <1>5, NumbersFact DEF GpuType
<1>7. BatchType
    BY <1>2, NumbersFact, NoBatchFact DEF BatchType, NoBatch
<1>8. Numbered
    BY <1>2, <1>3, NumbersFact, NoBatchFact DEF Numbered
<1>9. QueueInv
    <2>1. \A e \in Engines : DOMAIN queue[e] = {}
        BY <1>3
    <2>. QED
        BY <1>2, <1>3, <1>4, <2>1, EnginesFact DEF QueueInv
<1>10. HeldInv
    BY <1>2, <1>4, NoBatchFact DEF HeldInv
<1>11. WaitInv
    BY <1>3, <1>4, EnginesFact DEF WaitInv
<1>12. BatchInv
    BY <1>2, NoBatchFact, NumbersFact DEF BatchInv, InBatch
<1>13. CoverInv /\ OrderInv
    BY <1>3, EnginesFact DEF CoverInv, OrderInv
<1>14. FillInv
    BY <1>2 DEF FillInv
<1>15. Agenda
    <2>1. ReqType
        BY <1>2 DEF ReqType
    <2>2. /\ req.kind = "idle" /\ DOMAIN todo = {} /\ todo \in Seq(Calls)
        BY <1>2 DEF Idle
    <2>3. ReqInv
        BY <2>2 DEF ReqInv, Blits, Filling
    <2>4. TodoType
        BY <1>2, <2>2 DEF TodoType
    <2>5. FlushAgenda /\ SubmitAgenda /\ WaitAgenda /\ PokeAgenda /\ AppendAgenda
        BY <2>2 DEF FlushAgenda, SubmitAgenda, WaitAgenda, PokeAgenda, AppendAgenda
    <2>6. AccessAgenda /\ DirectAgenda
        BY <2>2 DEF AccessAgenda, Accessed, DirectAgenda, Filling
    <2>. QED
        BY <2>1, <2>3, <2>4, <2>5, <2>6 DEF Agenda
<1>16. served \in 0..MaxRequests
    BY <1>2, RenderAssumption
<1>. QED
    BY <1>1, <1>6, <1>7, <1>8, <1>9, <1>10, <1>11, <1>12, <1>13, <1>14, <1>15, <1>16 DEF RenderInv, GpuInv

LEMMA NextInv == ASSUME NoUnfetched, RenderInv, [Next]_vars PROVE RenderInv'
<1>1. CASE Prepare
    BY <1>1, PrepareSolidInv, PrepareCopyInv, PrepareRotatedInv, PrepareCompositeInv,
       PrepareSoftwareInv, PrepareLookInv DEF Prepare
<1>2. CASE Server
    BY <1>2, DeferFillInv, SkipFillInv, PartialFillInv, FillRectInv, DoneSolidInv, CopyRectInv,
       DoneCopyInv, CompositeRectInv, DoneCompositeInv, AppendJobInv, SoftwareInv, LookInv,
       FillDeferredInv, FlushDeferred3DInv, SubmitJobInv, WaitInvKept, PokeInv DEF Server
<1>3. CASE TimerFires
    BY <1>3, TimerFiresInv
<1>4. CASE \E e \in Engines : Execute(e)
    BY <1>4, ExecuteInv
<1>5. CASE Rest \/ UNCHANGED vars
    BY <1>5, StutterInv DEF Rest
<1>. QED
    BY <1>1, <1>2, <1>3, <1>4, <1>5 DEF Next

-----------------------------------------------------------------------------
(* What the invariant says of a state.                                     *)

\* The call on top is not preceded by any other.
LEMMA FirstFlushed ==
    ASSUME NEW p, NEW r
    PROVE  Flushed(1, p, r) => ~ NeedsFlush(p, r, TRUE)
<1>1. ~ \E j \in 1..(1 - 1) : TRUE
    OBVIOUS
<1>. QED
    BY <1>1 DEF Flushed

LEMMA ActiveFact == ASSUME RenderInv PROVE FencesActive
<1>1. GpuInv /\ Agenda
    BY DEF RenderInv
<1>2. ASSUME NEW e \in Engines, NEW x, x = NoFence \/ x \in QF(e) \/ Past(x, e)
      PROVE  x = NoFence \/ fence[x] # "new"
    <2>1. x \in QF(e) => fence[x] = "active"
        BY <1>1, QueuedFact
    <2>2. Past(x, e) => fence[x] \in {"marked", "active"}
        BY DEF Past
    <2>. QED
        BY <1>2, <2>1, <2>2
<1>3. ASSUME At("wait"), NEW s \in me.slots
      PROVE  held[s] = NoFence \/ fence[held[s]] # "new"
    <2>1. todo # <<>> /\ me.call = "wait"
        BY <1>3 DEF At, me
    <2>2. todo[1] = me /\ 1 \in DOMAIN todo /\ me \in Calls
        BY <1>1, <2>1, HeadCall
    <2>3. PICK p \in Pixmaps : p = me.pix
        BY <2>1, <2>2, CallsFact
    <2>4. PICK r \in BOOLEAN : me.slots = WaitSlots(p, r) /\ Flushed(1, p, r)
        BY <1>1, <2>1, <2>2, <2>3 DEF Agenda, WaitAgenda
    <2>5. s \in WaitSlots(p, r) /\ ~ NeedsFlush(p, r, TRUE)
        BY <1>3, <2>4, FirstFlushed
    <2>6. s \in Slots /\ s[2] \in Engines
        BY <2>5, WaitSlotsFact
    <2>7. ~ (Deferred /\ held[s] = batch.job_fence)
        BY <1>1, <2>5, JobSlot
    <2>8. held[s] = NoFence \/ held[s] \in QF(s[2]) \/ Past(held[s], s[2])
        BY <1>1, <2>6, <2>7, HeldFact
    <2>. QED
        BY <1>2, <2>6, <2>8
<1>4. ASSUME At("submit"), NEW x, x = ExplicitFence("3D", me.pix, me.srcs)
      PROVE  x = NoFence \/ fence[x] # "new"
    <2>1. todo # <<>> /\ me.call = "submit"
        BY <1>4 DEF At, me
    <2>2. todo[1] = me /\ 1 \in DOMAIN todo /\ me \in Calls
        BY <1>1, <2>1, HeadCall
    <2>3. PICK d \in Pixmaps : d = me.pix
        BY <2>1, <2>2, CallsFact
    <2>4. PICK srcs \in SUBSET Pixmaps : srcs = me.srcs
        BY <2>1, <2>2, CallsFact
    <2>5. Flushed(1, d, TRUE) /\ \A q \in srcs : Flushed(1, q, FALSE)
        BY <1>1, <2>1, <2>2, <2>3, <2>4 DEF Agenda, SubmitAgenda
    <2>6. ~ NeedsFlush(d, TRUE, TRUE) /\ \A q \in srcs : ~ NeedsFlush(q, FALSE, TRUE)
        BY <2>5, FirstFlushed
    <2>7. Deferred => /\ \A q \in srcs \cup {d} : held[<<q, "3D", "write">>] # batch.job_fence
                      /\ held[<<d, "3D", "read">>] # batch.job_fence
        BY <1>1, <2>6 DEF GpuInv, HeldInv, NeedsFlush
    <2>8. x = NoFence \/ x \in QF("3D") \/ Past(x, "3D")
        BY <1>1, <1>4, <2>3, <2>4, <2>7, EnginesFact, ExplicitFact
    <2>. QED
        BY <1>2, <2>8, EnginesFact
<1>5. LET x == batch.explicit_fence IN x = NoFence \/ fence[x] # "new"
    BY <1>1, <1>2, EnginesFact DEF GpuInv, HeldInv
<1>. QED
    BY <1>3, <1>4, <1>5 DEF FencesActive

LEMMA ExclusiveFact == ASSUME RenderInv PROVE Exclusive
<1>1. GpuInv /\ Agenda
    BY DEF RenderInv
<1>2. ASSUME At("poke") PROVE Untouched(me.pix)
    <2>1. todo # <<>> /\ me.call = "poke"
        BY <1>2 DEF At, me
    <2>2. todo[1] = me /\ 1 \in DOMAIN todo /\ me \in Calls
        BY <1>1, <2>1, HeadCall
    <2>3. PICK p \in Pixmaps : p = me.pix
        BY <2>1, <2>2, CallsFact
    <2>4. Clean(p, TRUE)
        BY <1>1, <2>1, <2>2, <2>3 DEF Agenda, PokeAgenda
    <2>. QED
        BY <1>1, <2>3, <2>4, CleanFree
<1>3. ASSUME todo # <<>>, me.call \in {"look", "software"}
      PROVE  /\ req # Idle /\ req.kind = IF me.call = "look" THEN "look" ELSE "soft"
             /\ \A a \in Accessed : /\ Unwritten(a[1])
                                    /\ a[2] => Untouched(a[1])
             /\ me.call = "look" => me.pix = req.want.dst
    <2>1. me.call \notin Middle
        BY <1>3 DEF Middle
    <2>2. DOMAIN todo = {1} /\ todo[1] = me /\ me.call \in Final(req.kind) /\ req # Idle
        BY <1>1, <1>3, <2>1, LastFactCall
    <2>3. req.kind = IF me.call = "look" THEN "look" ELSE "soft"
        BY <1>3, <2>2 DEF Final, Filling
    <2>4. me.call = "look" => me.pix = req.want.dst
        BY <1>1, <2>2 DEF Agenda, AccessAgenda
    <2>5. ASSUME NEW a \in Accessed PROVE Unwritten(a[1]) /\ (a[2] => Untouched(a[1]))
        <3>1. a[1] \in Pixmaps /\ a[2] \in BOOLEAN
            BY <1>1, <2>2, AccessedFact
        <3>2. Clean(a[1], a[2])
            BY <1>1, <1>3, <2>2 DEF Agenda, AccessAgenda
        <3>. QED
            BY <1>1, <3>1, <3>2, CleanFree
    <2>. QED
        BY <2>2, <2>3, <2>4, <2>5
<1>4. ASSUME At("look") PROVE Unwritten(me.pix)
    <2>1. todo # <<>> /\ me.call = "look"
        BY <1>4 DEF At, me
    <2>2. <<req.want.dst, FALSE>> \in Accessed
        BY <1>3, <2>1 DEF Accessed
    <2>. QED
        BY <1>3, <2>1, <2>2
<1>5. ASSUME At("software")
      PROVE  /\ Untouched(req.want.dst)
             /\ \A t \in {req.want.src, req.want.mask} : ~ IsSolid(t) => Unwritten(t.pix)
    <2>1. todo # <<>> /\ me.call = "software"
        BY <1>5 DEF At, me
    <2>2. req.kind = "soft"
        BY <1>3, <2>1
    <2>3. <<req.want.dst, TRUE>> \in Accessed
        BY <2>2 DEF Accessed
    <2>4. ASSUME NEW t \in {req.want.src, req.want.mask}, ~ IsSolid(t)
          PROVE  Unwritten(t.pix)
        <3>1. <<t.pix, FALSE>> \in Accessed
            BY <2>2, <2>4 DEF Accessed
        <3>. QED
            BY <1>3, <2>1, <3>1
    <2>. QED
        BY <1>3, <2>1, <2>3, <2>4
<1>. QED
    BY <1>1, <1>2, <1>4, <1>5, Disjoint DEF Exclusive, CpuExclusive

LEMMA NestedFact == ASSUME RenderInv PROVE NoNestedFlush
<1>1. GpuInv /\ Agenda
    BY DEF RenderInv
<1>2. SUFFICES ASSUME At("flush"), req.kind = "composite"
               PROVE  ~ NeedsFlush(me.pix, me.reads, me.writes)
    BY DEF NoNestedFlush
<1>3. todo # <<>> /\ me.call = "flush"
    BY <1>2 DEF At, me
<1>4. todo[1] = me /\ 1 \in DOMAIN todo /\ me \in Calls
    BY <1>1, <1>3, HeadCall
<1>5. PICK p \in Pixmaps : p = me.pix
    BY <1>3, <1>4, CallsFact
<1>6. ~ InBatch(p)
    BY <1>1, <1>2, <1>3, <1>4, <1>5 DEF Agenda, FlushAgenda
<1>7. ~ NeedsFlush(p, TRUE, TRUE)
    BY <1>1, <1>6, UsesFact
<1>. QED
    BY <1>5, <1>7 DEF NeedsFlush

-----------------------------------------------------------------------------
(* Counts.                                                                 *)

\* The pixmaps that the request locks, and how often.
LEMMA RequestLocksType ==
    ASSUME RenderInv
    PROVE  /\ RequestLocks \in Seq(Pixmaps)
           /\ \A p \in Pixmaps : Tally(RequestLocks, p) \in Nat
<1>1. CASE req.kind = "solid"
    <2>1. req.want.dst \in Pixmaps
        BY <1>1, FillingFact DEF Filling
    <2>2. RequestLocks = <<req.want.dst>>
        BY <1>1, LocksFact
    <2>3. RequestLocks \in Seq(Pixmaps)
        BY <2>1, <2>2
    <2>. QED
        BY <2>3, TallyType
<1>2. CASE req.kind \in {"copy", "copyfill"}
    <2>1. req.want.dst \in Pixmaps
        BY <1>2, FillingFact, CopyFact DEF Filling
    <2>2. req.want.src.pix \in Pixmaps
        BY <1>2 DEF RenderInv, Agenda, ReqInv
    <2>3. RequestLocks = CopyLocks
        BY <1>2, LocksFact
    <2>4. RequestLocks \in Seq(Pixmaps)
        BY <2>1, <2>2, <2>3 DEF CopyLocks
    <2>. QED
        BY <2>4, TallyType
<1>3. CASE req.kind \notin {"solid", "copy", "copyfill"}
    <2>1. RequestLocks = <<>>
        BY <1>3, LocksFact
    <2>2. RequestLocks \in Seq(Pixmaps)
        BY <2>1
    <2>. QED
        BY <2>2, TallyType
<1>. QED
    BY <1>1, <1>2, <1>3

LEMMA FlushedRefs == ASSUME RenderInv, RefsExact, FlushBatch PROVE RefsExact'
BY FlushRefs DEF RenderInv

LEMMA CancelledRefs ==
    ASSUME RenderInv, RefsExact, NEW p \in Pixmaps, CancelDeferred(p) \/ NoFlush
    PROVE  RefsExact'
<1>1. CASE CancelDeferred(p)
    BY <1>1, CancelRefs DEF RenderInv
<1>2. CASE NoFlush
    BY <1>2, StillRefs DEF NoFlush
<1>. QED
    BY <1>1, <1>2

LEMMA SubmittedRefs == ASSUME RenderInv, RefsExact, SubmitJob PROVE RefsExact'
<1>1. todo # <<>> /\ me.call = "submit"
    BY DEF SubmitJob, At, me
<1>2. me \in Calls
    BY <1>1, HeadCall DEF RenderInv
<1>3. me.pix \in Pixmaps /\ me.srcs \in SUBSET Pixmaps
    BY <1>1, <1>2, CallsFact
<1>. QED
    BY <1>3, SubmitRefs DEF RenderInv

LEMMA WaitedRefs == ASSUME RenderInv, RefsExact, Wait PROVE RefsExact'
<1>1. todo # <<>> /\ me.call = "wait"
    BY DEF Wait, At, me
<1>2. me \in Calls
    BY <1>1, HeadCall DEF RenderInv
<1>3. me.slots \in SUBSET Slots
    BY <1>1, <1>2 DEF Calls
<1>. QED
    BY <1>3, WaitRefs DEF RenderInv

\* What AppendJob is called with.
LEMMA AppendCalled ==
    ASSUME RenderInv, AppendJob
    PROVE  /\ req.kind = "composite" /\ req.want.dst \in Pixmaps /\ req.src \in Operands
           /\ me.src \in Operands /\ req.mask \in Operands
<1>1. todo # <<>> /\ me.call = "append" /\ me.call \notin Middle
    BY DEF AppendJob, At, me, Middle
<1>2. /\ DOMAIN todo = {1} /\ todo[1] = me /\ me \in Calls /\ me.call \in Final(req.kind)
    BY <1>1, LastFactCall DEF RenderInv
<1>3. req.kind = "composite"
    BY <1>1, <1>2 DEF Final, Filling
<1>4. me.src = Fetched
    BY <1>1, <1>2 DEF RenderInv, Agenda, AppendAgenda
<1>5. /\ req.want.dst \in Pixmaps /\ req.src \in Operands /\ req.mask \in Operands
      /\ Fetched \in Operands
    BY <1>3, CompositeFact
<1>. QED
    BY <1>3, <1>4, <1>5

LEMMA AppendedRefs == ASSUME RenderInv, RefsExact, AppendJob PROVE RefsExact'
<1>1. PICK d \in Pixmaps : d = req.want.dst
    BY AppendCalled
<1>2. PICK src \in Operands : src = me.src
    BY AppendCalled
<1>3. PICK mask \in Operands : mask = req.mask
    BY AppendCalled
<1>4. req.src \in Operands
    BY AppendCalled
<1>. QED
    BY <1>1, <1>2, <1>3, <1>4, AppendRefs DEF RenderInv

LEMMA NextRefs == ASSUME RenderInv, RefsExact, [Next]_vars PROVE RefsExact'
<1>1. CASE Prepare
    <2>1. UNCHANGED <<fences, batch>>
        BY <1>1 DEF Prepare, PrepareSolid, PrepareCopy, PrepareRotated, PrepareComposite,
                    PrepareSoftware, PrepareLook
    <2>. QED
        BY <2>1, StillRefs
<1>2. CASE DeferFill
    <2>1. req.kind \in Filling /\ CancelDeferred(req.want.dst)
        BY <1>2 DEF DeferFill, NextRect
    <2>. QED
        BY <2>1, FillingFact, CancelledRefs
<1>3. CASE CopyRect
    <2>1. req.kind = "copy" /\ (CancelDeferred(req.want.dst) \/ NoFlush)
        BY <1>3 DEF CopyRect, NextRect
    <2>. QED
        BY <2>1, CopyFact, CancelledRefs
<1>4. CASE SkipFill \/ PartialFill \/ FillRect \/ DoneSolid \/ DoneCopy
           \/ CompositeRect \/ DoneComposite \/ Software \/ Look \/ FillDeferred \/ Poke
    <2>1. UNCHANGED <<fences, batch>>
        BY <1>4 DEF SkipFill, PartialFill, FillRect, DoneSolid, DoneCopy, CompositeRect,
                    DoneComposite, Software, Look, FillDeferred, Poke
    <2>. QED
        BY <2>1, StillRefs
<1>5. CASE FlushDeferred3D
    <2>1. FlushBatch \/ NoFlush
        BY <1>5 DEF FlushDeferred3D
    <2>. QED
        BY <2>1, FlushedRefs, StillRefs DEF NoFlush
<1>6. CASE Server
    BY <1>2, <1>3, <1>4, <1>5, <1>6, AppendedRefs, SubmittedRefs, WaitedRefs DEF Server
<1>7. CASE TimerFires
    BY <1>7, FlushedRefs DEF TimerFires
<1>8. CASE (\E e \in Engines : Execute(e)) \/ Rest \/ UNCHANGED vars
    <2>1. UNCHANGED <<fences, batch>>
        BY <1>8 DEF Execute, Rest, vars, fences
    <2>. QED
        BY <2>1, StillRefs
<1>. QED
    BY <1>1, <1>6, <1>7, <1>8 DEF Next

\* A step that leaves locks, batch and kind of request alone.
LEMMA SameLocks ==
    ASSUME LocksExact, lockcnt' = lockcnt, batch' = batch, req'.kind = req.kind, req'.want = req.want
    PROVE  LocksExact'
BY StillLocks, LocksFact

\* A step between requests that have no locks of their own.
Lockless(k) == k \notin {"solid", "copy", "copyfill"}

LEMMA FreeLocks ==
    ASSUME LocksExact, lockcnt' = lockcnt, batch' = batch, Lockless(req.kind), Lockless(req'.kind)
    PROVE  LocksExact'
BY StillLocks, LocksFact DEF Lockless

LEMMA FlushedLocks ==
    ASSUME RenderInv, LocksExact, FlushBatch, req'.kind = req.kind, req'.want = req.want
    PROVE  LocksExact'
<1>1. lockcnt' = Unlocked /\ batch' = NoBatch
    BY DEF FlushBatch
<1>2. RequestLocks' = RequestLocks
    BY LocksFact
<1>. QED
    BY <1>1, <1>2, FlushLocks, RequestLocksType DEF RenderInv

LEMMA CancelledLocks ==
    ASSUME RenderInv, LocksExact, NEW p, CancelDeferred(p) \/ NoFlush, req'.kind = req.kind, req'.want = req.want
    PROVE  LocksExact'
<1>1. CASE FlushBatch
    BY <1>1, FlushedLocks
<1>2. CASE ResetBatch(p)
    <2>1. lockcnt' = Unlocked /\ batch' = NoBatch
        BY <1>2 DEF ResetBatch
    <2>2. RequestLocks' = RequestLocks
        BY LocksFact
    <2>. QED
        BY <2>1, <2>2, FlushLocks, RequestLocksType DEF RenderInv
<1>3. CASE NoFlush
    BY <1>3, SameLocks DEF NoFlush
<1>. QED
    BY <1>1, <1>2, <1>3 DEF CancelDeferred

LEMMA StartedLocks ==
    ASSUME NoRotation, RenderInv, LocksExact, Prepare
    PROVE  LocksExact'
<1>1. Lockless("idle") /\ Idle.kind = "idle"
    BY DEF Lockless, Idle
<1>2. req = Idle /\ batch' = batch
    BY DEF Prepare, Start, PrepareSolid, PrepareCopy, PrepareRotated, PrepareComposite,
           PrepareSoftware, PrepareLook
<1>3. RequestLocks = <<>>
    BY <1>1, <1>2, LocksFact DEF Lockless
<1>4. CASE PrepareSolid
    <2>1. PICK q \in Requests : req' = SolidState(q, "solid", q.src.colour) /\ Lock(<<q.dst>>)
        BY <1>4 DEF PrepareSolid
    <2>2. PICK s : s = <<q.dst>>
        OBVIOUS
    <2>3. req'.kind = "solid" /\ req'.want = q
        BY <2>1 DEF SolidState
    <2>4. RequestLocks' = s /\ Lock(s)
        BY <2>1, <2>2, <2>3, LocksFact
    <2>5. s \in Seq(Pixmaps)
        BY <2>2, RequestFact
    <2>6. \A p \in Pixmaps : Tally(s, p) \in Nat
        BY <2>5, TallyType
    <2>. QED
        BY <1>2, <1>3, <2>4, <2>6, LockedStep DEF RenderInv
<1>5. CASE PrepareCopy
    <2>1. PICK q \in Requests :
             /\ Start(q, "copy")
             /\ IF fill[q.src.pix] # NoFill
                THEN /\ req' = SolidState(q, "copyfill", fill[q.src.pix])
                     /\ Lock(<<q.dst, q.src.pix, q.dst>>)
                ELSE /\ \E o : req' = [SolidState(q, "copy", Clear) EXCEPT !.optimize = o]
                     /\ Lock(<<q.src.pix, q.dst>>)
        BY <1>5 DEF PrepareCopy
    <2>2. q.dst \in Pixmaps /\ q.src.pix \in Pixmaps
        BY <2>1, RequestFact, RequestsAssumption DEF Start
    <2>3. CASE fill[q.src.pix] # NoFill
        <3>1. PICK s : s = <<q.dst, q.src.pix, q.dst>>
            OBVIOUS
        <3>2. req'.kind = "copyfill" /\ req'.want = q
            BY <2>1, <2>3 DEF SolidState
        <3>3. RequestLocks' = s /\ Lock(s)
            BY <2>1, <2>3, <3>1, <3>2, LocksFact
        <3>4. s \in Seq(Pixmaps)
            BY <2>2, <3>1
        <3>5. \A p \in Pixmaps : Tally(s, p) \in Nat
            BY <3>4, TallyType
        <3>. QED
            BY <1>2, <1>3, <3>3, <3>5, LockedStep DEF RenderInv
    <2>4. CASE fill[q.src.pix] = NoFill
        <3>1. PICK s : s = <<q.src.pix, q.dst>>
            OBVIOUS
        <3>2. req'.kind = "copy" /\ req'.want = q
            BY <2>1, <2>4 DEF SolidState
        <3>3. RequestLocks' = s /\ Lock(s)
            BY <2>1, <2>4, <3>1, <3>2, LocksFact
        <3>4. s \in Seq(Pixmaps)
            BY <2>2, <3>1
        <3>5. \A p \in Pixmaps : Tally(s, p) \in Nat
            BY <3>4, TallyType
        <3>. QED
            BY <1>2, <1>3, <3>3, <3>5, LockedStep DEF RenderInv
    <2>. QED
        BY <2>3, <2>4
<1>6. CASE PrepareRotated
    BY <1>6 DEF PrepareRotated, Start, NoRotation
<1>7. CASE PrepareComposite \/ PrepareSoftware \/ PrepareLook
    <2>1. lockcnt' = lockcnt /\ req'.kind \in {"composite", "soft", "look"}
        <3>1. CASE PrepareComposite
            BY <3>1 DEF PrepareComposite, pixmap
        <3>2. CASE PrepareSoftware
            BY <3>2 DEF PrepareSoftware, pixmap
        <3>3. CASE PrepareLook
            BY <3>3 DEF PrepareLook, pixmap
        <3>. QED
            BY <1>7, <3>1, <3>2, <3>3
    <2>. QED
        BY <1>1, <1>2, <2>1, FreeLocks DEF Lockless
<1>. QED
    BY <1>4, <1>5, <1>6, <1>7 DEF Prepare

\* The request is done, and gives its locks back.
LEMMA DoneLocks ==
    ASSUME RenderInv, LocksExact, NEW s, Unlock(s), RequestLocks = s, req' = Idle, batch' = batch
    PROVE  LocksExact'
<1>1. RequestLocks' = <<>>
    BY LocksFact DEF Idle
<1>. QED
    BY <1>1, UnlockedStep, RequestLocksType DEF RenderInv

LEMMA SubmittedLocks == ASSUME RenderInv, LocksExact, SubmitJob PROVE LocksExact'
<1>1. todo # <<>> /\ me.call = "submit" /\ batch' = batch /\ todo' = Tail(todo)
    BY DEF SubmitJob, At, me
<1>2. CASE todo' # <<>>
    <2>1. req' = req /\ lockcnt' = lockcnt
        BY <1>2 DEF SubmitJob
    <2>. QED
        BY <1>1, <2>1, SameLocks
<1>3. CASE todo' = <<>>
    <2>1. req' = Idle /\ Unlock(IF req.kind = "solid" THEN <<req.want.dst>> ELSE CopyLocks)
        BY <1>3 DEF SubmitJob
    <2>2. PICK t \in Seq(Calls) : t = todo
        BY <1>1, HeadCall DEF RenderInv
    <2>3. Len(todo) = 1
        BY <1>1, <1>3, <2>2, TailCalls
    <2>4. me.call \in Final(req.kind)
        BY <1>1, <2>3, HeadCall DEF RenderInv
    <2>5. req.kind \in {"solid", "copy", "copyfill"}
        BY <1>1, <2>4 DEF Final, Filling
    <2>6. PICK s : s = RequestLocks
        OBVIOUS
    <2>7. Unlock(s)
        BY <2>1, <2>5, <2>6, LocksFact
    <2>. QED
        BY <1>1, <2>1, <2>6, <2>7, DoneLocks
<1>. QED
    BY <1>2, <1>3

LEMMA AppendedLocks == ASSUME RenderInv, LocksExact, AppendJob PROVE LocksExact'
<1>1. PICK d \in Pixmaps : d = req.want.dst
    BY AppendCalled
<1>2. PICK src \in Operands : src = me.src
    BY AppendCalled
<1>3. PICK mask \in Operands : mask = req.mask
    BY AppendCalled
<1>4. req.kind = "composite" /\ req' = Idle
    BY AppendCalled DEF AppendJob
<1>5. RequestLocks = <<>> /\ RequestLocks' = <<>>
    BY <1>4, LocksFact DEF Idle
<1>. QED
    BY <1>1, <1>2, <1>3, <1>5, AppendLocks DEF RenderInv

\* A rectangle of the request is drawn, or skipped.
LEMMA RectLocks ==
    ASSUME RenderInv, LocksExact,
           DeferFill \/ SkipFill \/ PartialFill \/ FillRect \/ CopyRect \/ CompositeRect
    PROVE  LocksExact'
<1>1. CASE DeferFill
    <2>1. req \in Blit
        BY <1>1, FillingFact DEF DeferFill, NextRect
    <2>2. req'.kind = req.kind /\ req'.want = req.want /\ CancelDeferred(req.want.dst)
        BY <1>1, <2>1 DEF DeferFill, Blit
    <2>. QED
        BY <2>2, CancelledLocks
<1>2. CASE SkipFill \/ PartialFill
    <2>1. req \in Blit
        BY <1>2, FillingFact DEF SkipFill, PartialFill, NextRect
    <2>2. req'.kind = req.kind /\ req'.want = req.want /\ lockcnt' = lockcnt /\ batch' = batch
        BY <1>2, <2>1 DEF SkipFill, PartialFill, Blit, pixmap
    <2>. QED
        BY <2>2, SameLocks
<1>3. CASE FillRect
    <2>1. todo # <<>> /\ me.call = "rect" /\ me.call \notin Middle
        BY <1>3 DEF FillRect, At, me, Middle
    <2>2. me.call \in Final(req.kind)
        BY <2>1, LastFactCall DEF RenderInv
    <2>3. req \in Blit
        BY <2>1, <2>2, FillingFact DEF Final, Filling
    <2>4. req'.kind = req.kind /\ req'.want = req.want /\ lockcnt' = lockcnt /\ batch' = batch
        BY <1>3, <2>3 DEF FillRect, Blit
    <2>. QED
        BY <2>4, SameLocks
<1>4. CASE CopyRect
    <2>1. req \in Blit
        BY <1>4, CopyFact DEF CopyRect, NextRect
    <2>2. /\ req'.kind = req.kind /\ req'.want = req.want
          /\ CancelDeferred(req.want.dst) \/ NoFlush
        BY <1>4, <2>1 DEF CopyRect, Blit
    <2>. QED
        BY <2>2, CancelledLocks
<1>5. CASE CompositeRect
    <2>1. req \in Composite
        BY <1>5, CompositeFact DEF CompositeRect, NextRect
    <2>2. req'.kind = req.kind /\ req'.want = req.want /\ lockcnt' = lockcnt /\ batch' = batch
        BY <1>5, <2>1 DEF CompositeRect, Composite, pixmap
    <2>. QED
        BY <2>2, SameLocks
<1>. QED
    BY <1>1, <1>2, <1>3, <1>4, <1>5

\* The last of the request.
LEMMA LastLocks ==
    ASSUME RenderInv, LocksExact,
           DoneSolid \/ DoneCopy \/ DoneComposite \/ Software \/ Look
    PROVE  LocksExact'
<1>1. CASE DoneSolid
    <2>1. req.kind = "solid" /\ batch' = batch
        BY <1>1 DEF DoneSolid, AllDrawn
    <2>2. PICK s : s = <<req.want.dst>>
        OBVIOUS
    <2>3. (req' = Idle /\ Unlock(s)) \/ (req' = req /\ lockcnt' = lockcnt)
        BY <1>1, <2>2 DEF DoneSolid
    <2>4. RequestLocks = s
        BY <2>1, <2>2, LocksFact
    <2>. QED
        BY <2>1, <2>3, <2>4, DoneLocks, SameLocks
<1>2. CASE DoneCopy
    <2>1. req.kind \in {"copy", "copyfill"} /\ batch' = batch
        BY <1>2 DEF DoneCopy, AllDrawn
    <2>2. PICK s : s = CopyLocks
        OBVIOUS
    <2>3. (req' = Idle /\ Unlock(s)) \/ (req' = req /\ lockcnt' = lockcnt)
        BY <1>2, <2>2 DEF DoneCopy
    <2>4. RequestLocks = s
        BY <2>1, <2>2, LocksFact
    <2>. QED
        BY <2>1, <2>3, <2>4, DoneLocks, SameLocks
<1>3. CASE DoneComposite \/ Software \/ Look
    <2>1. lockcnt' = lockcnt /\ batch' = batch /\ (req' = Idle \/ req' = req)
        BY <1>3 DEF DoneComposite, Software, Look, pixmap
    <2>2. Lockless(req.kind)
        <3>1. CASE DoneComposite
            BY <3>1 DEF DoneComposite, AllDrawn, Lockless
        <3>2. CASE Software \/ Look
            <4>1. todo # <<>> /\ me.call \in {"software", "look"} /\ me.call \notin Middle
                BY <3>2 DEF Software, Look, At, me, Middle
            <4>2. me.call \in Final(req.kind)
                BY <4>1, LastFactCall DEF RenderInv
            <4>. QED
                BY <4>1, <4>2 DEF Final, Filling, Lockless
        <3>. QED
            BY <1>3, <3>1, <3>2
    <2>3. Lockless(req'.kind)
        BY <2>1, <2>2 DEF Lockless, Idle
    <2>. QED
        BY <2>1, <2>2, <2>3, FreeLocks
<1>. QED
    BY <1>1, <1>2, <1>3

LEMMA NextLocks == ASSUME NoRotation, RenderInv, LocksExact, [Next]_vars PROVE LocksExact'
<1>1. CASE FillDeferred \/ Wait \/ Poke
    <2>1. lockcnt' = lockcnt /\ batch' = batch /\ req' = req
        BY <1>1 DEF FillDeferred, Wait, Poke, pixmap
    <2>. QED
        BY <2>1, SameLocks
<1>2. CASE FlushDeferred3D
    <2>1. (FlushBatch \/ NoFlush) /\ req' = req
        BY <1>2 DEF FlushDeferred3D
    <2>. QED
        BY <2>1, FlushedLocks, SameLocks DEF NoFlush
<1>3. CASE Server
    BY <1>1, <1>2, <1>3, RectLocks, LastLocks, AppendedLocks, SubmittedLocks DEF Server
<1>4. CASE TimerFires
    BY <1>4, FlushedLocks DEF TimerFires
<1>5. CASE (\E e \in Engines : Execute(e)) \/ Rest \/ UNCHANGED vars
    <2>1. lockcnt' = lockcnt /\ batch' = batch /\ req' = req
        BY <1>5 DEF Execute, Rest, vars, pixmap
    <2>. QED
        BY <2>1, SameLocks
<1>. QED
    BY <1>3, <1>4, <1>5, StartedLocks DEF Next

\* There is a count for every pixmap.
LockDomain == lockcnt = [p \in Pixmaps |-> lockcnt[p]]

LEMMA NextDomain == ASSUME LockDomain, [Next]_vars PROVE LockDomain'
<1>1. \A s : Lock(s) \/ Unlock(s) => LockDomain'
    BY DEF Lock, Unlock, LockDomain
<1>2. lockcnt' = Unlocked => LockDomain'
    BY DEF Unlocked, LockDomain
<1>3. lockcnt' = lockcnt => LockDomain'
    BY DEF LockDomain
<1>4. FlushBatch \/ NoFlush => LockDomain'
    BY <1>2, <1>3 DEF FlushBatch, NoFlush
<1>5. \A p : CancelDeferred(p) => LockDomain'
    BY <1>2, <1>4 DEF CancelDeferred, ResetBatch
<1>6. CASE Prepare
    <2>1. CASE PrepareSolid \/ PrepareCopy
        BY <1>1, <2>1 DEF PrepareSolid, PrepareCopy
    <2>2. CASE PrepareRotated
        BY <1>3, <2>2 DEF PrepareRotated, pixmap
    <2>3. CASE PrepareComposite
        BY <1>3, <2>3 DEF PrepareComposite, pixmap
    <2>4. CASE PrepareSoftware
        BY <1>3, <2>4 DEF PrepareSoftware, pixmap
    <2>5. CASE PrepareLook
        BY <1>3, <2>5 DEF PrepareLook, pixmap
    <2>. QED
        BY <1>6, <2>1, <2>2, <2>3, <2>4, <2>5 DEF Prepare
<1>7. CASE DeferFill \/ CopyRect
    BY <1>4, <1>5, <1>7 DEF DeferFill, CopyRect
<1>8. CASE DoneSolid \/ DoneCopy \/ SubmitJob
    BY <1>1, <1>3, <1>8 DEF DoneSolid, DoneCopy, SubmitJob
<1>9. CASE AppendJob
    <2>1. (\E s : Lock(s)) \/ lockcnt' = Unlocked
        BY <1>9 DEF AppendJob
    <2>. QED
        BY <1>1, <1>2, <2>1
<1>10. CASE FlushDeferred3D \/ TimerFires
    BY <1>4, <1>10 DEF FlushDeferred3D, TimerFires
<1>11. CASE SkipFill \/ PartialFill \/ FillRect \/ CompositeRect \/ DoneComposite
            \/ Software \/ Look \/ FillDeferred \/ Wait \/ Poke
    BY <1>3, <1>11 DEF SkipFill, PartialFill, FillRect, CompositeRect, DoneComposite,
                       Software, Look, FillDeferred, Wait, Poke, pixmap
<1>12. CASE Server
    BY <1>7, <1>8, <1>9, <1>10, <1>11, <1>12 DEF Server
<1>13. CASE (\E e \in Engines : Execute(e)) \/ Rest \/ UNCHANGED vars
    BY <1>3, <1>13 DEF Execute, Rest, vars, pixmap
<1>. QED
    BY <1>6, <1>10, <1>12, <1>13 DEF Next

LEMMA InitCounts == Init => RefsExact /\ LocksExact /\ LockDomain
<1>. SUFFICES ASSUME Init PROVE RefsExact /\ LocksExact /\ LockDomain
    OBVIOUS
<1>1. ASSUME NEW f \in Fences PROVE refs[f] = Holders(f) + Owed(f)
    <2>1. /\ held = [s \in Slots |-> NoFence] /\ refs[f] = 0 /\ last = [e \in Engines |-> NoFence]
          /\ batch.job_fence = NoFence /\ batch.explicit_fence = NoFence
        BY DEF Init, NoBatch
    <2>2. Owed(f) = 0
        BY <2>1, IndNone, EnginesFact DEF Owed
    <2>3. {s \in Slots : held[s] = f} = {}
        BY <2>1 DEF Fences, NoFence
    <2>4. Holders(f) = 0
        BY <2>3, FS_EmptySet DEF Holders, Chosen
    <2>. QED
        BY <2>1, <2>2, <2>4
<1>2. ASSUME NEW p \in Pixmaps PROVE lockcnt[p] = batch.uses[p].refcnt + Tally(RequestLocks, p)
    <2>1. lockcnt[p] = 0 /\ batch = NoBatch /\ req.kind = "idle"
        BY DEF Init, Idle
    <2>2. batch.uses[p].refcnt = 0
        BY <2>1 DEF NoBatch, NoUse
    <2>3. Tally(RequestLocks, p) = 0
        BY <2>1, LocksFact, TallyNone
    <2>. QED
        BY <2>1, <2>2, <2>3
<1>3. LockDomain
    BY DEF Init, LockDomain
<1>. QED
    BY <1>1, <1>2, <1>3, RefsForm, LocksForm

LEMMA TypeFact == ASSUME RenderInv, LocksExact, LockDomain PROVE TypeOK
<1>1. ASSUME NEW p \in Pixmaps PROVE lockcnt[p] \in Nat
    <2>1. PICK n \in Nat : n = batch.uses[p].refcnt
        BY BatchFact DEF Use, RenderInv
    <2>2. PICK t \in Nat : t = Tally(RequestLocks, p)
        BY RequestLocksType
    <2>3. lockcnt[p] = n + t
        BY <2>1, <2>2, LocksForm
    <2>. QED
        BY <2>3
<1>2. lockcnt \in [Pixmaps -> Nat]
    BY <1>1 DEF LockDomain
<1>3. /\ batch.explicit_fence \in Handle /\ batch.job_fence \in Handle
      /\ batch.cur \in Pixmaps \cup {NoPixmap}
      /\ (batch.num_jobs = 0) <=> (batch = NoBatch)
    BY DEF RenderInv, GpuInv, BatchType, NoBatch
<1>. QED
    BY <1>2, <1>3 DEF TypeOK, RenderInv, GpuInv, GpuType, PictureType

-----------------------------------------------------------------------------
(* What alpha_0 and the deferred fills say of the contents.                *)

\* Nothing is drawn, and no pixmap whose contents are vouched for again is
\* one that was not before.
LEMMA PictureKept ==
    ASSUME FillTrue, AlphaTrue, ScanFill, UNCHANGED <<ideal, alpha_0>>, fill' = fill,
           \A p \in Pixmaps : FillStale(p) => FillStale(p)' \/ fill[p] = NoFill,
           \A p \in Pixmaps : AlphaStale(p) => AlphaStale(p)'
    PROVE  FillTrue' /\ AlphaTrue' /\ ScanFill'
<1>1. FillTrue'
    BY DEF FillTrue, Plain
<1>2. AlphaTrue'
    BY RenderAssumption DEF AlphaTrue, Plain
<1>. QED
    BY <1>1, <1>2 DEF ScanFill

LEMMA NotStale ==
    ASSUME req.kind \notin {"copy", "composite"} \/ req.ops = <<>>,
           req.kind \notin Filling \/ todo = <<>>
    PROVE  \A p : ~ FillStale(p) /\ ~ AlphaStale(p)
BY DEF FillStale, AlphaStale, RectLeft, Filling

\* Nothing is in progress.
LEMMA IdleAlpha ==
    ASSUME req' = Idle, FillTrue', AlphaTrue', ScanFill'
    PROVE  AlphaInv'
BY DEF Idle, AlphaInv, FillingTrue, CopyTrue, CompositeTrue, Filling

\* A request ends that has drawn nothing that is not accounted for.
LEMMA EndedAlpha ==
    ASSUME AlphaInv, req' = Idle, UNCHANGED <<ideal, alpha_0>>, fill' = fill,
           \A p \in Pixmaps : FillStale(p) => fill[p] = NoFill,
           \A p \in Pixmaps : ~ AlphaStale(p)
    PROVE  AlphaInv'
BY PictureKept, IdleAlpha DEF AlphaInv

\* A request goes on without drawing.
LEMMA AlphaKept ==
    ASSUME AlphaInv, UNCHANGED <<ideal, alpha_0>>, fill' = fill, req' = req,
           RectLeft' <=> RectLeft,
           \A p : HasFill(p) /\ fill[p] # NoFill => HasFill(p)',
           \A c : In(c, todo') => In(c, todo),
           todo = <<>> => todo' = <<>>
    PROVE  AlphaInv'
<1>1. FillTrue' /\ AlphaTrue' /\ ScanFill'
    BY PictureKept DEF AlphaInv, FillStale, AlphaStale
<1>2. \A p, c : Plain(p, c)' <=> Plain(p, c)
    BY DEF Plain
<1>3. FillingTrue'
    BY <1>2 DEF AlphaInv, FillingTrue, In
<1>4. CopyTrue'
    BY DEF AlphaInv, CopyTrue, Covering
<1>5. CompositeTrue'
    BY <1>2 DEF AlphaInv, CompositeTrue, ReducedTrue, Nothing
<1>. QED
    BY <1>1, <1>3, <1>4, <1>5 DEF AlphaInv

\* A call other than one for a rectangle is made.
LEMMA PoppedCalls ==
    ASSUME RenderInv, todo # <<>>, me.call # "rect", NEW t, t = Tail(todo)
    PROVE  /\ RectLeft <=> \E i \in DOMAIN t : t[i].call = "rect"
           /\ \A p : HasFill(p) => \/ me.call = "fill" /\ me.pix = p
                                   \/ \E i \in DOMAIN t : t[i].call = "fill" /\ t[i].pix = p
           /\ \A c : In(c, t) => In(c, todo)
           /\ t \in Seq(Calls)
<1>1. /\ me = todo[1] /\ todo \in Seq(Calls) /\ DOMAIN todo = 1..Len(todo) /\ Len(todo) \in Nat
    BY HeadCall DEF RenderInv
<1>2. /\ t \in Seq(Calls) /\ DOMAIN t = 1..(Len(todo) - 1)
      /\ \A i \in DOMAIN t : i + 1 \in DOMAIN todo /\ t[i] = todo[i + 1]
    BY <1>1, TailCalls
<1>3. ASSUME NEW i \in DOMAIN todo PROVE todo[i] = me \/ \E j \in DOMAIN t : t[j] = todo[i]
    <2>1. i = 1 \/ i - 1 \in DOMAIN t
        BY <1>1, <1>2
    <2>2. i - 1 \in DOMAIN t => t[i - 1] = todo[i]
        BY <1>1, <1>2
    <2>. QED
        BY <1>1, <2>1, <2>2
<1>4. RectLeft <=> \E i \in DOMAIN t : t[i].call = "rect"
    BY <1>2, <1>3 DEF RectLeft
<1>5. \A p : HasFill(p) => \/ me.call = "fill" /\ me.pix = p
                           \/ \E i \in DOMAIN t : t[i].call = "fill" /\ t[i].pix = p
    BY <1>3 DEF HasFill
<1>6. \A c : In(c, t) => In(c, todo)
    BY <1>2 DEF In
<1>. QED
    BY <1>2, <1>4, <1>5, <1>6

LEMMA PoppedAlpha ==
    ASSUME RenderInv, AlphaInv, todo # <<>>, me.call # "rect", todo' = Tail(todo), req' = req,
           UNCHANGED <<ideal, alpha_0>>, fill' = fill, me.call = "fill" => fill[me.pix] = NoFill
    PROVE  AlphaInv'
<1>1. PICK t : t = Tail(todo)
    OBVIOUS
<1>2. RectLeft' <=> RectLeft
    BY <1>1, PoppedCalls DEF RectLeft
<1>3. \A p : HasFill(p) /\ fill[p] # NoFill => HasFill(p)'
    BY <1>1, PoppedCalls DEF HasFill
<1>4. \A c : In(c, todo') => In(c, todo)
    BY <1>1, PoppedCalls
<1>. QED
    BY <1>2, <1>3, <1>4, AlphaKept

-----------------------------------------------------------------------------
(* The calls.                                                              *)

LEMMA FlushAlpha == ASSUME RenderInv, AlphaInv, FlushDeferred3D PROVE AlphaInv'
<1>1. /\ todo # <<>> /\ me.call = "flush" /\ todo' = Tail(todo) /\ req' = req
      /\ UNCHANGED <<ideal, alpha_0>> /\ fill' = fill
    BY DEF FlushDeferred3D, At, me, picture
<1>. QED
    BY <1>1, PoppedAlpha

LEMMA WaitAlpha == ASSUME RenderInv, AlphaInv, Wait PROVE AlphaInv'
<1>1. /\ todo # <<>> /\ me.call = "wait" /\ todo' = Tail(todo) /\ req' = req
      /\ UNCHANGED <<ideal, alpha_0>> /\ fill' = fill
    BY DEF Wait, At, me, picture, pixmap
<1>. QED
    BY <1>1, PoppedAlpha

LEMMA PokeAlpha == ASSUME RenderInv, AlphaInv, Poke PROVE AlphaInv'
<1>1. /\ todo # <<>> /\ me.call = "poke" /\ todo' = Tail(todo) /\ req' = req
      /\ UNCHANGED <<ideal, alpha_0>> /\ fill' = fill
    BY DEF Poke, At, me, pixmap
<1>. QED
    BY <1>1, PoppedAlpha

\* The job of the request is its last call, that of a deferred fill is not.
LEMMA SubmitAlpha == ASSUME RenderInv, AlphaInv, SubmitJob PROVE AlphaInv'
<1>1. /\ todo # <<>> /\ me.call = "submit" /\ todo' = Tail(todo)
      /\ IF todo' # <<>> THEN req' = req ELSE req' = Idle
      /\ UNCHANGED <<ideal, alpha_0>> /\ fill' = fill
    BY DEF SubmitJob, At, me, picture
<1>2. CASE todo' # <<>>
    BY <1>1, <1>2, PoppedAlpha
<1>3. CASE todo' = <<>>
    <2>1. Len(todo) = 1 /\ todo[1] = me /\ DOMAIN todo = {1} /\ me.call \in Final(req.kind)
        <3>1. /\ me = todo[1] /\ todo \in Seq(Calls) /\ DOMAIN todo = 1..Len(todo)
              /\ IF Len(todo) = 1 THEN me.call \in Final(req.kind) ELSE me.call \in Middle
            BY <1>1, HeadCall DEF RenderInv
        <3>2. Len(todo) = 1
            BY <1>1, <1>3, <3>1, TailCalls
        <3>. QED
            BY <3>1, <3>2
    <2>2. req.kind \in Filling \cup {"copy"}
        BY <1>1, <2>1 DEF Final, Filling
    <2>3. ~ RectLeft /\ \A p : ~ HasFill(p)
        BY <1>1, <2>1 DEF RectLeft, HasFill
    <2>4. req.kind = "copy" => fill[req.want.dst] = NoFill
        BY <1>1, <2>3 DEF AlphaInv, CopyTrue
    <2>5. \A p \in Pixmaps : (FillStale(p) => fill[p] = NoFill) /\ ~ AlphaStale(p)
        BY <2>2, <2>3, <2>4 DEF FillStale, AlphaStale, Filling
    <2>. QED
        BY <1>1, <1>3, <2>5, EndedAlpha
<1>. QED
    BY <1>2, <1>3

LEMMA LookAlpha == ASSUME RenderInv, AlphaInv, Look PROVE AlphaInv'
<1>1. /\ todo # <<>> /\ me.call = "look" /\ me.call \notin Middle /\ req' = Idle
      /\ UNCHANGED <<ideal, alpha_0>> /\ fill' = fill
    BY DEF Look, At, me, pixmap, Middle
<1>2. req.kind = "look"
    BY <1>1, LastFactCall DEF RenderInv, Final, Filling
<1>3. \A p : ~ FillStale(p) /\ ~ AlphaStale(p)
    BY <1>2, NotStale DEF Filling
<1>. QED
    BY <1>1, <1>3, EndedAlpha

LEMMA TimerAlpha == ASSUME AlphaInv, TimerFires PROVE AlphaInv'
<1>1. req = Idle /\ req' = Idle /\ UNCHANGED <<ideal, alpha_0>> /\ fill' = fill
    BY DEF TimerFires, picture
<1>2. \A p : ~ FillStale(p) /\ ~ AlphaStale(p)
    BY <1>1, NotStale DEF Idle, Filling
<1>. QED
    BY <1>1, <1>2, EndedAlpha

LEMMA StutterAlpha ==
    ASSUME AlphaInv, UNCHANGED <<ideal, alpha_0, req>>, todo' = todo, fill' = fill
    PROVE  AlphaInv'
<1>1. /\ RectLeft' <=> RectLeft
      /\ \A p : HasFill(p) /\ fill[p] # NoFill => HasFill(p)'
      /\ \A c : In(c, todo') => In(c, todo)
    BY DEF RectLeft, HasFill
<1>. QED
    BY <1>1, AlphaKept

\* A deferred fill is performed: alpha_0 then says what the fill said.
LEMMA PerformedFact ==
    ASSUME NoA8, RenderInv, FillDeferred, fill[me.pix] # NoFill
    PROVE  /\ me.pix \in Pixmaps /\ me.call = "fill" /\ todo # <<>>
           /\ UNCHANGED <<ideal, req>>
           /\ \A p \in Pixmaps : IF p = me.pix THEN fill'[p] = NoFill ELSE fill'[p] = fill[p]
           /\ \A p \in Pixmaps : \/ alpha_0'[p] = alpha_0[p]
                                 \/ p = me.pix /\ (alpha_0'[p] <=> fill[p] = Clear)
           /\ RectLeft' <=> RectLeft
           /\ \A p : HasFill(p) => p = me.pix \/ HasFill(p)'
           /\ \A i \in DOMAIN todo' : todo'[i].call = "rect" => In(todo'[i], todo)
<1>1. todo # <<>> /\ me.call = "fill"
    BY DEF FillDeferred, At, me
<1>2. PICK p \in Pixmaps : p = me.pix
    BY <1>1, HeadCall, CallsFact DEF RenderInv
<1>3. PICK c \in Colours : c = fill[p]
    BY <1>2 DEF RenderInv, PictureType
<1>4. PICK v : v = Tail(todo)
    OBVIOUS
<1>5. PICK byCpu \in BOOLEAN : byCpu = (IsSmall(p, Cells(p)) /\ ~ Busy(p))
    OBVIOUS
<1>6. PICK a : a = IF byCpu THEN WaitCall(p, Read(p) \cup Written(p)) ELSE FlushCall(p, TRUE, TRUE)
    OBVIOUS
<1>7. PICK b : b = IF byCpu THEN PokeCall(p, Cells(p), c)
                   ELSE SubmitCall(<<FillOp(p, Cells(p), c)>>, p, {})
    OBVIOUS
<1>8. PICK z \in BOOLEAN : z = ZeroAlpha(p, Cells(p), c)
    BY ZeroAlphaFact
<1>9. /\ fill' = [fill EXCEPT ![p] = NoFill] /\ todo' = <<a, b>> \o v
      /\ alpha_0' = [alpha_0 EXCEPT ![p] = z] \/ alpha_0' = alpha_0
      /\ UNCHANGED <<ideal, req>>
    BY <1>2, <1>3, <1>4, <1>5, <1>6, <1>7, <1>8 DEF FillDeferred, picture
<1>10. z = (c = Clear)
    BY <1>8 DEF ZeroAlpha, NoA8
<1>11. /\ \A q \in Pixmaps : IF q = p THEN fill'[q] = NoFill ELSE fill'[q] = fill[q]
       /\ \A q \in Pixmaps : \/ alpha_0'[q] = alpha_0[q]
                             \/ q = p /\ (alpha_0'[q] <=> fill[q] = Clear)
    <2>1. \A q \in Pixmaps : fill'[q] = IF q = p THEN NoFill ELSE fill[q]
        BY <1>9 DEF RenderInv, PictureType
    <2>2. \/ alpha_0' = alpha_0
          \/ \A q \in Pixmaps : alpha_0'[q] = IF q = p THEN z ELSE alpha_0[q]
        BY <1>9 DEF RenderInv, PictureType
    <2>3. ASSUME NEW q \in Pixmaps, alpha_0'[q] # alpha_0[q] PROVE q = p /\ alpha_0'[q] = z
        BY <2>2, <2>3
    <2>4. z <=> fill[p] = Clear
        BY <1>3, <1>10
    <2>. QED
        BY <2>1, <2>3, <2>4
<1>12. a.call # "rect" /\ b.call # "rect"
    BY <1>6, <1>7 DEF WaitCall, FlushCall, PokeCall, SubmitCall
<1>13. v \in Seq(Calls)
    BY <1>1, <1>4, HeadCall, TailCalls DEF RenderInv
<1>14. PICK s : s = <<a, b>>
    OBVIOUS
<1>15. Len(s) = 2 /\ s[1] = a /\ s[2] = b /\ s \in Seq({a, b} \cup Calls)
    BY <1>14
<1>16. /\ DOMAIN todo' = 1..(2 + Len(v)) /\ Len(v) \in Nat /\ DOMAIN v = 1..Len(v)
       /\ \A i \in 1..(2 + Len(v)) : todo'[i] = IF i <= 2 THEN s[i] ELSE v[i - 2]
    <2>1. v \in Seq({a, b} \cup Calls) /\ Len(v) \in Nat /\ DOMAIN v = 1..Len(v)
        BY <1>13
    <2>. QED
        BY <1>9, <1>14, <1>15, <2>1, ConcatFact
<1>17. ASSUME NEW i \in DOMAIN v PROVE i + 2 \in DOMAIN todo' /\ todo'[i + 2] = v[i]
    BY <1>16
<1>18. ASSUME NEW i \in DOMAIN todo'
       PROVE  todo'[i] = a \/ todo'[i] = b \/ \E j \in DOMAIN v : todo'[i] = v[j]
    <2>1. i = 1 \/ i = 2 \/ (i > 2 /\ i - 2 \in DOMAIN v)
        BY <1>16
    <2>2. i > 2 => todo'[i] = v[i - 2]
        BY <1>16
    <2>. QED
        BY <1>15, <1>16, <2>1, <2>2
<1>19. RectLeft' <=> \E j \in DOMAIN v : v[j].call = "rect"
    BY <1>12, <1>17, <1>18 DEF RectLeft
<1>20. RectLeft' <=> RectLeft
    BY <1>1, <1>4, <1>19, PoppedCalls
<1>21. \A q : HasFill(q) => q = p \/ \E i \in DOMAIN v : v[i].call = "fill" /\ v[i].pix = q
    BY <1>1, <1>2, <1>4, PoppedCalls
<1>22. \A q : HasFill(q) => q = p \/ HasFill(q)'
    BY <1>17, <1>21 DEF HasFill
<1>23. ASSUME NEW i \in DOMAIN todo', todo'[i].call = "rect" PROVE In(todo'[i], todo)
    <2>1. PICK j \in DOMAIN v : todo'[i] = v[j]
        BY <1>12, <1>18, <1>23
    <2>2. In(v[j], v)
        BY DEF In
    <2>. QED
        BY <1>1, <1>4, <2>1, <2>2, PoppedCalls
<1>24. /\ \A q \in Pixmaps : IF q = me.pix THEN fill'[q] = NoFill ELSE fill'[q] = fill[q]
       /\ \A q \in Pixmaps : \/ alpha_0'[q] = alpha_0[q]
                             \/ q = me.pix /\ (alpha_0'[q] <=> fill[q] = Clear)
    BY <1>2, <1>11
<1>25. \A q : HasFill(q) => q = me.pix \/ HasFill(q)'
    BY <1>2, <1>22
<1>26. me.pix \in Pixmaps /\ UNCHANGED <<ideal, req>>
    BY <1>2, <1>9
<1>. QED
    BY <1>1, <1>20, <1>23, <1>24, <1>25, <1>26

LEMMA FillDeferredAlpha == ASSUME NoA8, RenderInv, AlphaInv, FillDeferred PROVE AlphaInv'
<1>1. CASE fill[me.pix] = NoFill
    <2>1. /\ todo # <<>> /\ me.call = "fill" /\ todo' = Tail(todo) /\ req' = req
          /\ UNCHANGED <<ideal, alpha_0>> /\ fill' = fill
        BY <1>1 DEF FillDeferred, At, me, picture
    <2>. QED
        BY <1>1, <2>1, PoppedAlpha
<1>2. CASE fill[me.pix] # NoFill
    <2>1. PICK d \in Pixmaps : d = me.pix
        BY <1>2, PerformedFact
    <2>2. /\ todo # <<>> /\ UNCHANGED <<ideal, req>> /\ fill[d] # NoFill
          /\ \A p \in Pixmaps : IF p = d THEN fill'[p] = NoFill ELSE fill'[p] = fill[p]
          /\ \A p \in Pixmaps : \/ alpha_0'[p] = alpha_0[p]
                                \/ p = d /\ (alpha_0'[p] <=> fill[p] = Clear)
          /\ RectLeft' <=> RectLeft
          /\ \A p : HasFill(p) => p = d \/ HasFill(p)'
          /\ \A i \in DOMAIN todo' : todo'[i].call = "rect" => In(todo'[i], todo)
        BY <1>2, <2>1, PerformedFact
    <2>3. \A p, c : Plain(p, c)' <=> Plain(p, c)
        BY <2>2 DEF Plain
    <2>4. \A p : (FillStale(p)' <=> FillStale(p)) /\ (AlphaStale(p)' <=> AlphaStale(p))
        BY <2>2 DEF FillStale, AlphaStale
    <2>5. FillTrue'
        BY <2>2, <2>3, <2>4 DEF AlphaInv, FillTrue, Plain
    <2>6. ScanFill'
        BY <2>2, RenderAssumption DEF AlphaInv, ScanFill
    <2>7. d = req.want.dst /\ d \in Alpha => req.kind # "copy"
        BY <2>2 DEF AlphaInv, CopyTrue, Covering
    <2>8. d \in Alpha /\ FillStale(d) => AlphaStale(d)
        BY <2>7 DEF FillStale, AlphaStale
    <2>9. ASSUME NEW p \in Alpha, alpha_0'[p], ~ AlphaStale(p) PROVE Plain(p, Clear)
        <3>1. CASE alpha_0[p]
            BY <2>9, <3>1 DEF AlphaInv, AlphaTrue
        <3>2. CASE ~ alpha_0[p]
            <4>1. p = d /\ fill[p] = Clear
                BY <2>2, <2>9, <3>2, RenderAssumption
            <4>2. ~ FillStale(p)
                BY <2>8, <2>9, <4>1
            <4>. QED
                BY <2>1, <2>2, <4>1, <4>2 DEF AlphaInv, FillTrue
        <3>. QED
            BY <3>1, <3>2
    <2>10. AlphaTrue'
        BY <2>3, <2>4, <2>9 DEF AlphaTrue
    <2>11. FillingTrue'
        <3>1. SUFFICES ASSUME req.kind \in Filling PROVE FillingTrue'
            BY <2>2 DEF FillingTrue
        <3>2. req.want.dst \in Pixmaps
            BY <3>1, FillingFact
        <3>3. RectLeft => fill'[req.want.dst] = NoFill \/ HasFill(req.want.dst)'
            BY <2>2, <3>1, <3>2 DEF AlphaInv, FillingTrue
        <3>4. RectLeft => (fill[req.want.dst] = NoFill \/ HasFill(req.want.dst))'
            BY <2>2, <3>3 DEF HasFill
        <3>5. \A i \in DOMAIN todo' : todo'[i].call = "rect" /\ todo'[i].alpha /\ req.want.dst \in Alpha =>
                 Plain(req.want.dst, Clear)
            BY <2>2, <3>1 DEF AlphaInv, FillingTrue, In
        <3>. QED
            BY <2>2, <2>3, <3>1, <3>4, <3>5 DEF AlphaInv, FillingTrue
    <2>12. CopyTrue'
        <3>1. SUFFICES ASSUME req.kind = "copy" PROVE CopyTrue'
            BY <2>2 DEF CopyTrue
        <3>2. req.want.dst \in Pixmaps
            BY <3>1, CopyFact
        <3>3. fill'[req.want.dst] = NoFill \/ HasFill(req.want.dst)'
            BY <2>2, <3>1, <3>2 DEF AlphaInv, CopyTrue
        <3>4. req.want.dst \in Alpha => req.want.dst # d
            BY <2>7, <3>1
        <3>. QED
            BY <2>2, <3>1, <3>2, <3>3, <3>4 DEF AlphaInv, CopyTrue, Covering, HasFill
    <2>13. CompositeTrue'
        <3>1. SUFFICES ASSUME req.kind = "composite" PROVE CompositeTrue'
            BY <2>2 DEF CompositeTrue
        <3>2. ~ req.out /\ req.want.dst \in Pixmaps
            BY <2>2, <3>1, CompositeFact DEF AlphaInv, CompositeTrue
        <3>3. (alpha_0'[req.want.dst] \/ fill'[req.want.dst] = Clear) =>
                 alpha_0[req.want.dst] \/ fill[req.want.dst] = Clear
            <4>1. PICK p \in Pixmaps : p = req.want.dst
                BY <3>2
            <4>2. alpha_0'[p] => alpha_0[p] \/ fill[p] = Clear
                BY <2>2
            <4>3. fill'[p] = Clear => fill[p] = Clear
                BY <2>2 DEF NoFill, Clear
            <4>. QED
                BY <4>1, <4>2, <4>3
        <3>4. \A t, p : Nothing(t, p)' <=> Nothing(t, p)
            BY <2>3 DEF Nothing
        <3>. QED
            BY <2>2, <2>3, <3>1, <3>2, <3>3, <3>4 DEF AlphaInv, CompositeTrue, ReducedTrue
    <2>. QED
        BY <2>5, <2>6, <2>10, <2>11, <2>12, <2>13 DEF AlphaInv
<1>. QED
    BY <1>1, <1>2

-----------------------------------------------------------------------------
(* New requests.                                                           *)

LEMMA StartedAlpha ==
    ASSUME RenderInv, AlphaInv, req = Idle, UNCHANGED <<ideal, alpha_0>>, fill' = fill
    PROVE  /\ FillTrue' /\ AlphaTrue' /\ ScanFill' /\ todo = <<>>
           /\ \A p \in Pixmaps : fill[p] # NoFill => Plain(p, fill[p])
           /\ \A p \in Alpha : alpha_0[p] => Plain(p, Clear)
           /\ \A p, c : Plain(p, c)' <=> Plain(p, c)
<1>1. \A p : ~ FillStale(p) /\ ~ AlphaStale(p)
    BY NotStale DEF Idle, Filling
<1>2. todo = <<>>
    BY DEF RenderInv, Agenda, TodoType
<1>3. FillTrue' /\ AlphaTrue' /\ ScanFill'
    BY <1>1, PictureKept DEF AlphaInv
<1>4. /\ \A p \in Pixmaps : fill[p] # NoFill => Plain(p, fill[p])
      /\ \A p \in Alpha : alpha_0[p] => Plain(p, Clear)
    BY <1>1 DEF AlphaInv, FillTrue, AlphaTrue
<1>. QED
    BY <1>2, <1>3, <1>4 DEF Plain

\* A fill, which may stand for a copy from a pixmap of one colour.
LEMMA FillStarted ==
    ASSUME RenderInv, AlphaInv, NEW q \in Requests, NEW kind, Start(q, kind), NEW k \in Filling,
           kind \in {"solid", "copy"}, NEW c, req' = SolidState(q, k, c),
           IF q.src.pix = NoPixmap THEN q.src.colour = c
           ELSE q.src.pix \in Pixmaps /\ fill[q.src.pix] # NoFill /\ fill[q.src.pix] = c,
           UNCHANGED <<picture, alpha_0>>, todo' = todo, fill' = fill
    PROVE  AlphaInv'
<1>1. req = Idle /\ q.kind \in {"solid", "copy"} /\ UNCHANGED <<ideal, alpha_0>>
    BY DEF Start, picture
<1>2. /\ FillTrue' /\ AlphaTrue' /\ ScanFill' /\ todo = <<>>
      /\ \A p \in Pixmaps : fill[p] # NoFill => Plain(p, fill[p])
      /\ \A p, b : Plain(p, b)' <=> Plain(p, b)
    BY <1>1, StartedAlpha
<1>3. PICK o \in BOOLEAN : o = (q.dst \notin Scanout)
    OBVIOUS
<1>4. /\ req'.kind = k /\ req'.want = q /\ req'.colour = c /\ req'.optimize = o
      /\ k \in {"solid", "copyfill"}
    BY <1>3 DEF SolidState, Filling
<1>5. q.mask.colour # Clear
    BY <1>1, RequestsAssumption
<1>6. ~ RectLeft' /\ DOMAIN todo' = {}
    BY <1>2 DEF RectLeft
<1>7. FillingTrue'
    <2>1. IF q.src.pix = NoPixmap THEN q.src.colour = c ELSE Plain(q.src.pix, c)
        BY <1>2
    <2>2. IF q.src.pix = NoPixmap THEN q.src.colour = c ELSE (Plain(q.src.pix, c))'
        BY <1>1, <2>1 DEF Plain
    <2>3. IF req'.want.src.pix = NoPixmap THEN req'.want.src.colour = c
          ELSE (Plain(req.want.src.pix, req.colour))'
        BY <1>4, <2>2 DEF Plain
    <2>. QED
        BY <1>3, <1>4, <1>5, <1>6, <2>3 DEF FillingTrue
<1>8. CopyTrue' /\ CompositeTrue'
    BY <1>4 DEF CopyTrue, CompositeTrue
<1>. QED
    BY <1>2, <1>7, <1>8 DEF AlphaInv

LEMMA PrepareSolidAlpha == ASSUME RenderInv, AlphaInv, PrepareSolid PROVE AlphaInv'
<1>1. PICK q \in Requests :
          /\ Start(q, "solid")
          /\ req' = SolidState(q, "solid", q.src.colour)
          /\ UNCHANGED <<picture, fill, alpha_0, fences, batch, gpu, todo>>
    BY DEF PrepareSolid
<1>2. q.src.pix = NoPixmap
    BY <1>1, RequestsAssumption DEF Start
<1>. QED
    BY <1>1, <1>2, FillStarted DEF Filling

\* A copy is begun, rotated or not.
LEMMA CopyStarted ==
    ASSUME RenderInv, AlphaInv, req = Idle, NEW q \in Requests, NEW o \in BOOLEAN,
           q.mask.colour # Clear, req'.kind = "copy", req'.want = q, req'.rects = q.rects, req'.optimize = o,
           q.dst \in Alpha => /\ q.src.pix \in Alpha
                              /\ fill[q.dst] = NoFill \/ (o /\ Covering(q, q.rects))
                              /\ o \/ ~ alpha_0[q.dst],
           UNCHANGED <<picture, alpha_0>>, todo' = todo, fill' = fill
    PROVE  AlphaInv'
<1>1. FillTrue' /\ AlphaTrue' /\ ScanFill' /\ todo = <<>>
    BY StartedAlpha DEF picture
<1>2. FillingTrue' /\ CompositeTrue'
    BY DEF FillingTrue, CompositeTrue, Filling
<1>3. CopyTrue'
    BY <1>1 DEF CopyTrue, Covering
<1>. QED
    BY <1>1, <1>2, <1>3 DEF AlphaInv

LEMMA PrepareCopyAlpha == ASSUME WholeCopies, RenderInv, AlphaInv, PrepareCopy PROVE AlphaInv'
<1>1. PICK q \in Requests :
          /\ Start(q, "copy")
          /\ IF fill[q.src.pix] # NoFill
             THEN req' = SolidState(q, "copyfill", fill[q.src.pix])
             ELSE req' = [SolidState(q, "copy", Clear) EXCEPT !.optimize =
                     \/ fill[q.src.pix] # NoFill \/ fill[q.dst] # NoFill
                     \/ alpha_0[q.src.pix] \/ alpha_0[q.dst]]
          /\ UNCHANGED <<picture, fill, alpha_0, fences, batch, gpu, todo>>
    BY DEF PrepareCopy
<1>2. /\ q.kind = "copy" /\ req = Idle /\ q.src.pix \in Pixmaps /\ q.src.pix # NoPixmap
      /\ q.mask.colour # Clear
    BY <1>1, RequestFact, RequestsAssumption DEF Start
<1>3. CASE fill[q.src.pix] # NoFill
    <2>1. "copyfill" \in Filling
        BY DEF Filling
    <2>. QED
        BY <1>1, <1>2, <1>3, <2>1, FillStarted
<1>4. CASE fill[q.src.pix] = NoFill
    <2>1. PICK o \in BOOLEAN : o = (\/ fill[q.src.pix] # NoFill \/ fill[q.dst] # NoFill
                                    \/ alpha_0[q.src.pix] \/ alpha_0[q.dst])
        OBVIOUS
    <2>2. req' = [SolidState(q, "copy", Clear) EXCEPT !.optimize = o]
        BY <1>1, <1>4, <2>1
    <2>3. req'.kind = "copy" /\ req'.want = q /\ req'.rects = q.rects /\ req'.optimize = o
        BY <2>2 DEF SolidState
    <2>4. q.dst \in Alpha => /\ q.src.pix \in Alpha
                             /\ fill[q.dst] = NoFill \/ (o /\ Covering(q, q.rects))
                             /\ o \/ ~ alpha_0[q.dst]
        BY <1>2, <1>4, <2>1 DEF WholeCopies
    <2>. QED
        BY <1>1, <1>2, <2>3, <2>4, CopyStarted
<1>. QED
    BY <1>3, <1>4

LEMMA PrepareRotatedAlpha == ASSUME WholeCopies, RenderInv, AlphaInv, PrepareRotated PROVE AlphaInv'
<1>1. PICK q \in Requests :
          /\ Start(q, "rotate")
          /\ req' = [SolidState(q, "copy", Clear) EXCEPT !.optimize = FALSE]
          /\ UNCHANGED <<picture, pixmap, fences, batch, gpu, todo>>
    BY DEF PrepareRotated
<1>2. PICK o \in BOOLEAN : o = FALSE
    OBVIOUS
<1>3. /\ req'.kind = "copy" /\ req'.want = q /\ req'.rects = q.rects /\ req'.optimize = o
      /\ req = Idle /\ q.kind = "rotate" /\ q.mask.colour # Clear
    BY <1>1, <1>2, RequestsAssumption DEF SolidState, Start
<1>4. q.dst \notin Alpha
    BY <1>3 DEF WholeCopies
<1>. QED
    BY <1>1, <1>3, <1>4, CopyStarted DEF pixmap

\* Drawing in software, and reading.
LEMMA AccessAlpha ==
    ASSUME RenderInv, AlphaInv, req = Idle, req'.kind \in {"soft", "look"}, UNCHANGED <<ideal, alpha_0>>,
           fill' = fill
    PROVE  AlphaInv'
<1>1. FillTrue' /\ AlphaTrue' /\ ScanFill'
    BY StartedAlpha
<1>. QED
    BY <1>1 DEF AlphaInv, FillingTrue, CopyTrue, CompositeTrue, Filling

LEMMA PrepareAccessAlpha ==
    ASSUME RenderInv, AlphaInv, PrepareSoftware \/ PrepareLook
    PROVE  AlphaInv'
<1>1. req = Idle /\ req'.kind \in {"soft", "look"} /\ UNCHANGED <<ideal, alpha_0>> /\ fill' = fill
    <2>1. CASE PrepareSoftware
        <3>1. \E q \in Requests : /\ Start(q, "soft")
                                  /\ req' = [kind |-> "soft", want |-> q, rects |-> q.rects]
                                  /\ UNCHANGED <<picture, pixmap>>
            BY <2>1 DEF PrepareSoftware
        <3>. QED
            BY <3>1 DEF Start, picture, pixmap
    <2>2. CASE PrepareLook
        <3>1. \E q \in Requests : /\ Start(q, "look")
                                  /\ req' = [kind |-> "look", want |-> q, rects |-> <<>>]
                                  /\ UNCHANGED <<picture, pixmap>>
            BY <2>2 DEF PrepareLook
        <3>. QED
            BY <3>1 DEF Start, picture, pixmap
    <2>. QED
        BY <2>1, <2>2
<1>. QED
    BY <1>1, AccessAlpha

\* An operand that is reduced to nothing draws nothing, as far as the fills
\* and alpha_0 can be believed.
LEMMA ReducedAlpha ==
    ASSUME RenderInv, NEW t \in Operands, NEW op, NEW d,
           \A p \in Pixmaps : fill[p] # NoFill => Plain(p, fill[p]),
           IsEmpty(Reduce(t, op))
    PROVE  Nothing(t, d) /\ (t.pix \in Pixmaps /\ t.pix = d => fill[d] = Clear)
<1>1. CASE Reduced(t, op)
    <2>1. PICK p \in Pixmaps : p = t.pix /\ fill[p] # NoFill /\ p # NoPixmap
        BY <1>1, RenderAssumption DEF Reduced, Operands, Solid, Texture
    <2>2. Reduce(t, op) = Solid(View(p, fill[p]))
        BY <1>1, <2>1 DEF Reduce
    <2>3. View(p, fill[p]) = Clear
        BY <2>2 DEF IsEmpty, Solid
    <2>4. p \in Alpha /\ fill[p] = Clear
        BY <2>3 DEF View, Clear, Black
    <2>5. Plain(p, Clear)
        BY <2>1, <2>4
    <2>. QED
        BY <2>1, <2>4, <2>5 DEF Nothing
<1>2. CASE ~ Reduced(t, op)
    <2>1. t.pix = NoPixmap /\ t.colour = Clear
        BY <1>2 DEF Reduce, IsEmpty, IsSolid
    <2>. QED
        BY <2>1, RenderAssumption DEF Nothing
<1>. QED
    BY <1>1, <1>2

LEMMA PrepareCompositeAlpha == ASSUME RenderInv, AlphaInv, PrepareComposite PROVE AlphaInv'
<1>1. PICK q \in Requests :
          /\ Start(q, "composite")
          /\ req' = [kind |-> "composite", want |-> q, rects |-> q.rects,
                     ops |-> <<>>, src |-> Reduce(q.src, q.op), mask |-> Reduce(q.mask, q.op),
                     op |-> SelectedOp(q.op, q.dst, Reduce(q.src, q.op), Reduce(q.mask, q.op)),
                     out |-> OptimizedOut(q.op, q.dst, Reduce(q.src, q.op), Reduce(q.mask, q.op)),
                     full |-> FALSE]
          /\ UNCHANGED <<picture, pixmap, fences, batch, gpu, todo>>
    BY DEF PrepareComposite
<1>2. PICK src : src = Reduce(q.src, q.op)
    OBVIOUS
<1>3. PICK mask : mask = Reduce(q.mask, q.op)
    OBVIOUS
<1>4. PICK out \in BOOLEAN : out = OptimizedOut(q.op, q.dst, src, mask)
    BY DEF OptimizedOut
<1>5. /\ req = Idle /\ req'.kind = "composite" /\ req'.want = q /\ req'.src = src /\ req'.mask = mask
      /\ req'.out = out /\ UNCHANGED <<ideal, alpha_0>> /\ fill' = fill /\ todo' = todo
      /\ q.src \in Operands /\ q.mask \in Operands /\ q.dst \in Pixmaps
      /\ q.op \in {"Src", "Over"}
    BY <1>1, <1>2, <1>3, <1>4, RequestFact, RequestsAssumption DEF Start, picture, pixmap
<1>6. /\ FillTrue' /\ AlphaTrue' /\ ScanFill' /\ todo = <<>>
      /\ \A p \in Pixmaps : fill[p] # NoFill => Plain(p, fill[p])
      /\ \A p \in Alpha : alpha_0[p] => Plain(p, Clear)
      /\ \A p, c : Plain(p, c)' <=> Plain(p, c)
    BY <1>5, StartedAlpha
<1>7. FillingTrue' /\ CopyTrue'
    BY <1>5 DEF FillingTrue, CopyTrue, Filling
<1>8. /\ IsEmpty(src) => Nothing(q.src, q.dst) /\ (q.src.pix = q.dst => fill[q.dst] = Clear)
      /\ IsEmpty(mask) => Nothing(q.mask, q.dst) /\ (q.mask.pix = q.dst => fill[q.dst] = Clear)
    BY <1>2, <1>3, <1>5, <1>6, ReducedAlpha
<1>9. (IsSolid(src) \/ src = q.src) /\ (IsSolid(mask) \/ mask = q.mask)
    BY <1>2, <1>3 DEF Reduce, IsSolid, Solid
<1>10. out => /\ IsEmpty(src) \/ IsEmpty(mask)
              /\ q.op = "Over" \/ fill[q.dst] = Clear
    BY <1>4 DEF OptimizedOut, OverOut
<1>11. q.dst \in Alpha /\ (alpha_0[q.dst] \/ fill[q.dst] = Clear) => Plain(q.dst, Clear)
    BY <1>5, <1>6 DEF Clear, NoFill
<1>12. \A t, p : Nothing(t, p)' <=> Nothing(t, p)
    BY <1>6 DEF Nothing
<1>13. CompositeTrue'
    <2>1. /\ (ReducedTrue(src, q.src, q.dst))'
          /\ (ReducedTrue(mask, q.mask, q.dst))'
        BY <1>5, <1>8, <1>9, <1>12 DEF ReducedTrue
    <2>. QED
        BY <1>5, <1>6, <1>10, <1>11, <2>1 DEF CompositeTrue, ReducedTrue
<1>. QED
    BY <1>6, <1>7, <1>13 DEF AlphaInv

-----------------------------------------------------------------------------
(* Drawing.                                                                *)

LEMMA DrawnFact ==
    ASSUME NEW m \in Maps, NEW o \in Operations, NEW n, n = Draw(m, o)
    PROVE  /\ \A p \in Pixmaps : p # o.dst => n[p] = m[p]
           /\ \A x \in Cells(o.dst) :
                 IF x \in o.cells
                 THEN n[o.dst][x] = Blend(o.op, m[o.dst][x], Texel(m, o.op, o.src, From(o.shift, x)),
                                          Texel(m, o.op, o.mask, From(o.shift, x)))
                 ELSE n[o.dst][x] = m[o.dst][x]
<1>. DEFINE d == o.dst
            new == [x \in DOMAIN m[d] |->
                       IF x \in o.cells
                       THEN Blend(o.op, m[d][x], Texel(m, o.op, o.src, From(o.shift, x)),
                                                 Texel(m, o.op, o.mask, From(o.shift, x)))
                       ELSE m[d][x]]
<1>1. n = [m EXCEPT ![d] = new]
    BY DEF Draw
<1>2. d \in Pixmaps /\ DOMAIN m = Pixmaps /\ DOMAIN m[d] = Cells(d)
    BY DEF Operations, Maps
<1>3. \A x \in Cells(d) : IF x \in o.cells
                          THEN new[x] = Blend(o.op, m[d][x], Texel(m, o.op, o.src, From(o.shift, x)),
                                              Texel(m, o.op, o.mask, From(o.shift, x)))
                          ELSE new[x] = m[d][x]
    BY <1>2
<1>. HIDE DEF new
<1>4. (\A p \in Pixmaps : p # d => n[p] = m[p]) /\ n[d] = new
    BY <1>1, <1>2
<1>. QED
    BY <1>3, <1>4

\* Only the destination is drawn to, and only within the rectangle.
LEMMA RectDrawn ==
    ASSUME RenderInv, NEW kinds, NextRect(kinds), "idle" \notin kinds,
           NEW R, R = Head(req.rects), NEW q, q = req.want
    PROVE  /\ q.dst \in Pixmaps /\ R.cells \subseteq Cells(q.dst)
           /\ \A p \in Pixmaps : p # q.dst => ideal'[p] = ideal[p]
           /\ \A x \in Cells(q.dst) :
                 IF x \in R.cells
                 THEN ideal'[q.dst][x] = Blend(q.op, ideal[q.dst][x],
                                               Texel(ideal, q.op, q.src, From(R.shift, x)),
                                               Texel(ideal, q.op, q.mask, From(R.shift, x)))
                 ELSE ideal'[q.dst][x] = ideal[q.dst][x]
<1>1. PICK o : o = Painting(R)
    OBVIOUS
<1>2. o \in Operations /\ q \in Requests /\ R.cells \subseteq Cells(q.dst)
    BY <1>1, RectsFact
<1>3. ideal \in Maps /\ ideal' = Draw(ideal, o)
    BY <1>1 DEF RenderInv, PictureType, NextRect
<1>4. /\ o.op = q.op /\ o.dst = q.dst /\ o.src = q.src /\ o.mask = q.mask
      /\ o.cells = R.cells /\ o.shift = R.shift
    BY <1>1 DEF Painting, Asked
<1>. QED
    BY <1>2, <1>3, <1>4, DrawnFact, RequestFact

\* What a fill or a copy draws.
LEMMA BlitDrawn ==
    ASSUME RenderInv, NEW kinds, NextRect(kinds), "idle" \notin kinds, req.kind \in Blits,
           req.want.mask.colour # Clear, NEW R, R = Head(req.rects),
           NEW d, d = req.want.dst, NEW s, s = req.want.src,
           NEW c, s.pix = NoPixmap => s.colour = c, s.pix # NoPixmap => Plain(s.pix, c)
    PROVE  \A x \in Cells(d) : IF x \in R.cells THEN ideal'[d][x] = c ELSE ideal'[d][x] = ideal[d][x]
<1>1. PICK o : o = Painting(R)
    OBVIOUS
<1>2. /\ o \in Operations /\ o.op = "Copy" /\ o.src = s /\ o.mask.pix = NoPixmap
      /\ o.cells = R.cells /\ o.shift = R.shift
      /\ req.want.op = "Copy" /\ req.want.mask.pix = NoPixmap
    BY <1>1, RectsFact DEF Painting, Asked, RenderInv, Agenda, ReqInv
<1>3. s.pix # NoPixmap => \A x \in R.cells : From(R.shift, x) \in Cells(s.pix)
    BY <1>2 DEF Operations
<1>4. \A y : Texel(ideal, "Copy", req.want.mask, y) # Clear
    BY <1>2 DEF Texel
<1>5. \A x \in R.cells : Texel(ideal, "Copy", s, From(R.shift, x)) = c
    BY <1>3 DEF Texel, Plain
<1>6. \A b, k : k # Clear => Blend("Copy", b, c, k) = c
    BY DEF Blend
<1>. QED
    BY <1>2, <1>4, <1>5, <1>6, RectDrawn

\* A rectangle of a fill is drawn.
LEMMA FillDrawn ==
    ASSUME RenderInv, AlphaInv, NextRect(Filling), NEW R, R = Head(req.rects),
           NEW d, d = req.want.dst, NEW c, c = req.colour, NEW s, s = req.want.src
    PROVE  /\ d \in Pixmaps /\ req.kind \in Filling /\ todo = <<>> /\ req \in Blit /\ c \in Colours
           /\ R.cells \subseteq Cells(d)
           /\ \A p \in Pixmaps : \A b : p # d => (Plain(p, b)' <=> Plain(p, b))
           /\ Plain(d, c) \/ R.cells = Cells(d) => Plain(d, c)'
           /\ \A p : ~ FillStale(p) /\ ~ AlphaStale(p)
           /\ IF s.pix = NoPixmap THEN s.colour = c ELSE Plain(s.pix, c)'
<1>1. /\ req.kind \in Filling /\ todo = <<>> /\ req.want \in Requests /\ req \in Blit
      /\ d \in Pixmaps /\ R.cells \subseteq Cells(d) /\ req.kind \in Blits
    BY RectsFact, FillingFact DEF Filling
<1>2. c \in Colours
    BY <1>1 DEF Blit
<1>3. \A p \in Pixmaps : p # d => ideal'[p] = ideal[p]
    BY RectDrawn DEF Filling
<1>4. /\ req.want.mask.colour # Clear
      /\ IF s.pix = NoPixmap THEN s.colour = c ELSE Plain(s.pix, c)
    BY <1>1 DEF AlphaInv, FillingTrue
<1>5. \A x \in Cells(d) : IF x \in R.cells THEN ideal'[d][x] = c ELSE ideal'[d][x] = ideal[d][x]
    <2>1. "idle" \notin Filling
        BY DEF Filling
    <2>3. (s.pix = NoPixmap => s.colour = c) /\ (s.pix # NoPixmap => Plain(s.pix, c))
        BY <1>4
    <2>. QED
        BY <1>1, <1>4, <2>1, <2>3, BlitDrawn
<1>6. \A p \in Pixmaps : \A b : p # d => (Plain(p, b)' <=> Plain(p, b))
    BY <1>3 DEF Plain
<1>7. Plain(d, c) \/ R.cells = Cells(d) => Plain(d, c)'
    BY <1>5 DEF Plain
<1>8. \A p : ~ FillStale(p) /\ ~ AlphaStale(p)
    BY <1>1, NotStale DEF Filling
<1>9. IF s.pix = NoPixmap THEN s.colour = c ELSE Plain(s.pix, c)'
    <2>1. s.pix # NoPixmap => s.pix \in Pixmaps
        BY <1>1, RequestFact DEF IsSolid
    <2>2. ASSUME NEW p \in Pixmaps, Plain(p, c) PROVE Plain(p, c)'
        BY <1>6, <1>7, <2>2
    <2>3. PICK p : p = s.pix
        OBVIOUS
    <2>4. p # NoPixmap => Plain(p, c)'
        BY <1>4, <2>1, <2>2, <2>3
    <2>. QED
        BY <1>4, <2>3, <2>4 DEF Plain
<1>. QED
    BY <1>1, <1>2, <1>6, <1>7, <1>8, <1>9

\* A fill goes on with nothing left of the rectangle.
LEMMA FilledAlpha ==
    ASSUME RenderInv, AlphaInv, NextRect(Filling), req'.kind = req.kind, req'.want = req.want,
           req'.colour = req.colour, req'.optimize = req.optimize, todo' = <<>>,
           FillTrue', AlphaTrue', ScanFill'
    PROVE  AlphaInv'
<1>0. PICK s : s = req.want.src
    OBVIOUS
<1>1. PICK c : c = req.colour
    OBVIOUS
<1>2. /\ req.kind \in Filling
      /\ IF s.pix = NoPixmap THEN s.colour = c ELSE Plain(s.pix, c)'
    BY <1>0, <1>1, FillDrawn
<1>3. /\ req.want.mask.colour # Clear
      /\ req.optimize <=> req.want.dst \notin Scanout
    BY <1>2 DEF AlphaInv, FillingTrue
<1>4. FillingTrue'
    <2>1. ~ RectLeft' /\ DOMAIN todo' = {}
        BY DEF RectLeft
    <2>. QED
        BY <1>0, <1>1, <1>2, <1>3, <2>1 DEF FillingTrue, Plain
<1>5. CopyTrue' /\ CompositeTrue'
    BY <1>2 DEF CopyTrue, CompositeTrue, Filling
<1>. QED
    BY <1>4, <1>5 DEF AlphaInv

LEMMA DeferFillAlpha == ASSUME NoA8, RenderInv, AlphaInv, DeferFill PROVE AlphaInv'
<1>1. PICK d : d = req.want.dst
    OBVIOUS
<1>2. PICK c : c = req.colour
    OBVIOUS
<1>3. PICK R : R = Head(req.rects)
    OBVIOUS
<1>4. PICK a \in BOOLEAN : a = ZeroAlpha(d, R.cells, c)
    BY ZeroAlphaFact
<1>5. /\ NextRect(Filling) /\ R.cells = Cells(d) /\ req.optimize
      /\ fill' = [fill EXCEPT ![d] = c]
      /\ alpha_0' = [alpha_0 EXCEPT ![d] = a]
      /\ req' = [req EXCEPT !.rects = Tail(@), !.cpu = FALSE]
      /\ todo' = todo
    BY <1>1, <1>2, <1>3, <1>4 DEF DeferFill
<1>6. /\ d \in Pixmaps /\ req.kind \in Filling /\ todo = <<>> /\ req \in Blit
      /\ \A p \in Pixmaps : \A b : p # d => (Plain(p, b)' <=> Plain(p, b))
      /\ Plain(d, c)'
      /\ \A p : ~ FillStale(p) /\ ~ AlphaStale(p)
    BY <1>1, <1>2, <1>3, <1>5, FillDrawn
<1>7. /\ req'.kind = req.kind /\ req'.want = req.want /\ req'.colour = req.colour
      /\ req'.optimize = req.optimize
    BY <1>5, <1>6 DEF Blit
<1>8. fill'[d] = c /\ alpha_0'[d] = a /\ \A p \in Pixmaps : p # d => fill'[p] = fill[p] /\ alpha_0'[p] = alpha_0[p]
    BY <1>5, <1>6 DEF RenderInv, PictureType
<1>9. a => c = Clear
    BY <1>4 DEF ZeroAlpha, NoA8
<1>10. FillTrue'
    <2>1. ASSUME NEW p \in Pixmaps, fill'[p] # NoFill PROVE Plain(p, fill[p])'
        <3>1. CASE p = d
            BY <1>6, <1>8, <3>1 DEF Plain
        <3>2. CASE p # d
            <4>1. Plain(p, fill[p])
                BY <1>6, <1>8, <2>1, <3>2 DEF AlphaInv, FillTrue
            <4>3. PICK b : b = fill[p]
                OBVIOUS
            <4>4. Plain(p, b)'
                BY <1>6, <3>2, <4>1, <4>3
            <4>. QED
                BY <1>8, <3>2, <4>3, <4>4 DEF Plain
        <3>. QED
            BY <3>1, <3>2
    <2>. QED
        BY <2>1 DEF FillTrue
<1>11. AlphaTrue'
    <2>1. ASSUME NEW p \in Alpha, alpha_0'[p] PROVE Plain(p, Clear)'
        <3>1. CASE p = d
            BY <1>6, <1>8, <1>9, <2>1, <3>1 DEF Plain
        <3>2. CASE p # d
            BY <1>6, <1>8, <2>1, <3>2, RenderAssumption DEF AlphaInv, AlphaTrue
        <3>. QED
            BY <3>1, <3>2
    <2>. QED
        BY <2>1 DEF AlphaTrue
<1>12. ScanFill'
    <2>1. d \notin Scanout
        BY <1>1, <1>5, <1>6 DEF AlphaInv, FillingTrue
    <2>. QED
        BY <1>8, <2>1, RenderAssumption DEF AlphaInv, ScanFill
<1>. QED
    BY <1>5, <1>6, <1>7, <1>10, <1>11, <1>12, FilledAlpha

LEMMA SkipFillAlpha == ASSUME RenderInv, AlphaInv, SkipFill PROVE AlphaInv'
<1>1. PICK d : d = req.want.dst
    OBVIOUS
<1>2. PICK c : c = req.colour
    OBVIOUS
<1>3. /\ NextRect(Filling) /\ fill[d] = c
      /\ req' = [req EXCEPT !.rects = Tail(@)]
      /\ UNCHANGED alpha_0 /\ fill' = fill /\ todo' = todo
    BY <1>1, <1>2 DEF SkipFill, SameColour, pixmap
<1>4. PICK s : s = req.want.src
    OBVIOUS
<1>5. PICK R : R = Head(req.rects)
    OBVIOUS
<1>6. /\ d \in Pixmaps /\ req.kind \in Filling /\ todo = <<>> /\ req \in Blit /\ c \in Colours
      /\ \A p \in Pixmaps : \A b : p # d => (Plain(p, b)' <=> Plain(p, b))
      /\ Plain(d, c) => Plain(d, c)'
      /\ \A p : ~ FillStale(p) /\ ~ AlphaStale(p)
    BY <1>1, <1>2, <1>3, <1>4, <1>5, FillDrawn
<1>7. /\ req'.kind = req.kind /\ req'.want = req.want /\ req'.colour = req.colour
      /\ req'.optimize = req.optimize
    BY <1>3, <1>6 DEF Blit
<1>8. Plain(d, c) /\ Plain(d, c)'
    <2>1. fill[d] # NoFill
        BY <1>3, <1>6, ColoursFact
    <2>. QED
        BY <1>3, <1>6, <2>1 DEF AlphaInv, FillTrue
<1>9. ASSUME NEW p \in Pixmaps, NEW b, Plain(p, b) PROVE Plain(p, b)'
    <2>1. CASE p = d
        <3>1. "s" \in Cells(d)
            BY CellsFact
        <3>2. b = c
            BY <1>8, <1>9, <2>1, <3>1 DEF Plain
        <3>. QED
            BY <1>8, <2>1, <3>2
    <2>2. CASE p # d
        BY <1>6, <1>9, <2>2
    <2>. QED
        BY <2>1, <2>2
<1>10. FillTrue'
    <2>1. ASSUME NEW p \in Pixmaps, fill[p] # NoFill PROVE Plain(p, fill[p])'
        <3>1. PICK b : b = fill[p]
            OBVIOUS
        <3>2. Plain(p, b)
            BY <1>6, <2>1, <3>1 DEF AlphaInv, FillTrue
        <3>3. Plain(p, b)'
            BY <1>9, <3>2
        <3>. QED
            BY <1>3, <3>1, <3>3 DEF Plain
    <2>. QED
        BY <1>3, <2>1 DEF FillTrue
<1>11. AlphaTrue'
    BY <1>3, <1>6, <1>9, RenderAssumption DEF AlphaInv, AlphaTrue
<1>12. ScanFill'
    BY <1>3 DEF AlphaInv, ScanFill
<1>. QED
    BY <1>3, <1>6, <1>7, <1>10, <1>11, <1>12, FilledAlpha

\* The rectangle is left to FillRect, after the fill deferred before it.
LEMMA PartialFillAlpha == ASSUME NoA8, RenderInv, AlphaInv, PartialFill PROVE AlphaInv'
<1>1. PICK d : d = req.want.dst
    OBVIOUS
<1>2. PICK c : c = req.colour
    OBVIOUS
<1>3. PICK R : R = Head(req.rects)
    OBVIOUS
<1>4. PICK s : s = req.want.src
    OBVIOUS
<1>5. PICK flushed \in BOOLEAN, a \in BOOLEAN :
          flushed = (req.optimize /\ fill[d] # NoFill) /\ a = ZeroAlpha(d, R.cells, c)
    BY ZeroAlphaFact
<1>6. PICK z : z = RectCall(R.cells, a, flushed)
    OBVIOUS
<1>7. /\ NextRect(Filling) /\ req' = [req EXCEPT !.rects = Tail(@)]
      /\ todo' = IF flushed THEN FlushDeferred(d, TRUE, TRUE, TRUE) \o <<z>> ELSE <<z>>
      /\ UNCHANGED alpha_0 /\ fill' = fill
    BY <1>1, <1>2, <1>3, <1>5, <1>6 DEF PartialFill, pixmap
<1>8. /\ d \in Pixmaps /\ req.kind \in Filling /\ todo = <<>> /\ req \in Blit /\ R.cells \subseteq Cells(d)
      /\ \A p \in Pixmaps : \A b : p # d => (Plain(p, b)' <=> Plain(p, b))
      /\ Plain(d, c) \/ R.cells = Cells(d) => Plain(d, c)'
      /\ \A p : ~ FillStale(p) /\ ~ AlphaStale(p)
      /\ IF s.pix = NoPixmap THEN s.colour = c ELSE Plain(s.pix, c)'
    BY <1>1, <1>2, <1>3, <1>4, <1>7, FillDrawn
<1>9. /\ req'.kind = req.kind /\ req'.want = req.want /\ req'.colour = req.colour
      /\ req'.optimize = req.optimize
    BY <1>7, <1>8 DEF Blit
<1>10. z \in Calls /\ z.call = "rect" /\ z.alpha = a
    BY <1>3, <1>6, <1>7, <1>8, RectsFact DEF RectCall, Calls, Rectangles, Filling
<1>11. /\ \E i \in DOMAIN todo' : todo'[i] = z
       /\ \A i \in DOMAIN todo' : todo'[i].call = "rect" => todo'[i] = z
       /\ flushed => (\E i \in DOMAIN todo' : todo'[i].call = "fill" /\ todo'[i].pix = d)
    <2>1. CASE flushed
        <3>1. PICK b \in Calls : b = FillCall(d, TRUE)
            BY <1>8 DEF FillCall, Calls
        <3>2. PICK e \in Calls : e = FlushCall(d, TRUE, TRUE)
            BY <1>8 DEF FlushCall, Calls
        <3>3. b.call = "fill" /\ b.pix = d /\ e.call = "flush"
            BY <3>1, <3>2 DEF FillCall, FlushCall
        <3>4. todo' = <<b, e>> \o <<z>>
            BY <1>7, <2>1, <3>1, <3>2 DEF FlushDeferred
        <3>5. Three(todo', b, e, z)
            BY <1>10, <3>4, JoinFact
        <3>. QED
            BY <3>3, <3>5 DEF Three
    <2>2. CASE ~ flushed
        <3>1. One(todo', z)
            BY <1>7, <1>10, <2>2, TupleFact
        <3>. QED
            BY <2>2, <3>1 DEF One
    <2>. QED
        BY <2>1, <2>2
<1>12. RectLeft'
    BY <1>10, <1>11 DEF RectLeft
<1>13. \A p : p # d => ~ FillStale(p)' /\ ~ AlphaStale(p)'
    BY <1>1, <1>9 DEF FillStale, AlphaStale
<1>14. FillStale(d)' /\ AlphaStale(d)'
    BY <1>1, <1>8, <1>9, <1>12 DEF FillStale, AlphaStale
<1>15. FillTrue'
    <2>1. ASSUME NEW p \in Pixmaps, fill[p] # NoFill, p # d PROVE Plain(p, fill[p])'
        <3>1. PICK b : b = fill[p]
            OBVIOUS
        <3>2. Plain(p, b)
            BY <1>8, <2>1, <3>1 DEF AlphaInv, FillTrue
        <3>3. Plain(p, b)'
            BY <1>8, <2>1, <3>2
        <3>. QED
            BY <1>7, <3>1, <3>3 DEF Plain
    <2>. QED
        BY <1>7, <1>14, <2>1 DEF FillTrue
<1>16. AlphaTrue'
    <2>1. ASSUME NEW p \in Alpha, alpha_0[p], p # d PROVE Plain(p, Clear)'
        BY <1>8, <2>1, RenderAssumption DEF AlphaInv, AlphaTrue
    <2>. QED
        BY <1>7, <1>14, <2>1 DEF AlphaTrue
<1>17. ScanFill'
    BY <1>7 DEF AlphaInv, ScanFill
<1>18. FillingTrue'
    <2>1. /\ req.want.mask.colour # Clear
          /\ req.optimize <=> d \notin Scanout
        BY <1>1, <1>8 DEF AlphaInv, FillingTrue
    <2>2. fill[d] = NoFill \/ flushed
        BY <1>5, <2>1 DEF AlphaInv, ScanFill
    <2>3. fill'[d] = NoFill \/ HasFill(d)'
        BY <1>7, <1>11, <2>2 DEF HasFill
    <2>4. a /\ d \in Alpha => Plain(d, Clear)'
        <3>1. SUFFICES ASSUME a, d \in Alpha PROVE Plain(d, Clear)'
            OBVIOUS
        <3>2. c = Clear /\ (alpha_0[d] \/ R.cells = Cells(d))
            BY <1>5, <3>1 DEF ZeroAlpha, NoA8
        <3>3. alpha_0[d] => Plain(d, Clear)
            BY <1>8, <3>1 DEF AlphaInv, AlphaTrue
        <3>. QED
            BY <1>8, <3>2, <3>3 DEF Plain
    <2>5. \A i \in DOMAIN todo' : todo'[i].call = "rect" /\ todo'[i].alpha /\ d \in Alpha => Plain(d, Clear)'
        BY <1>10, <1>11, <2>4
    <2>. QED
        BY <1>1, <1>2, <1>4, <1>8, <1>9, <2>1, <2>3, <2>5 DEF FillingTrue, Plain, HasFill
<1>19. CopyTrue' /\ CompositeTrue'
    BY <1>8, <1>9 DEF CopyTrue, CompositeTrue, Filling
<1>. QED
    BY <1>15, <1>16, <1>17, <1>18, <1>19 DEF AlphaInv

\* alpha_0 is what PartialFill found, whatever the deferred fill left.
LEMMA FillRectAlpha == ASSUME RenderInv, AlphaInv, FillRect PROVE AlphaInv'
<1>1. todo # <<>> /\ me.call = "rect" /\ me.call \notin Middle
    BY DEF FillRect, At, me, Middle
<1>2. /\ Tail(todo) = <<>> /\ DOMAIN todo = {1} /\ Len(todo) = 1 /\ todo[1] = me
      /\ me \in Calls /\ me.call \in Final(req.kind) /\ req # Idle
    BY <1>1, LastFactCall DEF RenderInv
<1>3. req.kind \in Filling
    BY <1>1, <1>2 DEF Final, Filling
<1>4. PICK d \in Pixmaps : d = req.want.dst
    BY <1>3, FillingFact
<1>5. me.alpha \in BOOLEAN /\ me.cells \in SUBSET {"s", "l"}
    BY <1>1, <1>2 DEF Calls
<1>6. PICK byCpu \in BOOLEAN :
          byCpu = (req.cpu /\ ~ (me.flushed /\ Busy(d)) /\ IsSmall(d, me.cells))
    OBVIOUS
<1>7. PICK z : z = PokeCall(d, me.cells, req.colour)
    OBVIOUS
<1>8. PICK a : a = WaitCall(d, Read(d) \cup Written(d))
    OBVIOUS
<1>9. PICK cpu, m, ops : req' = [req EXCEPT !.cpu = cpu, !.mapped = m, !.ops = ops]
    BY <1>1, <1>4 DEF FillRect
<1>10. /\ alpha_0' = [alpha_0 EXCEPT ![d] = me.alpha]
       /\ todo' = (IF byCpu THEN (IF req.mapped THEN <<>> ELSE <<a>>) \o <<z>> ELSE <<>>) \o <<>>
       /\ UNCHANGED ideal /\ fill' = fill
    BY <1>2, <1>4, <1>6, <1>7, <1>8 DEF FillRect, picture
<1>11. /\ req'.kind = req.kind /\ req'.want = req.want /\ req'.colour = req.colour
       /\ req'.optimize = req.optimize
    BY <1>3, <1>9, FillingFact DEF Blit
<1>12. a.call # "rect" /\ z.call # "rect"
    BY <1>7, <1>8 DEF WaitCall, PokeCall
<1>13. \A i \in DOMAIN todo' : todo'[i] \in {a, z}
    <2>1. <<a>> \o <<z>> \in Seq({a, z}) /\ <<z>> \in Seq({a, z}) /\ <<>> \in Seq({a, z})
        OBVIOUS
    <2>2. \A s \in Seq({a, z}) : <<>> \o s = s /\ s \o <<>> = s
        BY EmptyFact
    <2>3. todo' \in Seq({a, z})
        BY <1>10, <2>1, <2>2
    <2>. QED
        BY <2>3
<1>14. ~ RectLeft'
    BY <1>12, <1>13 DEF RectLeft
<1>15. /\ \A p : ~ FillStale(p)' /\ ~ AlphaStale(p)'
       /\ \A p : p # d => ~ FillStale(p) /\ ~ AlphaStale(p)
    BY <1>3, <1>4, <1>11, <1>14 DEF FillStale, AlphaStale, Filling
<1>16. fill[d] = NoFill
    <2>1. RectLeft /\ ~ HasFill(d)
        BY <1>1, <1>2 DEF RectLeft, HasFill
    <2>. QED
        BY <1>3, <1>4, <2>1 DEF AlphaInv, FillingTrue
<1>17. \A p, c : Plain(p, c)' <=> Plain(p, c)
    BY <1>10 DEF Plain
<1>18. FillTrue'
    BY <1>10, <1>15, <1>16 DEF AlphaInv, FillTrue, Plain
<1>19. me.alpha /\ d \in Alpha => Plain(d, Clear)
    BY <1>1, <1>2, <1>3, <1>4 DEF AlphaInv, FillingTrue
<1>20. AlphaTrue'
    <2>1. ASSUME NEW p \in Alpha, alpha_0'[p] PROVE Plain(p, Clear)
        <3>1. CASE p = d
            <4>1. alpha_0'[d] = me.alpha
                BY <1>10 DEF RenderInv, PictureType
            <4>. QED
                BY <1>19, <2>1, <3>1, <4>1
        <3>2. CASE p # d
            <4>1. alpha_0'[p] = alpha_0[p]
                BY <1>10, <3>2, RenderAssumption DEF RenderInv, PictureType
            <4>. QED
                BY <1>15, <2>1, <3>2, <4>1 DEF AlphaInv, AlphaTrue
        <3>. QED
            BY <3>1, <3>2
    <2>. QED
        BY <1>17, <2>1 DEF AlphaTrue
<1>21. ScanFill'
    BY <1>10 DEF AlphaInv, ScanFill
<1>22. FillingTrue'
    <2>1. /\ req.want.mask.colour # Clear
          /\ req.optimize <=> d \notin Scanout
          /\ IF req.want.src.pix = NoPixmap THEN req.want.src.colour = req.colour
             ELSE Plain(req.want.src.pix, req.colour)
        BY <1>3, <1>4 DEF AlphaInv, FillingTrue
    <2>2. \A i \in DOMAIN todo' : todo'[i].call # "rect"
        BY <1>12, <1>13
    <2>. QED
        BY <1>4, <1>11, <1>14, <1>17, <2>1, <2>2 DEF FillingTrue
<1>23. CopyTrue' /\ CompositeTrue'
    BY <1>3, <1>11 DEF CopyTrue, CompositeTrue, Filling
<1>. QED
    BY <1>18, <1>20, <1>21, <1>22, <1>23 DEF AlphaInv

\* The end of a fill: its job is left to submit.
LEMMA FilledJobAlpha ==
    ASSUME RenderInv, AlphaInv, req.kind \in Filling, todo = <<>>, req' = req,
           UNCHANGED <<ideal, alpha_0>>, fill' = fill,
           todo' = FlushDeferred(req.want.dst, TRUE, TRUE, TRUE) \o <<SubmitCall(req.ops, req.want.dst, {})>>
    PROVE  AlphaInv'
<1>1. PICK d \in Pixmaps : d = req.want.dst
    BY FillingFact
<1>2. PICK b \in Calls : b = FillCall(d, TRUE)
    BY DEF FillCall, Calls
<1>3. PICK c \in Calls : c = FlushCall(d, TRUE, TRUE)
    BY DEF FlushCall, Calls
<1>4. PICK ops \in Seq(Operations) : ops = req.ops
    BY FillingFact DEF Blit
<1>5. PICK z \in Calls : z = SubmitCall(ops, d, {})
    BY DEF SubmitCall, Calls
<1>6. b.call # "rect" /\ c.call # "rect" /\ z.call # "rect"
    BY <1>2, <1>3, <1>5 DEF FillCall, FlushCall, SubmitCall
<1>7. todo' = <<b, c>> \o <<z>>
    BY <1>1, <1>2, <1>3, <1>4, <1>5 DEF FlushDeferred
<1>8. Three(todo', b, c, z)
    BY <1>7, JoinFact
<1>9. \A i \in DOMAIN todo' : todo'[i].call # "rect"
    BY <1>6, <1>8 DEF Three
<1>10. ~ RectLeft /\ ~ RectLeft'
    <2>1. DOMAIN todo = {}
        OBVIOUS
    <2>. QED
        BY <1>9, <2>1 DEF RectLeft
<1>11. FillTrue' /\ AlphaTrue' /\ ScanFill'
    BY <1>10, PictureKept DEF AlphaInv, FillStale, AlphaStale
<1>12. \A p, a : Plain(p, a)' <=> Plain(p, a)
    BY DEF Plain
<1>13. FillingTrue'
    BY <1>9, <1>10, <1>12 DEF AlphaInv, FillingTrue
<1>14. CopyTrue' /\ CompositeTrue'
    BY DEF CopyTrue, CompositeTrue, Filling
<1>. QED
    BY <1>11, <1>13, <1>14 DEF AlphaInv

LEMMA DoneSolidAlpha == ASSUME RenderInv, AlphaInv, DoneSolid PROVE AlphaInv'
<1>1. /\ req.kind = "solid" /\ req.kind \in Filling /\ todo = <<>>
      /\ IF req.ops = <<>> THEN req' = Idle /\ todo' = todo
         ELSE /\ req' = req
              /\ todo' = FlushDeferred(req.want.dst, TRUE, TRUE, TRUE) \o
                         <<SubmitCall(req.ops, req.want.dst, {})>>
      /\ UNCHANGED <<ideal, alpha_0>> /\ fill' = fill
    BY DEF DoneSolid, AllDrawn, picture, Filling
<1>2. \A p : ~ FillStale(p) /\ ~ AlphaStale(p)
    BY <1>1, NotStale
<1>. QED
    BY <1>1, <1>2, EndedAlpha, FilledJobAlpha

\* The deferred fill of the destination of a copy goes first.
LEMMA CopiedJobAlpha ==
    ASSUME RenderInv, AlphaInv, req.kind = "copy", todo = <<>>, req' = req, req.rects = <<>>,
           UNCHANGED <<ideal, alpha_0>>, fill' = fill, HasFill(req.want.dst)'
    PROVE  AlphaInv'
<1>1. "copy" \notin Filling
    BY DEF Filling
<1>2. FillTrue' /\ AlphaTrue' /\ ScanFill'
    BY <1>1, PictureKept DEF AlphaInv, FillStale, AlphaStale
<1>3. CopyTrue'
    <2>1. PICK d : d = req.want.dst
        OBVIOUS
    <2>2. HasFill(d)'
        BY <2>1 DEF HasFill
    <2>. QED
        BY <2>1, <2>2 DEF AlphaInv, CopyTrue, Covering, HasFill
<1>4. FillingTrue' /\ CompositeTrue'
    BY <1>1 DEF FillingTrue, CompositeTrue
<1>. QED
    BY <1>2, <1>3, <1>4 DEF AlphaInv

LEMMA DoneCopyAlpha == ASSUME RenderInv, AlphaInv, DoneCopy PROVE AlphaInv'
<1>1. /\ req.kind \in {"copy", "copyfill"} /\ todo = <<>> /\ req.rects = <<>>
      /\ IF req.ops = <<>> THEN req' = Idle /\ todo' = todo
         ELSE /\ req' = req
              /\ todo' = (IF req.kind = "copy"
                          THEN FlushDeferred(req.want.src.pix, TRUE, FALSE, TRUE) ELSE <<>>)
                         \o FlushDeferred(req.want.dst, TRUE, TRUE, TRUE)
                         \o <<SubmitCall(req.ops, req.want.dst,
                                         IF req.kind = "copy" THEN {req.want.src.pix} ELSE {})>>
      /\ UNCHANGED <<ideal, alpha_0>> /\ fill' = fill
    BY DEF DoneCopy, AllDrawn, picture
<1>2. CASE req.ops = <<>>
    <2>1. \A p : ~ FillStale(p) /\ ~ AlphaStale(p)
        BY <1>1, <1>2, NotStale
    <2>. QED
        BY <1>1, <1>2, <2>1, EndedAlpha
<1>3. CASE req.ops # <<>> /\ req.kind = "copyfill"
    <2>1. req.kind \in Filling
        BY <1>3 DEF Filling
    <2>2. PICK d \in Pixmaps : d = req.want.dst
        BY <2>1, FillingFact
    <2>3. PICK b \in Calls : b = FillCall(d, TRUE)
        BY DEF FillCall, Calls
    <2>4. PICK c \in Calls : c = FlushCall(d, TRUE, TRUE)
        BY DEF FlushCall, Calls
    <2>5. PICK s : s = <<b, c>>
        OBVIOUS
    <2>6. s \in Seq(Calls) /\ s = FlushDeferred(req.want.dst, TRUE, TRUE, TRUE)
        <3>1. s \in Seq(Calls)
            BY <2>5
        <3>. QED
            BY <2>2, <2>3, <2>4, <2>5, <3>1 DEF FlushDeferred
    <2>7. <<>> \o s = s
        BY <2>6, EmptyFact
    <2>8. todo' = FlushDeferred(req.want.dst, TRUE, TRUE, TRUE) \o <<SubmitCall(req.ops, req.want.dst, {})>>
        BY <1>1, <1>3, <2>6, <2>7
    <2>. QED
        BY <1>1, <1>3, <2>1, <2>8, FilledJobAlpha
<1>4. CASE req.ops # <<>> /\ req.kind = "copy"
    <2>1. PICK s \in Pixmaps, d \in Pixmaps : s = req.want.src.pix /\ d = req.want.dst
        BY <1>4, CopyFact
    <2>2. PICK ops \in Seq(Operations) : ops = req.ops
        BY <1>4, CopyFact DEF Blit
    <2>3. PICK a \in Calls : a = FillCall(s, TRUE)
        BY DEF FillCall, Calls
    <2>4. PICK b \in Calls : b = FlushCall(s, FALSE, TRUE)
        BY DEF FlushCall, Calls
    <2>5. PICK c \in Calls : c = FillCall(d, TRUE)
        BY DEF FillCall, Calls
    <2>6. PICK e \in Calls : e = FlushCall(d, TRUE, TRUE)
        BY DEF FlushCall, Calls
    <2>7. PICK z \in Calls : z = SubmitCall(ops, d, {s})
        BY DEF SubmitCall, Calls
    <2>8. PICK v : v = <<a, b>>
        OBVIOUS
    <2>9. PICK w : w = <<c, e>> \o <<z>>
        OBVIOUS
    <2>10. v \in Seq(Calls) /\ Len(v) = 2
        BY <2>8
    <2>11. w \in Seq(Calls) /\ Len(w) = 3 /\ w[1] = c
        BY <2>9, JoinFact DEF Three
    <2>12. todo' = v \o w
        <3>1. todo' = (<<a, b>> \o <<c, e>>) \o <<z>>
            BY <1>1, <1>4, <2>1, <2>2, <2>3, <2>4, <2>5, <2>6, <2>7 DEF FlushDeferred
        <3>2. (<<a, b>> \o <<c, e>>) \o <<z>> = <<a, b>> \o (<<c, e>> \o <<z>>)
            OBVIOUS
        <3>. QED
            BY <2>8, <2>9, <3>1, <3>2
    <2>13. PICK u : u = v \o w
        OBVIOUS
    <2>14. 3 \in DOMAIN u /\ u[3] = c
        <3>1. /\ DOMAIN u = 1..(Len(v) + Len(w))
              /\ \A i \in 1..(Len(v) + Len(w)) : u[i] = IF i <= Len(v) THEN v[i] ELSE w[i - Len(v)]
            BY <2>10, <2>11, <2>13, ConcatFact
        <3>. QED
            BY <2>10, <2>11, <3>1
    <2>15. c.call = "fill" /\ c.pix = d
        BY <2>5 DEF FillCall
    <2>16. \E i \in DOMAIN todo' : todo'[i].call = "fill" /\ todo'[i].pix = d
        BY <2>12, <2>13, <2>14, <2>15
    <2>17. HasFill(req.want.dst)'
        BY <1>1, <1>4, <2>1, <2>16 DEF HasFill
    <2>. QED
        BY <1>1, <1>4, <2>17, CopiedJobAlpha
<1>. QED
    BY <1>1, <1>2, <1>3, <1>4

\* A copy that covers its destination is yet to come once the first
\* rectangle, which does not, is taken away.
LEMMA CoveringLeft ==
    ASSUME NEW q, NEW s \in Seq(Rectangles), s # <<>>, Head(s).cells # Cells(q.dst), Covering(q, s)
    PROVE  Covering(q, Tail(s))
<1>1. PICK i \in DOMAIN s : s[i].cells = Cells(q.dst)
    BY DEF Covering
<1>2. Len(s) \in Nat /\ Len(s) > 0 /\ DOMAIN s = 1..Len(s) /\ Head(s) = s[1]
    OBVIOUS
<1>3. /\ Tail(s) \in Seq(Rectangles) /\ Len(Tail(s)) = Len(s) - 1
      /\ \A j \in 1..(Len(s) - 1) : Tail(s)[j] = s[j + 1]
    BY <1>2
<1>4. DOMAIN Tail(s) = 1..(Len(s) - 1)
    BY <1>2, <1>3
<1>5. i # 1 /\ i - 1 \in 1..(Len(s) - 1) /\ (i - 1) + 1 = i
    BY <1>1, <1>2
<1>6. Tail(s)[i - 1] = s[i]
    BY <1>3, <1>5
<1>. QED
    BY <1>1, <1>4, <1>5, <1>6 DEF Covering

LEMMA CopyRectAlpha == ASSUME RenderInv, AlphaInv, CopyRect PROVE AlphaInv'
<1>1. req.kind = "copy" /\ NextRect({"copy"}) /\ req.kind \notin Filling /\ req.kind \in Blits
    BY DEF CopyRect, NextRect, Filling, Blits
<1>2. PICK s \in Pixmaps, d \in Pixmaps : s = req.want.src.pix /\ d = req.want.dst
    BY <1>1, CopyFact
<1>3. PICK R : R = Head(req.rects)
    OBVIOUS
<1>4. PICK all \in BOOLEAN : all = (R.cells = Cells(d))
    OBVIOUS
<1>5. PICK a \in BOOLEAN : a = (alpha_0[s] /\ (all \/ alpha_0[d]))
    OBVIOUS
<1>6. PICK ops : ops = Append(req.ops, Painting(R))
    OBVIOUS
<1>7. /\ IF req.optimize /\ all THEN fill' = [fill EXCEPT ![d] = NoFill] ELSE fill' = fill
      /\ alpha_0' = IF req.optimize THEN [alpha_0 EXCEPT ![d] = a] ELSE alpha_0
      /\ req' = [req EXCEPT !.rects = Tail(@), !.ops = ops]
      /\ todo' = todo
    BY <1>2, <1>3, <1>4, <1>5, <1>6 DEF CopyRect
<1>8. /\ todo = <<>> /\ req \in Blit /\ req.rects \in Seq(Rectangles) /\ req.rects # <<>>
      /\ ops # <<>> /\ req.want.mask.colour # Clear
    <2>1. req \in Blit /\ Painting(R) \in Operations
        BY <1>1, <1>3, CopyFact, RectsFact
    <2>2. PICK t \in Seq(Operations) : t = req.ops
        BY <2>1 DEF Blit
    <2>3. ops # <<>>
        BY <1>6, <2>1, <2>2
    <2>. QED
        BY <1>1, <2>1, <2>3 DEF AlphaInv, CopyTrue, Blit, NextRect
<1>9. /\ req'.kind = "copy" /\ req'.want = req.want /\ req'.rects = Tail(req.rects) /\ req'.ops = ops
      /\ req'.optimize = req.optimize
    BY <1>1, <1>7, <1>8 DEF Blit
<1>10. /\ \A p \in Pixmaps : fill'[p] = IF req.optimize /\ all /\ p = d THEN NoFill ELSE fill[p]
       /\ \A p \in Pixmaps : p # d => alpha_0'[p] = alpha_0[p]
       /\ alpha_0'[d] = IF req.optimize THEN a ELSE alpha_0[d]
    <2>1. fill \in [Pixmaps -> Colours \cup {NoFill}] /\ alpha_0 \in [Pixmaps -> BOOLEAN]
        BY DEF RenderInv, PictureType
    <2>. QED
        BY <1>7, <2>1
<1>11. \A p \in Pixmaps : p # d => ideal'[p] = ideal[p]
    BY <1>1, <1>2, <1>3, RectDrawn
<1>12. \A p \in Pixmaps : \A b : p # d => (Plain(p, b)' <=> Plain(p, b))
    BY <1>11 DEF Plain
<1>13. /\ FillStale(d)' /\ \A p : p # d => ~ FillStale(p)
       /\ \A p : ~ AlphaStale(p) /\ ~ AlphaStale(p)'
    BY <1>1, <1>2, <1>8, <1>9 DEF FillStale, AlphaStale, Filling
<1>14. FillTrue'
    <2>1. ASSUME NEW p \in Pixmaps, p # d, fill'[p] # NoFill PROVE Plain(p, fill[p])'
        <3>1. PICK b : b = fill[p]
            OBVIOUS
        <3>2. fill'[p] = b /\ fill[p] # NoFill
            BY <1>10, <2>1, <3>1
        <3>3. Plain(p, b)
            BY <1>13, <2>1, <3>1, <3>2 DEF AlphaInv, FillTrue
        <3>4. Plain(p, b)'
            BY <1>12, <2>1, <3>3
        <3>. QED
            BY <3>2, <3>4 DEF Plain
    <2>. QED
        BY <1>13, <2>1 DEF FillTrue
<1>15. ScanFill'
    BY <1>10, RenderAssumption DEF AlphaInv, ScanFill
<1>16. ASSUME d \in Alpha, alpha_0'[d] PROVE Plain(d, Clear)'
    <2>1. s \in Alpha /\ (req.optimize \/ ~ alpha_0[d])
        BY <1>1, <1>2, <1>16 DEF AlphaInv, CopyTrue
    <2>2. alpha_0[s] /\ (all \/ alpha_0[d])
        BY <1>5, <1>10, <1>16, <2>1
    <2>3. Plain(s, Clear) /\ (all \/ Plain(d, Clear))
        BY <1>13, <1>16, <2>1, <2>2 DEF AlphaInv, AlphaTrue
    <2>4. \A x \in Cells(d) : IF x \in R.cells THEN ideal'[d][x] = Clear ELSE ideal'[d][x] = ideal[d][x]
        <3>1. PICK t : t = req.want.src
            OBVIOUS
        <3>2. (t.pix = NoPixmap => t.colour = Clear) /\ (t.pix # NoPixmap => Plain(t.pix, Clear))
            BY <1>2, <2>3, <3>1, RenderAssumption
        <3>. QED
            BY <1>1, <1>2, <1>3, <1>8, <3>1, <3>2, BlitDrawn
    <2>. QED
        BY <1>4, <2>3, <2>4 DEF Plain
<1>17. AlphaTrue'
    <2>1. ASSUME NEW p \in Alpha, alpha_0'[p], p # d PROVE Plain(p, Clear)'
        <3>1. p \in Pixmaps
            BY RenderAssumption
        <3>2. Plain(p, Clear)
            BY <1>10, <1>13, <2>1, <3>1 DEF AlphaInv, AlphaTrue
        <3>. QED
            BY <1>12, <2>1, <3>1, <3>2
    <2>. QED
        BY <1>16, <2>1 DEF AlphaTrue
<1>18. CopyTrue'
    <2>1. d \in Alpha => /\ s \in Alpha
                         /\ fill[d] = NoFill \/ (req.optimize /\ Covering(req.want, req.rects))
                         /\ req.optimize \/ ~ alpha_0[d]
        BY <1>1, <1>2 DEF AlphaInv, CopyTrue
    <2>2. ~ all /\ Covering(req.want, req.rects) => Covering(req.want, Tail(req.rects))
        BY <1>2, <1>3, <1>4, <1>8, CoveringLeft
    <2>3. d \in Alpha => \/ fill'[d] = NoFill
                         \/ req.optimize /\ Covering(req.want, Tail(req.rects))
        BY <1>10, <2>1, <2>2
    <2>4. d \in Alpha => req.optimize \/ ~ alpha_0'[d]
        BY <1>10, <2>1
    <2>. QED
        BY <1>2, <1>7, <1>8, <1>9, <2>1, <2>3, <2>4 DEF CopyTrue, Covering
<1>19. FillingTrue' /\ CompositeTrue'
    BY <1>9 DEF FillingTrue, CompositeTrue, Filling
<1>. QED
    BY <1>14, <1>15, <1>17, <1>18, <1>19 DEF AlphaInv

\* An operand that draws nothing is clear wherever it is looked at.
LEMMA NothingDrawn ==
    ASSUME NEW t, NEW d, NEW op, op # "Copy", Nothing(t, d), t.pix = d => Plain(d, Clear), NEW y
    PROVE  Texel(ideal, op, t, y) = Clear
<1>1. CASE t.pix = NoPixmap
    BY <1>1 DEF Nothing, Texel
<1>2. CASE t.pix # NoPixmap
    <2>1. t.pix \in Alpha /\ Plain(t.pix, Clear)
        BY <1>2 DEF Nothing
    <2>2. \A x \in Cells(t.pix) : View(t.pix, ideal[t.pix][x]) = Clear
        BY <2>1 DEF Plain, View
    <2>3. "s" \in Cells(t.pix)
        BY CellsFact
    <2>. QED
        BY <1>2, <2>2, <2>3 DEF Texel
<1>. QED
    BY <1>1, <1>2

\* A texture that does not repeat is clear beyond its edge.
LEMMA BeyondDrawn ==
    ASSUME NEW m, NEW t, NEW op, op # "Copy", ~ IsSolid(t), ~ t.repeat, NEW y, y \notin Cells(t.pix)
    PROVE  Texel(m, op, t, y) = Clear
BY DEF Texel, IsSolid

LEMMA BlendFact ==
    ASSUME NEW op, NEW b, NEW s, NEW k, s = Clear \/ k = Clear
    PROVE  Blend(op, b, s, k) = IF op = "Over" THEN b ELSE Clear
BY DEF Blend

\* What a composite draws where one of its operands is clear.
LEMMA ClearDrawn ==
    ASSUME RenderInv, NextRect({"composite"}), NEW R, R = Head(req.rects), NEW q, q = req.want,
           NEW x \in Cells(q.dst),
           x \in R.cells => \/ Texel(ideal, q.op, q.src, From(R.shift, x)) = Clear
                            \/ Texel(ideal, q.op, q.mask, From(R.shift, x)) = Clear
    PROVE  \/ ideal'[q.dst][x] = ideal[q.dst][x]
           \/ x \in R.cells /\ q.op # "Over" /\ ideal'[q.dst][x] = Clear
<1>1. CASE x \in R.cells
    <2>1. ideal'[q.dst][x] = Blend(q.op, ideal[q.dst][x],
                                   Texel(ideal, q.op, q.src, From(R.shift, x)),
                                   Texel(ideal, q.op, q.mask, From(R.shift, x)))
        BY <1>1, RectDrawn
    <2>. QED
        BY <1>1, <2>1, BlendFact
<1>2. CASE x \notin R.cells
    BY <1>2, RectDrawn
<1>. QED
    BY <1>1, <1>2

\* A rectangle of a composite for which no operation is recorded changes
\* nothing, whether the composite is left out or all of it clipped.
LEMMA LeftOut ==
    ASSUME RenderInv, AlphaInv, CompositeRect, req'.ops = <<>>, NEW d, d = req.want.dst
    PROVE  req.ops = <<>> /\ \A x \in Cells(d) : ideal'[d][x] = ideal[d][x]
<1>1. req.kind = "composite" /\ NextRect({"composite"}) /\ todo = <<>>
    BY DEF CompositeRect, NextRect
<1>2. PICK R : R = Head(req.rects)
    OBVIOUS
<1>3. PICK q : q = req.want
    OBVIOUS
<1>4. /\ req \in Composite /\ q.op \in {"Src", "Over"} /\ d \in Pixmaps /\ d = q.dst
      /\ req.ops \in Seq(Operations)
    BY <1>1, <1>3, CompositeFact
<1>5. PICK cells : cells = Clipped(R)
    OBVIOUS
<1>6. PICK o : o = [op |-> req.op, dst |-> req.want.dst, src |-> req.src,
                    mask |-> req.mask, cells |-> cells, shift |-> R.shift]
    OBVIOUS
<1>7. PICK full : full = (req.full \/ R.cells = Cells(req.want.dst))
    OBVIOUS
<1>8. PICK ops : ops = IF cells = {} THEN req.ops ELSE Append(req.ops, o)
    OBVIOUS
<1>9. req' = IF req.out THEN [req EXCEPT !.rects = Tail(@)]
             ELSE [req EXCEPT !.rects = Tail(@), !.full = full, !.ops = ops]
    BY <1>2, <1>5, <1>6, <1>7, <1>8 DEF CompositeRect
<1>10. req'.ops = IF req.out THEN req.ops ELSE ops
    BY <1>4, <1>9 DEF Composite
<1>11. Append(req.ops, o) # <<>>
    <2>1. PICK s \in Seq(Operations) : s = req.ops
        BY <1>4
    <2>2. s \in Seq(Operations \cup {o})
        OBVIOUS
    <2>3. Append(s, o) # <<>>
        BY <2>2
    <2>. QED
        BY <2>1, <2>3
<1>12. req.ops = <<>> /\ (req.out \/ cells = {})
    BY <1>8, <1>10, <1>11
<1>13. \A p : ~ FillStale(p)
    BY <1>1, <1>12, NotStale DEF Filling
<1>14. CASE req.out
    <2>1. /\ ReducedTrue(req.src, q.src, d) /\ ReducedTrue(req.mask, q.mask, d)
          /\ IsEmpty(req.src) \/ IsEmpty(req.mask)
          /\ q.op = "Over" \/ fill[d] = Clear
        BY <1>1, <1>3, <1>4, <1>14 DEF AlphaInv, CompositeTrue
    <2>2. fill[d] = Clear => Plain(d, Clear)
        <3>1. Clear # NoFill
            BY DEF Clear, NoFill
        <3>. QED
            BY <1>4, <1>13, <3>1 DEF AlphaInv, FillTrue
    <2>3. PICK t \in {q.src, q.mask} : Nothing(t, d) /\ (t.pix = d => fill[d] = Clear)
        BY <1>14, <2>1 DEF ReducedTrue
    <2>4. \A y : Texel(ideal, q.op, t, y) = Clear
        BY <1>4, <2>2, <2>3, NothingDrawn
    <2>5. ASSUME NEW x \in Cells(d) PROVE ideal'[d][x] = ideal[d][x]
        <3>1. \/ ideal'[d][x] = ideal[d][x]
              \/ q.op # "Over" /\ ideal'[d][x] = Clear
            BY <1>1, <1>2, <1>3, <1>4, <2>3, <2>4, ClearDrawn
        <3>. QED
            BY <2>1, <2>2, <3>1 DEF Plain
    <2>. QED
        BY <1>12, <2>5
<1>15. CASE cells = {}
    <2>1. ASSUME NEW x \in Cells(d), x \in R.cells
          PROVE  /\ q.op = "Over"
                 /\ \E t \in {q.src, q.mask} : Texel(ideal, q.op, t, From(R.shift, x)) = Clear
        <3>1. q.op = "Over" /\ ~ (x \in Inside(req.src, R) /\ x \in Inside(req.mask, R))
            BY <1>3, <1>4, <1>5, <1>15, <2>1 DEF Clipped
        <3>2. PICK t \in {req.src, req.mask} :
                  ~ IsSolid(t) /\ ~ t.repeat /\ From(R.shift, x) \notin Cells(t.pix)
            BY <2>1, <3>1 DEF Inside
        <3>3. t \in {q.src, q.mask}
            BY <1>1, <1>3, <3>2 DEF AlphaInv, CompositeTrue, ReducedTrue
        <3>4. Texel(ideal, q.op, t, From(R.shift, x)) = Clear
            BY <3>1, <3>2, BeyondDrawn
        <3>. QED
            BY <3>1, <3>3, <3>4
    <2>2. ASSUME NEW x \in Cells(d) PROVE ideal'[d][x] = ideal[d][x]
        <3>1. x \in R.cells => \/ Texel(ideal, q.op, q.src, From(R.shift, x)) = Clear
                               \/ Texel(ideal, q.op, q.mask, From(R.shift, x)) = Clear
            BY <2>1, <2>2
        <3>2. \/ ideal'[d][x] = ideal[d][x]
              \/ x \in R.cells /\ q.op # "Over"
            BY <1>1, <1>2, <1>3, <1>4, <3>1, ClearDrawn
        <3>. QED
            BY <2>1, <2>2, <3>2
    <2>. QED
        BY <1>12, <2>2
<1>. QED
    BY <1>12, <1>14, <1>15

LEMMA CompositeRectAlpha == ASSUME RenderInv, AlphaInv, CompositeRect PROVE AlphaInv'
<1>1. /\ req.kind = "composite" /\ NextRect({"composite"}) /\ todo = <<>> /\ todo' = todo
      /\ fill' = fill /\ alpha_0' = alpha_0
    BY DEF CompositeRect, NextRect, pixmap
<1>2. PICK R : R = Head(req.rects)
    OBVIOUS
<1>3. PICK q : q = req.want
    OBVIOUS
<1>4. PICK d \in Pixmaps : d = q.dst /\ d = req.want.dst
    BY <1>1, <1>3, CompositeFact
<1>5. req \in Composite /\ q.op \in {"Src", "Over"}
    BY <1>1, <1>3, CompositeFact
<1>6. PICK cells : cells = Clipped(R)
    OBVIOUS
<1>7. PICK o : o = [op |-> req.op, dst |-> req.want.dst, src |-> req.src,
                    mask |-> req.mask, cells |-> cells, shift |-> R.shift]
    OBVIOUS
<1>8. PICK full : full = (req.full \/ R.cells = Cells(req.want.dst))
    OBVIOUS
<1>9. PICK ops : ops = IF cells = {} THEN req.ops ELSE Append(req.ops, o)
    OBVIOUS
<1>10. req' = IF req.out THEN [req EXCEPT !.rects = Tail(@)]
              ELSE [req EXCEPT !.rects = Tail(@), !.full = full, !.ops = ops]
    BY <1>2, <1>6, <1>7, <1>8, <1>9 DEF CompositeRect
<1>11. /\ req'.kind = "composite" /\ req'.want = q /\ req'.src = req.src /\ req'.mask = req.mask
       /\ req'.op = req.op /\ req'.out = req.out
    BY <1>1, <1>3, <1>5, <1>10 DEF Composite
<1>12. \A p \in Pixmaps : p # d => ideal'[p] = ideal[p]
    BY <1>1, <1>2, <1>3, <1>4, RectDrawn
<1>13. \A p \in Pixmaps : \A b : p # d => (Plain(p, b)' <=> Plain(p, b))
    BY <1>12 DEF Plain
<1>14. req'.ops = <<>> => req.ops = <<>> /\ \A b : Plain(d, b)' <=> Plain(d, b)
    BY <1>4, LeftOut DEF Plain
<1>15. /\ \A p : FillStale(p)' <=> req'.ops # <<>> /\ p = d
       /\ \A p : AlphaStale(p)' <=> req'.ops # <<>> /\ p = d
       /\ \A p : FillStale(p) <=> req.ops # <<>> /\ p = d
       /\ \A p : AlphaStale(p) <=> req.ops # <<>> /\ p = d
    BY <1>1, <1>4, <1>11, <1>3 DEF FillStale, AlphaStale, Filling
<1>16. \A p : (FillStale(p) => FillStale(p)') /\ (AlphaStale(p) => AlphaStale(p)')
    BY <1>14, <1>15
<1>17. ASSUME NEW p \in Pixmaps, NEW b, Plain(p, b), ~ FillStale(p)' \/ ~ AlphaStale(p)' PROVE Plain(p, b)'
    BY <1>13, <1>14, <1>15, <1>17
<1>18. FillTrue'
    <2>1. ASSUME NEW p \in Pixmaps, fill[p] # NoFill, ~ FillStale(p)' PROVE Plain(p, fill[p])'
        <3>1. PICK b : b = fill[p]
            OBVIOUS
        <3>2. Plain(p, b)
            BY <1>16, <2>1, <3>1 DEF AlphaInv, FillTrue
        <3>3. Plain(p, b)'
            BY <1>17, <2>1, <3>2
        <3>. QED
            BY <1>1, <3>1, <3>3 DEF Plain
    <2>. QED
        BY <1>1, <2>1 DEF FillTrue
<1>19. AlphaTrue'
    <2>1. ASSUME NEW p \in Alpha, alpha_0[p], ~ AlphaStale(p)' PROVE Plain(p, Clear)'
        <3>1. p \in Pixmaps /\ Plain(p, Clear)
            BY <1>16, <2>1, RenderAssumption DEF AlphaInv, AlphaTrue
        <3>. QED
            BY <1>17, <2>1, <3>1
    <2>. QED
        BY <1>1, <2>1 DEF AlphaTrue
<1>20. ScanFill'
    BY <1>1 DEF AlphaInv, ScanFill
<1>21. \A t : Nothing(t, d)' <=> Nothing(t, d)
    BY <1>13, RenderAssumption DEF Nothing
<1>22. /\ ReducedTrue(req.src, q.src, d) /\ ReducedTrue(req.mask, q.mask, d)
       /\ req.out => /\ IsEmpty(req.src) \/ IsEmpty(req.mask)
                     /\ q.op = "Over" \/ fill[d] = Clear
    BY <1>1, <1>3, <1>4 DEF AlphaInv, CompositeTrue
<1>23. /\ ReducedTrue(req.src, q.src, d)'
       /\ ReducedTrue(req.mask, q.mask, d)'
    <2>1. PICK src, mask, a, b : src = req.src /\ mask = req.mask /\ a = q.src /\ b = q.mask
        OBVIOUS
    <2>2. ReducedTrue(src, a, d) /\ ReducedTrue(mask, b, d)
        BY <1>22, <2>1
    <2>3. \A t, u : ReducedTrue(t, u, d) => (ReducedTrue(t, u, d))'
        BY <1>1, <1>11, <1>21 DEF ReducedTrue
    <2>4. (ReducedTrue(src, a, d))' /\ (ReducedTrue(mask, b, d))'
        BY <2>2, <2>3
    <2>. QED
        BY <1>11, <2>1, <2>4 DEF ReducedTrue, Nothing, Plain
<1>24. ASSUME d \in Alpha, alpha_0[d] \/ fill[d] = Clear, Nothing(q.src, d) \/ Nothing(q.mask, d)
       PROVE  Plain(d, Clear)'
    <2>1. Plain(d, Clear)
        BY <1>1, <1>3, <1>4, <1>24 DEF AlphaInv, CompositeTrue
    <2>2. PICK t \in {q.src, q.mask} : Nothing(t, d)
        BY <1>24
    <2>3. \A y : Texel(ideal, q.op, t, y) = Clear
        BY <1>5, <2>1, <2>2, NothingDrawn
    <2>4. ASSUME NEW x \in Cells(d) PROVE ideal'[d][x] = Clear
        <3>1. ideal'[d][x] = ideal[d][x] \/ ideal'[d][x] = Clear
            BY <1>1, <1>2, <1>3, <1>4, <2>2, <2>3, ClearDrawn
        <3>. QED
            BY <2>1, <3>1 DEF Plain
    <2>. QED
        BY <2>4 DEF Plain
<1>25. CompositeTrue'
    BY <1>1, <1>4, <1>11, <1>21, <1>22, <1>23, <1>24 DEF CompositeTrue, ReducedTrue, Nothing, Plain
<1>26. FillingTrue' /\ CopyTrue'
    BY <1>11 DEF FillingTrue, CopyTrue, Filling
<1>. QED
    BY <1>18, <1>19, <1>20, <1>25, <1>26 DEF AlphaInv

LEMMA DoneCompositeAlpha == ASSUME RenderInv, AlphaInv, DoneComposite PROVE AlphaInv'
<1>1. /\ req.kind = "composite" /\ todo = <<>> /\ UNCHANGED <<ideal, alpha_0>> /\ fill' = fill
      /\ IF req.ops = <<>> THEN req' = Idle ELSE req' = req
    BY DEF DoneComposite, AllDrawn, picture, pixmap
<1>2. CASE req.ops = <<>>
    <2>1. \A p : ~ FillStale(p) /\ ~ AlphaStale(p)
        BY <1>1, <1>2, NotStale DEF Filling
    <2>. QED
        BY <1>1, <1>2, <2>1, EndedAlpha
<1>3. CASE req.ops # <<>>
    <2>1. req' = req /\ ~ req.out
        BY <1>1, <1>3, CompositeFact DEF ReqInv
    <2>2. FillTrue' /\ AlphaTrue' /\ ScanFill'
        BY <1>1, <2>1, PictureKept DEF AlphaInv, FillStale, AlphaStale, Filling
    <2>3. \A p, c : Plain(p, c)' <=> Plain(p, c)
        BY <1>1 DEF Plain
    <2>4. \A t, p : Nothing(t, p)' <=> Nothing(t, p)
        BY <2>3 DEF Nothing
    <2>5. CompositeTrue'
        BY <1>1, <2>1, <2>3, <2>4 DEF AlphaInv, CompositeTrue, ReducedTrue
    <2>6. FillingTrue' /\ CopyTrue'
        BY <1>1, <2>1 DEF FillingTrue, CopyTrue, Filling
    <2>. QED
        BY <2>2, <2>5, <2>6 DEF AlphaInv
<1>. QED
    BY <1>2, <1>3

\* What alpha_0 says of a composite is what was asked for.
LEMMA ZeroNothing ==
    ASSUME RenderInv, AlphaInv, req.kind = "composite", NEW d, d = req.want.dst,
           NEW t, NEW asked, ReducedTrue(t, asked, d), ZeroTexture(t), asked \in Operands
    PROVE  Nothing(asked, d)
<1>1. CASE IsSolid(t)
    BY <1>1 DEF ZeroTexture, ReducedTrue
<1>2. CASE ~ IsSolid(t)
    <2>1. t = asked /\ t.pix \in Alpha /\ alpha_0[t.pix]
        BY <1>2 DEF ZeroTexture, ReducedTrue
    <2>2. t.pix = d \/ ~ AlphaStale(t.pix)
        BY DEF AlphaStale
    <2>3. t.pix = d \/ Plain(t.pix, Clear)
        BY <2>1, <2>2 DEF AlphaInv, AlphaTrue
    <2>. QED
        BY <1>2, <2>1, <2>3 DEF Nothing, IsSolid
<1>. QED
    BY <1>1, <1>2

LEMMA AppendJobAlpha == ASSUME RenderInv, AlphaInv, AppendJob PROVE AlphaInv'
<1>1. todo # <<>> /\ me.call = "append" /\ me.call \notin Middle
    BY DEF AppendJob, At, me, Middle
<1>2. /\ DOMAIN todo = {1} /\ todo[1] = me /\ me \in Calls /\ me.call \in Final(req.kind)
    BY <1>1, LastFactCall DEF RenderInv
<1>3. req.kind = "composite"
    BY <1>1, <1>2 DEF Final, Filling
<1>4. me.src = Fetched /\ (req.want.dst = batch.cur \/ Filled(1, req.want.dst))
    BY <1>1, <1>2 DEF RenderInv, Agenda, AppendAgenda
<1>5. PICK d \in Pixmaps : d = req.want.dst
    BY <1>3, CompositeFact
<1>6. fill[d] = NoFill
    <2>1. d # NoPixmap
        BY RenderAssumption
    <2>2. d = batch.cur => InBatch(d)
        BY <2>1 DEF RenderInv, GpuInv, BatchInv
    <2>3. d = batch.cur => fill[d] = NoFill
        BY <2>2 DEF RenderInv, FillInv
    <2>4. ~ \E j \in 1..(1 - 1) : todo[j].call = "fill" /\ todo[j].pix = d
        OBVIOUS
    <2>. QED
        BY <1>4, <1>5, <2>3, <2>4 DEF Filled
<1>7. PICK a : a = CompositeAlpha(d)
    OBVIOUS
<1>8. /\ req' = Idle /\ UNCHANGED ideal /\ fill' = fill
      /\ alpha_0' = [alpha_0 EXCEPT ![d] = a]
    BY <1>5, <1>7 DEF AppendJob, picture
<1>9. \A p, c : Plain(p, c)' <=> Plain(p, c)
    BY <1>8 DEF Plain
<1>10. \A p : p # d => ~ FillStale(p) /\ ~ AlphaStale(p)
    BY <1>5 DEF FillStale, AlphaStale
<1>11. FillTrue'
    BY <1>6, <1>8, <1>10 DEF AlphaInv, FillTrue, Plain
<1>12. ASSUME d \in Alpha, a PROVE Plain(d, Clear)
    <2>1. alpha_0[d] /\ (ZeroTexture(me.src) \/ ZeroTexture(req.mask))
        BY <1>7, <1>12 DEF CompositeAlpha
    <2>2. PICK src, mask : src = req.want.src /\ mask = req.want.mask
        OBVIOUS
    <2>3. ReducedTrue(req.src, src, d) /\ ReducedTrue(req.mask, mask, d)
        BY <1>3, <1>5, <2>2 DEF AlphaInv, CompositeTrue
    <2>4. src \in Operands /\ mask \in Operands
        BY <1>3, <2>2, CompositeFact, RequestFact
    <2>5. ZeroTexture(req.src) => Nothing(src, d)
        BY <1>3, <1>5, <2>3, <2>4, ZeroNothing
    <2>6. ZeroTexture(req.mask) => Nothing(mask, d)
        BY <1>3, <1>5, <2>3, <2>4, ZeroNothing
    <2>7. ZeroTexture(me.src) => ZeroTexture(req.src) \/ ZeroTexture(req.mask)
        <3>1. CASE IsEmpty(req.mask)
            BY <3>1 DEF ZeroTexture, IsEmpty
        <3>2. CASE ~ IsEmpty(req.mask)
            BY <1>4, <3>2 DEF Fetched
        <3>. QED
            BY <3>1, <3>2
    <2>. QED
        BY <1>3, <1>5, <1>12, <2>1, <2>2, <2>5, <2>6, <2>7 DEF AlphaInv, CompositeTrue
<1>13. AlphaTrue'
    <2>1. ASSUME NEW p \in Alpha, alpha_0'[p] PROVE Plain(p, Clear)
        <3>1. CASE p = d
            <4>1. alpha_0'[d] = a
                BY <1>8 DEF RenderInv, PictureType
            <4>. QED
                BY <1>12, <2>1, <3>1, <4>1
        <3>2. CASE p # d
            <4>1. alpha_0'[p] = alpha_0[p]
                BY <1>8, <3>2, RenderAssumption DEF RenderInv, PictureType
            <4>. QED
                BY <1>10, <2>1, <3>2, <4>1 DEF AlphaInv, AlphaTrue
        <3>. QED
            BY <3>1, <3>2
    <2>. QED
        BY <1>9, <2>1 DEF AlphaTrue
<1>14. ScanFill'
    BY <1>8 DEF AlphaInv, ScanFill
<1>. QED
    BY <1>8, <1>11, <1>13, <1>14, IdleAlpha

\* Operations that draw to one pixmap leave the others as they are.
LEMMA DrawnAll ==
    ASSUME NEW m \in Maps, NEW ops \in Seq(Operations), NEW d, \A i \in DOMAIN ops : ops[i].dst = d
    PROVE  \A p \in Pixmaps : p # d => DrawAll(m, ops)[p] = m[p]
<1>1. PICK k : /\ DrawAll(m, ops) = k[Len(ops)]
               /\ k[0] = m
               /\ \A i \in 1..Len(ops) : k[i] = Draw(k[i - 1], ops[i])
    BY DrawAllStep
<1>2. Len(ops) \in Nat /\ \A i \in 1..Len(ops) : ops[i] \in Operations /\ ops[i].dst = d
    OBVIOUS
<1>. DEFINE A == {n \in Nat : n <= Len(ops) => k[n] \in Maps /\ \A p \in Pixmaps : p # d => k[n][p] = m[p]}
<1>3. 0 \in A
    BY <1>1
<1>4. ASSUME NEW n \in 0..(Len(ops) - 1), n \in A PROVE n + 1 \in A
    <2>1. n + 1 \in 1..Len(ops) /\ (n + 1) - 1 = n
        BY <1>2
    <2>2. k[n] \in Maps /\ \A p \in Pixmaps : p # d => k[n][p] = m[p]
        BY <1>2, <1>4
    <2>3. PICK o \in Operations : o = ops[n + 1] /\ o.dst = d
        BY <1>2, <2>1
    <2>4. k[n + 1] = Draw(k[n], o)
        BY <1>1, <2>1, <2>3
    <2>5. k[n + 1] \in Maps
        BY <2>2, <2>4, DrawFact
    <2>6. \A p \in Pixmaps : p # d => k[n + 1][p] = k[n][p]
        BY <2>2, <2>3, <2>4, DrawnFact
    <2>. QED
        BY <1>2, <2>1, <2>2, <2>5, <2>6
<1>5. 0..Len(ops) \subseteq A
    <2>. HIDE DEF A
    <2>. QED
        BY <1>2, <1>3, <1>4, UpTo
<1>6. Len(ops) \in A
    <2>. HIDE DEF A
    <2>. QED
        BY <1>2, <1>5
<1>. QED
    BY <1>1, <1>6

LEMMA SoftwareAlpha == ASSUME RenderInv, AlphaInv, Software PROVE AlphaInv'
<1>1. todo # <<>> /\ me.call = "software" /\ me.call \notin Middle
    BY DEF Software, At, me, Middle
<1>2. /\ me.call \in Final(req.kind) /\ req # Idle /\ DOMAIN todo = {1} /\ todo[1] = me
    BY <1>1, LastFactCall DEF RenderInv
<1>3. req.kind = "soft"
    BY <1>1, <1>2 DEF Final, Filling
<1>4. /\ req \in Access2 /\ \A i \in DOMAIN req.rects : Painting(req.rects[i]) \in Operations
    BY <1>2, <1>3 DEF RenderInv, Agenda, ReqType, Blit, Composite, Blits, Filling
<1>5. PICK d \in Pixmaps : d = req.want.dst
    BY <1>4, RequestFact DEF Access2
<1>6. PICK ops : ops = [i \in DOMAIN req.rects |-> Painting(req.rects[i])]
    OBVIOUS
<1>7. ops \in Seq(Operations) /\ \A i \in DOMAIN ops : ops[i].dst = d
    <2>1. PICK s \in Seq(Rectangles) : s = req.rects
        BY <1>4 DEF Access2
    <2>2. Len(s) \in Nat /\ DOMAIN s = 1..Len(s)
        OBVIOUS
    <2>3. ops \in [1..Len(s) -> Operations]
        BY <1>4, <1>6, <2>1, <2>2
    <2>4. \A i \in DOMAIN ops : ops[i].dst = d
        BY <1>5, <1>6 DEF Painting, Asked
    <2>. QED
        BY <2>2, <2>3, <2>4
<1>8. PICK b \in BOOLEAN : b = FALSE
    OBVIOUS
<1>9. /\ ideal' = DrawAll(ideal, ops) /\ alpha_0' = [alpha_0 EXCEPT ![d] = b]
      /\ req' = Idle /\ fill' = fill
    BY <1>5, <1>6, <1>8 DEF Software
<1>10. \A p \in Pixmaps : p # d => ideal'[p] = ideal[p]
    BY <1>7, <1>9, DrawnAll DEF RenderInv, PictureType
<1>11. fill[d] = NoFill
    <2>1. \A i \in DOMAIN todo : todo[i].call # "wait"
        BY <1>1, <1>2
    <2>2. \A u \in Accessed : fill[u[1]] = NoFill
        BY <2>1 DEF RenderInv, Agenda, AccessAgenda
    <2>3. PICK t \in BOOLEAN : t = TRUE
        OBVIOUS
    <2>4. PICK u : u = <<d, t>>
        OBVIOUS
    <2>5. u \in Accessed /\ u[1] = d
        BY <1>3, <1>5, <2>3, <2>4 DEF Accessed
    <2>. QED
        BY <2>2, <2>5
<1>12. \A p \in Pixmaps : \A c : p # d /\ Plain(p, c) => Plain(p, c)'
    BY <1>10 DEF Plain
<1>13. \A p : ~ FillStale(p) /\ ~ AlphaStale(p)
    BY <1>3, NotStale DEF Filling
<1>14. FillTrue'
    <2>1. ASSUME NEW p \in Pixmaps, fill[p] # NoFill PROVE Plain(p, fill[p])'
        <3>1. PICK c : c = fill[p]
            OBVIOUS
        <3>2. Plain(p, c) /\ p # d
            BY <1>11, <1>13, <2>1, <3>1 DEF AlphaInv, FillTrue
        <3>3. Plain(p, c)'
            BY <1>12, <3>2
        <3>. QED
            BY <1>9, <3>1, <3>3 DEF Plain
    <2>. QED
        BY <1>9, <2>1 DEF FillTrue
<1>15. AlphaTrue'
    <2>1. ASSUME NEW p \in Alpha, alpha_0'[p] PROVE Plain(p, Clear)'
        <3>1. p \in Pixmaps
            BY RenderAssumption
        <3>2. \A x \in Pixmaps : alpha_0'[x] = IF x = d THEN b ELSE alpha_0[x]
            BY <1>9 DEF RenderInv, PictureType
        <3>3. p # d /\ alpha_0[p]
            BY <1>8, <2>1, <3>1, <3>2
        <3>4. Plain(p, Clear)
            BY <1>13, <3>3 DEF AlphaInv, AlphaTrue
        <3>. QED
            BY <1>12, <3>1, <3>3, <3>4
    <2>. QED
        BY <2>1 DEF AlphaTrue
<1>16. ScanFill'
    BY <1>9 DEF AlphaInv, ScanFill
<1>. QED
    BY <1>9, <1>14, <1>15, <1>16, IdleAlpha

LEMMA ExecuteAlpha == ASSUME AlphaInv, NEW e \in Engines, Execute(e) PROVE AlphaInv'
<1>1. UNCHANGED <<ideal, alpha_0, req>> /\ todo' = todo /\ fill' = fill
    BY DEF Execute, pixmap
<1>. QED
    BY <1>1, StutterAlpha

LEMMA InitAlpha == Init => AlphaInv
<1>. SUFFICES ASSUME Init PROVE AlphaInv
    OBVIOUS
<1>1. /\ fill = [p \in Pixmaps |-> NoFill] /\ req.kind = "idle"
      /\ \A p \in Pixmaps : ideal[p] = [x \in Cells(p) |-> Clear]
    BY DEF Init, Idle
<1>2. FillTrue /\ ScanFill
    BY <1>1, RenderAssumption DEF FillTrue, ScanFill
<1>3. AlphaTrue
    BY <1>1, RenderAssumption DEF AlphaTrue, Plain
<1>4. FillingTrue /\ CopyTrue /\ CompositeTrue
    BY <1>1 DEF FillingTrue, CopyTrue, CompositeTrue, Filling
<1>. QED
    BY <1>2, <1>3, <1>4 DEF AlphaInv

LEMMA NextAlpha == ASSUME NoA8, WholeCopies, RenderInv, AlphaInv, [Next]_vars PROVE AlphaInv'
<1>1. CASE Prepare
    BY <1>1, PrepareSolidAlpha, PrepareCopyAlpha, PrepareRotatedAlpha, PrepareCompositeAlpha,
       PrepareAccessAlpha DEF Prepare
<1>2. CASE DeferFill \/ SkipFill \/ PartialFill \/ FillRect \/ DoneSolid \/ CopyRect \/ DoneCopy
    BY <1>2, DeferFillAlpha, SkipFillAlpha, PartialFillAlpha, FillRectAlpha, DoneSolidAlpha,
       CopyRectAlpha, DoneCopyAlpha
<1>3. CASE CompositeRect \/ DoneComposite \/ AppendJob \/ Software \/ Look
    BY <1>3, CompositeRectAlpha, DoneCompositeAlpha, AppendJobAlpha, SoftwareAlpha, LookAlpha
<1>4. CASE FillDeferred \/ FlushDeferred3D \/ SubmitJob \/ Wait \/ Poke
    BY <1>4, FillDeferredAlpha, FlushAlpha, SubmitAlpha, WaitAlpha, PokeAlpha
<1>5. CASE TimerFires \/ \E e \in Engines : Execute(e)
    BY <1>5, TimerAlpha, ExecuteAlpha
<1>6. CASE Rest \/ UNCHANGED vars
    <2>1. UNCHANGED <<ideal, alpha_0, req>> /\ todo' = todo /\ fill' = fill
        BY <1>6 DEF Rest, vars
    <2>. QED
        BY <2>1, StutterAlpha
<1>. QED
    BY <1>1, <1>2, <1>3, <1>4, <1>5, <1>6 DEF Next, Server

LEMMA AlphaFact == ASSUME AlphaInv PROVE AlphaIsZero
<1>1. req = Idle => \A p : ~ AlphaStale(p)
    BY NotStale DEF Idle, Filling
<1>. QED
    BY <1>1 DEF AlphaInv, AlphaTrue, AlphaIsZero, Plain

-----------------------------------------------------------------------------
(* The theorems.                                                           *)

\* The invariant that the others rest on: the fences that the pixmaps hold
\* are those of jobs that are done, queued or deferred, and the calls of a
\* request come in an order that sees to what each of them relies on.
THEOREM RenderInvariant == ASSUME NoUnfetched PROVE Spec => []RenderInv
<1>1. ASSUME RenderInv, [Next]_vars PROVE RenderInv'
    BY <1>1, NextInv
<1>. QED
    BY InitInv, <1>1, PTL DEF Spec

\* The processor and the engines never use a pixmap at the same time unless
\* all of them read it: the flushes, the waits and the explicit fence of a
\* job order every access after those it conflicts with.
THEOREM AlwaysExclusive == ASSUME NoUnfetched PROVE Spec => []Exclusive
<1>1. RenderInv => Exclusive
    BY ExclusiveFact
<1>. QED
    BY <1>1, RenderInvariant, PTL

\* The engines never wait for each other in a cycle, nor for a fence that no
\* queued job signals, however many jobs each of them has.
THEOREM EnginesRun == ASSUME NoUnfetched PROVE Spec => []GpuNeverStuck
<1>1. RenderInv => GpuNeverStuck
    BY NeverStuck DEF RenderInv
<1>. QED
    BY <1>1, RenderInvariant, PTL

\* The assertions of TEGRA_WAIT_FENCE() and tegra_stream_submit_v2(): a fence
\* that is waited for belongs to a job that was submitted.
THEOREM WaitedActive == ASSUME NoUnfetched PROVE Spec => []FencesActive
<1>1. RenderInv => FencesActive
    BY ActiveFact
<1>. QED
    BY <1>1, RenderInvariant, PTL

\* While a composite is being added to the deferred job, the flushes of the
\* fills deferred for its pixmaps do not submit that job.
THEOREM NeverNested == ASSUME NoUnfetched PROVE Spec => []NoNestedFlush
<1>1. RenderInv => NoNestedFlush
    BY NestedFact
<1>. QED
    BY <1>1, RenderInvariant, PTL

\* The references of a fence are those of the pixmaps, the streams and the
\* deferred job that keep it: TEGRA_FENCE_GET and TEGRA_FENCE_PUT balance on
\* every path, the refused submissions and the dropped batch included.
THEOREM RefsAlways == ASSUME NoUnfetched PROVE Spec => []RefsExact
<1>1. Init => RefsExact
    BY InitCounts
<1>2. ASSUME RenderInv, RefsExact, [Next]_vars PROVE RefsExact'
    BY <1>2, NextRefs
<1>. QED
    BY <1>1, <1>2, RenderInvariant, PTL DEF Spec

\* As long as no copy is rotated, freezer_lockcnt of a pixmap is the number
\* of its uses by the request and by the deferred job; and the references of
\* the fences are exact.
THEOREM CountsAlways == ASSUME NoUnfetched, NoRotation PROVE Spec => []CountsExact
<1>1. Init => LocksExact
    BY InitCounts
<1>2. ASSUME RenderInv, LocksExact, [Next]_vars PROVE LocksExact'
    BY <1>2, NextLocks
<1>3. RefsExact /\ LocksExact => CountsExact
    BY DEF CountsExact
<1>. QED
    BY <1>1, <1>2, <1>3, RenderInvariant, RefsAlways, PTL DEF Spec

\* The variables have their types; freezer_lockcnt does not underflow.
THEOREM TypeCorrect == ASSUME NoUnfetched, NoRotation PROVE Spec => []TypeOK
<1>1. Init => LockDomain
    BY InitCounts
<1>2. ASSUME LockDomain, [Next]_vars PROVE LockDomain'
    BY <1>2, NextDomain
<1>3. CountsExact => LocksExact
    BY DEF CountsExact
<1>4. ASSUME RenderInv, LocksExact, LockDomain PROVE TypeOK
    BY <1>4, TypeFact
<1>. QED
    BY <1>1, <1>2, <1>3, <1>4, RenderInvariant, CountsAlways, PTL DEF Spec

\* Between requests alpha_0 of a pixmap with an alpha channel is what exa.h
\* says of it: all of the pixmap is clear, whatever fills are deferred and
\* whatever was left out on the strength of it.  It takes pixmaps of more
\* than one byte per pixel, and copies onto pixmaps with an alpha channel
\* that come from one, cover the destination, and are not rotated.
THEOREM AlphaAlways == ASSUME NoUnfetched, NoA8, WholeCopies PROVE Spec => []AlphaIsZero
<1>1. Init => AlphaInv
    BY InitAlpha
<1>2. ASSUME RenderInv, AlphaInv, [Next]_vars PROVE AlphaInv'
    BY <1>2, NextAlpha
<1>3. AlphaInv => AlphaIsZero
    BY AlphaFact
<1>. QED
    BY <1>1, <1>2, <1>3, RenderInvariant, PTL DEF Spec
=============================================================================
