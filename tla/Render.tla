------------------------------- MODULE Render -------------------------------
(***************************************************************************)
(* Accelerated drawing: src/src/exa (solid_2d.c, copy_2d.c,                *)
(* composite_3d.c, cpu_access.c, optimizations*.c) over the job streams    *)
(* and fences of src/src/gpu.                                              *)
(*                                                                         *)
(* One thread, the X server, serves one request at a time.  The 2D and the *)
(* 3D engine execute the jobs submitted to them, each in the order of      *)
(* submission, a job only after the fence the job was told to wait for.    *)
(* A solid fill of a whole pixmap is not drawn but deferred; composites    *)
(* are collected in one 3D job that a timer submits at the latest.         *)
(*                                                                         *)
(* todo holds the calls that the function being executed has yet to make,  *)
(* so that the engines can proceed between any two of them.                *)
(***************************************************************************)
EXTENDS Drawing, FiniteSets

CONSTANTS
    Scanout,        \* the pixmaps that are displayed
    A8,             \* the pixmaps of one byte per pixel
    Requests,       \* what the clients may ask for
    MaxRequests,    \* bound on the number of requests
    MaxFences,      \* bound on the fences
    MaxPixmaps,     \* size of tegra_3d_state.pixmaps
    SubmitMayFail   \* whether the kernel may refuse a job

ASSUME RenderAssumption ==
    /\ IsFiniteSet(Pixmaps) /\ NoPixmap \notin Pixmaps
    /\ Large \subseteq Pixmaps /\ Alpha \subseteq Pixmaps
    /\ Scanout \subseteq Pixmaps /\ A8 \subseteq Alpha
    /\ MaxRequests \in Nat /\ MaxFences \in Nat \ {0} /\ MaxPixmaps \in Nat
    /\ SubmitMayFail \in BOOLEAN

Rectangles == [cells : SUBSET {"s", "l"}, shift : BOOLEAN]

(* The operation a rectangle of a request asks for.                        *)
Asked(q, R) == [op |-> q.op, dst |-> q.dst, src |-> q.src, mask |-> q.mask,
                cells |-> R.cells, shift |-> R.shift]

(* The hooks of EXA and their arguments.                                   *)
ASSUME RequestsAssumption == \A q \in Requests :
    /\ q.kind \in {"solid", "copy", "rotate", "composite", "soft", "look"}
    /\ q.dst \in Pixmaps /\ q.src \in Operands /\ q.mask \in Operands
    /\ q.rects \in Seq(Rectangles)
    /\ \A i \in DOMAIN q.rects : Asked(q, q.rects[i]) \in Operations
    /\ q.kind \in {"solid", "copy", "rotate"} =>
          q.op = "Copy" /\ q.mask.pix = NoPixmap /\ q.mask.colour # Clear
    /\ q.kind = "solid" => q.src.pix = NoPixmap
    /\ q.kind \in {"copy", "rotate"} => q.src.pix # NoPixmap
    /\ q.kind = "composite" => q.op \in {"Src", "Over"}

VARIABLES
    mem,       \* contents of the pixmaps in memory
    ideal,     \* contents the requests made so far ask for
    seen,      \* what the processor read last
    fill,      \* state.solid_color of a pixmap if state.solid_fill is set
    alpha_0,   \* state.alpha_0
    lockcnt,   \* freezer_lockcnt
    held,      \* fence_write and fence_read of every pixmap and engine
    fence,     \* state of every fence: "none", "new", "active", "marked"
    refs,      \* references to every fence
    seqno,     \* fence_seqno of the next fence
    last,      \* last_fence of both engines
    batch,     \* gr3d_state: the deferred 3D job
    queue,     \* the jobs the kernel has for both engines
    signalled, \* the fences whose jobs are executed
    req,       \* the request being served
    todo,      \* the calls it has yet to make
    served     \* the number of requests so far

vars == <<mem, ideal, seen, fill, alpha_0, lockcnt, held, fence, refs, seqno,
          last, batch, queue, signalled, req, todo, served>>

picture == <<mem, ideal, seen>>
pixmap  == <<fill, alpha_0, lockcnt>>
gpu     == <<queue, signalled>>
fences  == <<held, fence, refs, seqno, last>>

Engines  == {"2D", "3D"}
Fences   == 1..MaxFences
NoFence  == 0
NoFill   == -1
Idle     == [kind |-> "idle"]

(* A fence slot is <<pixmap, engine, "write" or "read">>.                  *)
Slots == Pixmaps \X Engines \X {"write", "read"}

Written(p) == {<<p, e, "write">> : e \in Engines}
Read(p)    == {<<p, e, "read">> : e \in Engines}

-----------------------------------------------------------------------------
(* Fences.                                                                 *)

(* A fence not yet active counts as completed, and so does no fence.       *)
Completed(f) == f # NoFence /\ fence[f] = "active" => f \in signalled

(* TEGRA_FENCE_GET and TEGRA_FENCE_PUT of the fences of two sequences.     *)
Count(r, gets, puts) ==
    [f \in Fences |-> r[f] + Cardinality({i \in DOMAIN gets : gets[i] = f})
                           - Cardinality({i \in DOMAIN puts : puts[i] = f})]

(* The references once the slots S hold f instead of what they held.       *)
Replaced(r, S, f) ==
    LET old == {s \in S : held[s] # f}
    IN  [g \in Fences |-> r[g] + (IF g = f THEN Cardinality(old) ELSE 0)
                               - Cardinality({s \in old : held[s] = g})]

Hold(S, f) == held' = [s \in Slots |-> IF s \in S THEN f ELSE held[s]]

Latest(S) == Max({NoFence} \cup S)

\* Mutant of ExplicitFence: the jobs that read the destination are forgotten.
ExplicitFenceWrites(e, dst, srcs) ==
    Latest({held[<<p, e, "write">>] : p \in srcs \cup {dst}})

(* The latest fence of the engine e that a job drawing to dst from srcs    *)
(* has to wait for.                                                        *)
ExplicitFence(e, dst, srcs) ==
    Latest({held[<<p, e, "write">>] : p \in srcs \cup {dst}}
           \cup {held[<<dst, e, "read">>]})

(* What the kernel makes of it: a completed fence has no syncobj.          *)
KernelFence(x) == IF x = NoFence \/ fence[x] = "marked" THEN NoFence ELSE x

\* Mutant of Submit: the fence of a refused job stays inactive.
SubmitUnmarked(e, f, ops, x, out) ==
    \/ /\ out = f
       /\ queue' = [queue EXCEPT ![e] =
              Append(@, [ops |-> ops, wait |-> KernelFence(x), fence |-> f])]
       /\ fence' = [fence EXCEPT ![f] = "active"]
       /\ last' = [last EXCEPT ![e] = f]
    \/ /\ SubmitMayFail /\ out = NoFence
       /\ Completed(last[e])
       /\ fence' = [fence EXCEPT ![f] = "new"]
       /\ last' = [last EXCEPT ![e] = NoFence]
       /\ UNCHANGED queue

(* tegra_stream_submit(): out is the fence returned, f on success.  The    *)
(* kernel refusing the job, the fence counts as completed and the last     *)
(* job of the engine is waited for.                                        *)
Submit(e, f, ops, x, out) ==
    \/ /\ out = f
       /\ queue' = [queue EXCEPT ![e] =
              Append(@, [ops |-> ops, wait |-> KernelFence(x), fence |-> f])]
       /\ fence' = [fence EXCEPT ![f] = "active"]
       /\ last' = [last EXCEPT ![e] = f]
    \/ /\ SubmitMayFail /\ out = NoFence
       /\ Completed(last[e])
       /\ fence' = [fence EXCEPT ![f] = "marked"]
       /\ last' = [last EXCEPT ![e] = NoFence]
       /\ UNCHANGED queue

-----------------------------------------------------------------------------
(* The deferred 3D job.                                                    *)

NoUse == [refcnt |-> 0, read |-> FALSE, write |-> FALSE]

(* cur is the destination the engine is set up for.                        *)
NoBatch == [num_jobs |-> 0, ops |-> <<>>, uses |-> [p \in Pixmaps |-> NoUse],
            explicit_fence |-> NoFence, job_fence |-> NoFence,
            cur |-> NoPixmap]

InBatch(p) == batch.uses[p].refcnt > 0

Busy(p) == InBatch(p) \/ \E s \in Written(p) \cup Read(p) : ~ Completed(held[s])

(* The locks without those of the pixmaps of the batch.                    *)
Unlocked == [p \in Pixmaps |-> lockcnt[p] - batch.uses[p].refcnt]

FlushBatch ==
    \E out \in {batch.job_fence, NoFence} :
        /\ Submit("3D", batch.job_fence, batch.ops, batch.explicit_fence, out)
        /\ refs' = Count(refs, <<>>,
                         <<last["3D"], batch.explicit_fence>> \o
                         (IF out = NoFence THEN <<batch.job_fence>> ELSE <<>>))
        /\ lockcnt' = Unlocked
        /\ batch' = NoBatch
        /\ UNCHANGED <<held, seqno, signalled>>

NeedsFlush(p, reads, writes) ==
    \/ reads /\ batch.uses[p].read
    \/ writes /\ batch.uses[p].write

NoFlush == UNCHANGED <<batch, lockcnt, queue, signalled, fences>>

(* What is drawn to the pixmap p is about to be drawn over: drop the       *)
(* batch if that is safe, submit it if p is in it otherwise.               *)
Cancellable(p) ==
    /\ batch.num_jobs = 1
    /\ Completed(last["3D"])
    /\ batch.uses[p].write

ResetBatch(p) ==
    /\ fence' = [f \in Fences |->
          IF f \in {held[<<p, "3D", "write">>], held[<<p, "3D", "read">>]}
          THEN "marked" ELSE fence[f]]
    /\ refs' = Count(refs, <<>>, <<batch.job_fence, batch.explicit_fence>>)
    /\ lockcnt' = Unlocked
    /\ batch' = NoBatch
    /\ UNCHANGED <<held, seqno, last, gpu>>

\* Mutants of CancelDeferred: the batch is dropped though other operations
\* are in it; it is kept though the pixmap is in it.
CancelAlways(p) ==
    IF batch.uses[p].write THEN ResetBatch(p)
    ELSE IF NeedsFlush(p, TRUE, TRUE) THEN FlushBatch
    ELSE NoFlush
CancelOrKeep(p) ==
    IF Cancellable(p) THEN ResetBatch(p) ELSE NoFlush

CancelDeferred(p) ==
    IF Cancellable(p) THEN ResetBatch(p)
    ELSE IF NeedsFlush(p, TRUE, TRUE) THEN FlushBatch
    ELSE NoFlush

-----------------------------------------------------------------------------
(* The calls on the agenda.                                                *)

FillCall(p, accel)     == [call |-> "fill", pix |-> p, accel |-> accel]
FlushCall(p, r, w)     == [call |-> "flush", pix |-> p, reads |-> r, writes |-> w]
SubmitCall(ops, p, S)  == [call |-> "submit", ops |-> ops, pix |-> p, srcs |-> S]
WaitCall(p, S)         == [call |-> "wait", pix |-> p, slots |-> S]
PokeCall(p, cells, c)  == [call |-> "poke", pix |-> p, cells |-> cells, colour |-> c]
RectCall(cells, a, fl) == [call |-> "rect", cells |-> cells, alpha |-> a,
                           flushed |-> fl]

\* Mutants of FlushDeferred: the deferred 3D job, the deferred fill is not
\* flushed.
FlushFillOnly(p, accel, r, w) == <<FillCall(p, accel)>>
Flush3DOnly(p, accel, r, w)   == <<FlushCall(p, r, w)>>

(* tegra_exa_flush_deferred_operations().                                  *)
FlushDeferred(p, accel, r, w) == <<FillCall(p, accel), FlushCall(p, r, w)>>

At(c) == todo # <<>> /\ Head(todo).call = c
me    == Head(todo)

Painting(R) == Asked(req.want, R)

FillOp(p, cells, c) == [op |-> "Copy", dst |-> p, src |-> Solid(c),
                        mask |-> Solid(Black), cells |-> cells, shift |-> FALSE]

IsSmall(p, cells) == "l" \notin cells

Init ==
    /\ mem = [p \in Pixmaps |-> [x \in Cells(p) |-> Clear]]
    /\ ideal = mem
    /\ seen = <<>>
    /\ fill = [p \in Pixmaps |-> NoFill]
    /\ alpha_0 = [p \in Pixmaps |-> FALSE]
    /\ lockcnt = [p \in Pixmaps |-> 0]
    /\ held = [s \in Slots |-> NoFence]
    /\ fence = [f \in Fences |-> "none"]
    /\ refs = [f \in Fences |-> 0]
    /\ seqno = 1
    /\ last = [e \in Engines |-> NoFence]
    /\ batch = NoBatch
    /\ queue = [e \in Engines |-> <<>>]
    /\ signalled = {}
    /\ req = Idle
    /\ todo = <<>>
    /\ served = 0

(* A new request.                                                          *)
Start(q, kind) ==
    /\ req = Idle
    /\ served < MaxRequests
    /\ served' = served + 1
    /\ q.kind = kind

(* The next rectangle of the request, and what it changes in any case.     *)
NextRect(kinds) ==
    /\ req.kind \in kinds
    /\ todo = <<>>
    /\ req.rects # <<>>
    /\ ideal' = Draw(ideal, Painting(Head(req.rects)))

AllDrawn(kinds) ==
    /\ req.kind \in kinds
    /\ todo = <<>>
    /\ req.rects = <<>>

-----------------------------------------------------------------------------
(* Solid fills (solid_2d.c, optimizations_2d.c), and the copies from a     *)
(* pixmap with a deferred fill that are turned into fills ("copyfill").    *)

Lock(ps) == lockcnt' = [p \in Pixmaps |->
    lockcnt[p] + Cardinality({i \in DOMAIN ps : ps[i] = p})]

Unlock(ps) == lockcnt' = [p \in Pixmaps |->
    lockcnt[p] - Cardinality({i \in DOMAIN ps : ps[i] = p})]

\* Mutant of SolidState: fills of a displayed pixmap are deferred.
SolidStateAny(q, kind, colour) ==
    [kind |-> kind, want |-> q, rects |-> q.rects, ops |-> <<>>,
     colour |-> colour, optimize |-> TRUE, cpu |-> ~ Busy(q.dst), mapped |-> FALSE]

SolidState(q, kind, colour) ==
    [kind |-> kind, want |-> q, rects |-> q.rects, ops |-> <<>>,
     colour |-> colour, optimize |-> q.dst \notin Scanout,
     cpu |-> ~ Busy(q.dst), mapped |-> FALSE]

PrepareSolid == \E q \in Requests :
    /\ Start(q, "solid")
    /\ req' = SolidState(q, "solid", q.src.colour)
    /\ Lock(<<q.dst>>)
    /\ UNCHANGED <<picture, fill, alpha_0, fences, batch, gpu, todo>>

Filling == {"solid", "copyfill"}

(* alpha_0 after a fill of the cells; of one byte per pixel any colour     *)
(* passes for transparent.                                                 *)
ZeroAlpha(p, cells, c) ==
    (c = Clear \/ p \in A8) /\ (alpha_0[p] \/ cells = Cells(p))

(* A copy between two pixmaps that have the same fill deferred.            *)
SameColour == req.kind = "copyfill" /\ fill[req.want.dst] = req.colour

(* The whole pixmap is filled: what is pending is cancelled, the fill      *)
(* deferred.                                                               *)
DeferFill ==
    /\ NextRect(Filling)
    /\ LET p == req.want.dst
           R == Head(req.rects)
       IN  /\ ~ SameColour
           /\ req.optimize /\ R.cells = Cells(p)
           /\ CancelDeferred(p)
           /\ fill' = [fill EXCEPT ![p] = req.colour]
           /\ alpha_0' = [alpha_0 EXCEPT ![p] = ZeroAlpha(p, R.cells, req.colour)]
           /\ req' = [req EXCEPT !.rects = Tail(@), !.cpu = FALSE]
    /\ UNCHANGED <<mem, seen, todo, served>>

(* A part is filled with the colour the pixmap is to be filled with.       *)
SkipFill ==
    /\ NextRect(Filling)
    /\ LET p == req.want.dst
           R == Head(req.rects)
       IN  \/ SameColour
           \/ /\ req.optimize /\ R.cells # Cells(p)
              /\ fill[p] = req.colour
              /\ IsSmall(p, R.cells)
    /\ req' = [req EXCEPT !.rects = Tail(@)]
    /\ UNCHANGED <<mem, seen, pixmap, fences, batch, gpu, todo, served>>

(* Any other rectangle; another fill deferred for the pixmap goes first.   *)
PartialFill ==
    /\ NextRect(Filling)
    /\ LET p == req.want.dst
           R == Head(req.rects)
           flushed == req.optimize /\ fill[p] # NoFill
           rest == <<RectCall(R.cells, ZeroAlpha(p, R.cells, req.colour), flushed)>>
       IN  /\ ~ SameColour
           /\ ~ (req.optimize /\ R.cells = Cells(p))
           /\ ~ (req.optimize /\ fill[p] = req.colour /\ IsSmall(p, R.cells))
           /\ todo' = IF flushed THEN FlushDeferred(p, TRUE, TRUE, TRUE) \o rest
                      ELSE rest
    /\ req' = [req EXCEPT !.rects = Tail(@)]
    /\ UNCHANGED <<mem, seen, pixmap, fences, batch, gpu, served>>

(* ... is then filled by the processor, if it is small and no engine uses  *)
(* the pixmap, or recorded for the 2D job.  The wait precedes the first    *)
(* access only.                                                            *)
FillRect ==
    /\ At("rect")
    /\ LET p == req.want.dst
           cpu == req.cpu /\ ~ (me.flushed /\ Busy(p))
           byCpu == cpu /\ IsSmall(p, me.cells)
           wait == IF req.mapped THEN <<>>
                   ELSE <<WaitCall(p, Read(p) \cup Written(p))>>
       IN  /\ alpha_0' = [alpha_0 EXCEPT ![p] = me.alpha]
           /\ req' = [req EXCEPT
                  !.cpu = cpu,
                  !.mapped = @ \/ byCpu,
                  !.ops = IF byCpu THEN @
                          ELSE Append(@, FillOp(p, me.cells, req.colour))]
           /\ todo' = (IF byCpu
                       THEN wait \o <<PokeCall(p, me.cells, req.colour)>>
                       ELSE <<>>) \o Tail(todo)
    /\ UNCHANGED <<picture, fill, lockcnt, fences, batch, gpu, served>>

DoneSolid ==
    /\ AllDrawn({"solid"})
    /\ IF req.ops = <<>>
       THEN req' = Idle /\ Unlock(<<req.want.dst>>) /\ UNCHANGED todo
       ELSE /\ todo' = FlushDeferred(req.want.dst, TRUE, TRUE, TRUE) \o
                       <<SubmitCall(req.ops, req.want.dst, {})>>
            /\ UNCHANGED <<req, lockcnt>>
    /\ UNCHANGED <<picture, fill, alpha_0, fences, batch, gpu, served>>

-----------------------------------------------------------------------------
(* Copies (copy_2d.c, optimizations_2d.c).  A rotated copy, made for a     *)
(* composite onto a rotated display, skips tegra_exa_prepare_optimized_    *)
(* copy().                                                                 *)

PrepareCopy == \E q \in Requests :
    LET s == q.src.pix
        d == q.dst
        optimize == \/ fill[s] # NoFill \/ fill[d] # NoFill
                    \/ alpha_0[s] \/ alpha_0[d]
    IN  /\ Start(q, "copy")
        /\ IF fill[s] # NoFill
           THEN /\ req' = SolidState(q, "copyfill", fill[s])
                /\ Lock(<<d, s, d>>)
           ELSE /\ req' = [SolidState(q, "copy", Clear) EXCEPT !.optimize = optimize]
                /\ Lock(<<s, d>>)
        /\ UNCHANGED <<picture, fill, alpha_0, fences, batch, gpu, todo>>

PrepareRotated == \E q \in Requests :
    /\ Start(q, "rotate")
    /\ req' = [SolidState(q, "copy", Clear) EXCEPT !.optimize = FALSE]
    /\ UNCHANGED <<picture, pixmap, fences, batch, gpu, todo>>

(* The whole destination is copied over, or a part of it.                  *)
CopyRect ==
    /\ NextRect({"copy"})
    /\ LET s == req.want.src.pix
           d == req.want.dst
           R == Head(req.rects)
           all == R.cells = Cells(d)
       IN  /\ IF req.optimize /\ all
              THEN CancelDeferred(d) /\ fill' = [fill EXCEPT ![d] = NoFill]
              ELSE NoFlush /\ UNCHANGED fill
           /\ alpha_0' = IF req.optimize
                         THEN [alpha_0 EXCEPT ![d] = alpha_0[s] /\ (all \/ @)]
                         ELSE alpha_0
           /\ req' = [req EXCEPT !.rects = Tail(@), !.ops = Append(@, Painting(R))]
    /\ UNCHANGED <<mem, seen, todo, served>>

\* Mutant of CopyLocks: the lock of the fill that stands for the copy is
\* released though there was no such fill.
CopyLocksTwice == <<req.want.dst, req.want.src.pix, req.want.dst>>

CopyLocks == IF req.kind = "copy" THEN <<req.want.src.pix, req.want.dst>>
             ELSE <<req.want.dst, req.want.src.pix, req.want.dst>>

DoneCopy ==
    /\ AllDrawn({"copy", "copyfill"})
    /\ LET s == req.want.src.pix
           d == req.want.dst
           srcs == IF req.kind = "copy" THEN {s} ELSE {}
       IN  IF req.ops = <<>>
           THEN req' = Idle /\ Unlock(CopyLocks) /\ UNCHANGED todo
           ELSE /\ todo' = (IF req.kind = "copy"
                            THEN FlushDeferred(s, TRUE, FALSE, TRUE) ELSE <<>>)
                           \o FlushDeferred(d, TRUE, TRUE, TRUE)
                           \o <<SubmitCall(req.ops, d, srcs)>>
                /\ UNCHANGED <<req, lockcnt>>
    /\ UNCHANGED <<picture, fill, alpha_0, fences, batch, gpu, served>>

-----------------------------------------------------------------------------
(* Composites (composite_3d.c, composite_3d_state_tracker.c,               *)
(* optimizations_3d.c).                                                    *)

(* A texture with a deferred fill is replaced by its colour.               *)
Reduced(t, op) ==
    /\ t.pix # NoPixmap
    /\ fill[t.pix] # NoFill
    /\ t.repeat \/ fill[t.pix] = Clear \/ op = "Over"

\* Mutant of Reduce: the format of the texture is ignored.
ReduceRaw(t, op) == IF Reduced(t, op) THEN Solid(fill[t.pix]) ELSE t

Reduce(t, op) ==
    IF Reduced(t, op) THEN Solid(View(t.pix, fill[t.pix])) ELSE t

IsSolid(t) == t.pix = NoPixmap
IsEmpty(t) == IsSolid(t) /\ t.colour = Clear

(* tegra_exa_select_optimized_gr3d_program(): an operation without effect  *)
(* is left out, and Over becomes Src where nothing shows through.          *)
OverOut(d, src, mask) ==
    (d \in Alpha \/ alpha_0[d]) /\ (IsEmpty(src) \/ IsEmpty(mask))

OverIsSrc(d, src, mask) ==
    \/ IsSolid(mask) /\ ~ IsEmpty(mask) /\ IsSolid(src) /\ ~ IsEmpty(src)
    \/ fill[d] = Clear

SelectedOp(op, d, src, mask) ==
    IF op = "Over" /\ OverIsSrc(d, src, mask) THEN "Src" ELSE op

OptimizedOut(op, d, src, mask) ==
    \/ op = "Over" /\ OverOut(d, src, mask)
    \/ /\ SelectedOp(op, d, src, mask) = "Src"
       /\ IsEmpty(src) \/ IsEmpty(mask)
       /\ fill[d] = Clear

PrepareComposite == \E q \in Requests :
    LET src  == Reduce(q.src, q.op)
        mask == Reduce(q.mask, q.op)
    IN  /\ Start(q, "composite")
        /\ req' = [kind |-> "composite", want |-> q, rects |-> q.rects,
                   ops |-> <<>>, src |-> src, mask |-> mask,
                   op |-> SelectedOp(q.op, q.dst, src, mask),
                   out |-> OptimizedOut(q.op, q.dst, src, mask),
                   full |-> FALSE]
        /\ UNCHANGED <<picture, pixmap, fences, batch, gpu, todo>>

(* The cells left once those outside of a texture that does not repeat are *)
(* clipped, which is done for the operations they have no effect on.       *)
Inside(t, R) == {x \in R.cells :
    IsSolid(t) \/ t.repeat \/ From(R.shift, x) \in Cells(t.pix)}

Clipped(R) ==
    IF req.want.op = "Over"
    THEN Inside(req.src, R) \cap Inside(req.mask, R) ELSE R.cells

CompositeRect ==
    /\ NextRect({"composite"})
    /\ LET R == Head(req.rects)
           cells == Clipped(R)
           op == [op |-> req.op, dst |-> req.want.dst, src |-> req.src,
                  mask |-> req.mask, cells |-> cells, shift |-> R.shift]
       IN  req' = IF req.out THEN [req EXCEPT !.rects = Tail(@)]
                  ELSE [req EXCEPT
                      !.rects = Tail(@),
                      !.full = @ \/ R.cells = Cells(req.want.dst),
                      !.ops = IF cells = {} THEN @ ELSE Append(@, op)]
    /\ UNCHANGED <<mem, seen, pixmap, fences, batch, gpu, todo, served>>

(* The source is not fetched if the mask lets nothing through.             *)
Fetched == IF req.op = "Over" /\ IsEmpty(req.mask) THEN Solid(Clear) ELSE req.src

AppendCall == [call |-> "append", src |-> Fetched]

(* tegra_exa_finalize_3d_state(): fills deferred for the textures, and for *)
(* a destination that is not the one of the previous operation, go first.  *)
DoneComposite ==
    /\ AllDrawn({"composite"})
    /\ IF req.ops = <<>> THEN req' = Idle /\ UNCHANGED todo
       ELSE /\ todo' = (IF IsSolid(Fetched) THEN <<>>
                        ELSE <<FillCall(Fetched.pix, TRUE)>>)
                       \o (IF IsSolid(req.mask) THEN <<>>
                           ELSE <<FillCall(req.mask.pix, TRUE)>>)
                       \o (IF req.want.dst = batch.cur THEN <<>>
                           ELSE <<FillCall(req.want.dst, TRUE)>>)
                       \o <<AppendCall>>
            /\ UNCHANGED req
    /\ UNCHANGED <<picture, pixmap, fences, batch, gpu, served>>

(* alpha_0 of the destination after the operation just recorded.           *)
ZeroTexture(t) == IF IsSolid(t) THEN IsEmpty(t) ELSE t.pix \in Alpha /\ alpha_0[t.pix]

\* Mutant of CompositeAlpha: what is drawn is not looked at.
CompositeAlphaKept(d) == IF d \in Alpha THEN alpha_0[d] ELSE alpha_0[d] \/ req.full

CompositeAlpha(d) ==
    IF d \in Alpha THEN alpha_0[d] /\ (ZeroTexture(me.src) \/ ZeroTexture(req.mask))
    ELSE alpha_0[d] \/ req.full

(* The references that tegra_exa_optimize_3d_submission() drops of the two *)
(* fences it selects the latest of.                                        *)
\* Mutant of Outdated: the same fence selected twice is not put.
OutdatedOnce(x) == IF x > batch.explicit_fence THEN batch.explicit_fence
                   ELSE IF x = batch.explicit_fence THEN NoFence ELSE x

Outdated(x) == IF x > batch.explicit_fence THEN batch.explicit_fence ELSE x

(* The pixmaps an operation fetches.                                       *)
Textures(src, mask) == (IF IsSolid(src) THEN <<>> ELSE <<src.pix>>) \o
                       (IF IsSolid(mask) THEN <<>> ELSE <<mask.pix>>)

Uses(p, d, reads) ==
    LET n == Cardinality({i \in DOMAIN reads : reads[i] = p})
    IN  [refcnt |-> batch.uses[p].refcnt + n + (IF p = d THEN 1 ELSE 0),
         read   |-> batch.uses[p].read \/ n > 0,
         write  |-> batch.uses[p].write \/ p = d]

TooMany(reads) ==
    Cardinality({p \in Pixmaps : InBatch(p)}) + 1 + Len(reads) > MaxPixmaps

(* tegra_exa_submit_3d_state(): the operation joins the batch, or goes to  *)
(* the kernel with it if the batch cannot hold its pixmaps.                *)
AppendJob ==
    /\ At("append")
    /\ LET d     == req.want.dst
           reads == Textures(me.src, req.mask)
           x     == ExplicitFence("2D", d, {reads[i] : i \in DOMAIN reads})
           later == Latest({batch.explicit_fence, x})
           new   == batch.job_fence = NoFence
           f     == IF new THEN seqno ELSE batch.job_fence
           ops   == batch.ops \o [i \in DOMAIN req.ops |->
                                      [req.ops[i] EXCEPT !.src = me.src]]
           known == Count(refs, <<x>> \o (IF new THEN <<f>> ELSE <<>>),
                          <<Outdated(x)>>)
           slots == {<<d, "3D", "write">>} \cup
                    {<<t.pix, "3D", "read">> :
                        t \in {u \in {req.src, req.mask} : ~ IsSolid(u)}}
       IN  /\ new => seqno < MaxFences
           /\ seqno' = IF new THEN seqno + 1 ELSE seqno
           /\ alpha_0' = [alpha_0 EXCEPT ![d] = CompositeAlpha(d)]
           /\ IF TooMany(reads)
              THEN \E out \in {f, NoFence} :
                   /\ Submit("3D", f, ops, later, out)
                   /\ LET put == Count(known, <<>>, <<last["3D"], later>> \o
                                       (IF out = NoFence THEN <<f>> ELSE <<>>))
                      IN  IF out = NoFence
                          THEN refs' = put /\ UNCHANGED held
                          ELSE refs' = Replaced(put, slots, f) /\ Hold(slots, f)
                   /\ lockcnt' = Unlocked
                   /\ batch' = NoBatch
              ELSE /\ batch' = [num_jobs |-> batch.num_jobs + 1, ops |-> ops,
                                uses |-> [p \in Pixmaps |-> Uses(p, d, reads)],
                                explicit_fence |-> later, job_fence |-> f,
                                cur |-> d]
                   /\ Lock(<<d>> \o reads)
                   /\ Hold(slots, f)
                   /\ refs' = Replaced(known, slots, f)
                   /\ fence' = IF new THEN [fence EXCEPT ![f] = "new"] ELSE fence
                   /\ UNCHANGED <<last, queue>>
    /\ req' = Idle
    /\ todo' = <<>>
    /\ UNCHANGED <<picture, fill, signalled, served>>

-----------------------------------------------------------------------------
(* Access by the processor (cpu_access.c): drawing in software, which is   *)
(* what EXA does when a request is not accelerated, and reading.           *)

\* Mutant of Access: what is deferred is submitted for a write access only.
AccessUnflushed(p, write) ==
    (IF write THEN FlushDeferred(p, FALSE, TRUE, TRUE) ELSE <<>>) \o
    <<WaitCall(p, Written(p) \cup (IF write THEN Read(p) ELSE {}))>>

Access(p, write) ==
    FlushDeferred(p, FALSE, write, TRUE) \o
    <<WaitCall(p, Written(p) \cup (IF write THEN Read(p) ELSE {}))>>

PrepareSoftware == \E q \in Requests :
    /\ Start(q, "soft")
    /\ req' = [kind |-> "soft", want |-> q, rects |-> q.rects]
    /\ todo' = Access(q.dst, TRUE)
               \o (IF IsSolid(q.src) THEN <<>> ELSE Access(q.src.pix, FALSE))
               \o (IF IsSolid(q.mask) THEN <<>> ELSE Access(q.mask.pix, FALSE))
               \o <<[call |-> "software"]>>
    /\ UNCHANGED <<picture, pixmap, fences, batch, gpu>>

Software ==
    /\ At("software")
    /\ LET ops == [i \in DOMAIN req.rects |-> Painting(req.rects[i])]
       IN  mem' = DrawAll(mem, ops) /\ ideal' = DrawAll(ideal, ops)
    /\ alpha_0' = [alpha_0 EXCEPT ![req.want.dst] = FALSE]
    /\ req' = Idle
    /\ todo' = <<>>
    /\ UNCHANGED <<seen, fill, lockcnt, fences, batch, gpu, served>>

PrepareLook == \E q \in Requests :
    /\ Start(q, "look")
    /\ req' = [kind |-> "look", want |-> q, rects |-> <<>>]
    /\ todo' = Access(q.dst, FALSE) \o <<[call |-> "look", pix |-> q.dst]>>
    /\ UNCHANGED <<picture, pixmap, fences, batch, gpu>>

Look ==
    /\ At("look")
    /\ seen' = <<me.pix, mem[me.pix]>>
    /\ req' = Idle
    /\ todo' = <<>>
    /\ UNCHANGED <<mem, ideal, pixmap, fences, batch, gpu, served>>

-----------------------------------------------------------------------------
(* The calls shared by the requests.                                       *)

(* tegra_exa_perform_deferred_solid_fill(): a small pixmap that no engine  *)
(* uses is filled by the processor, any other one by a 2D job.             *)
FillDeferred ==
    /\ At("fill")
    /\ LET p == me.pix
           byCpu == IsSmall(p, Cells(p)) /\ ~ Busy(p)
           zero == ZeroAlpha(p, Cells(p), fill[p])
       IN  IF fill[p] = NoFill
           THEN todo' = Tail(todo) /\ UNCHANGED <<fill, alpha_0>>
           ELSE /\ fill' = [fill EXCEPT ![p] = NoFill]
                /\ \/ ~ (byCpu /\ ~ me.accel) /\ alpha_0' = [alpha_0 EXCEPT ![p] = zero]
                   \/ byCpu /\ UNCHANGED alpha_0
                /\ todo' = (IF byCpu
                            THEN <<WaitCall(p, Read(p) \cup Written(p)),
                                   PokeCall(p, Cells(p), fill[p])>>
                            ELSE <<FlushCall(p, TRUE, TRUE),
                                   SubmitCall(<<FillOp(p, Cells(p), fill[p])>>, p, {})>>)
                           \o Tail(todo)
    /\ UNCHANGED <<picture, lockcnt, fences, batch, gpu, req, served>>

FlushDeferred3D ==
    /\ At("flush")
    /\ IF NeedsFlush(me.pix, me.reads, me.writes) THEN FlushBatch ELSE NoFlush
    /\ todo' = Tail(todo)
    /\ UNCHANGED <<picture, fill, alpha_0, req, served>>

(* A 2D job, either that of the request or that of a deferred fill.        *)
SubmitJob ==
    /\ At("submit")
    /\ seqno < MaxFences
    /\ LET x == ExplicitFence("3D", me.pix, me.srcs)
           f == seqno
           slots == {<<me.pix, "2D", "write">>} \cup
                    {<<p, "2D", "read">> : p \in me.srcs}
       IN  \E out \in {f, NoFence} :
               /\ Submit("2D", f, me.ops, x, out)
               /\ refs' = Replaced(
                      Count(refs, <<f>>, <<last["2D"]>> \o
                            (IF out = NoFence THEN <<f>> ELSE <<>>)),
                      slots, out)
               /\ Hold(slots, out)
    /\ seqno' = seqno + 1
    /\ todo' = Tail(todo)
    /\ IF todo' # <<>> THEN UNCHANGED <<req, lockcnt>>
       ELSE /\ req' = Idle
            /\ Unlock(IF req.kind = "solid" THEN <<req.want.dst>> ELSE CopyLocks)
    /\ UNCHANGED <<picture, fill, alpha_0, batch, signalled, served>>

(* TEGRA_WAIT_AND_PUT_FENCE() of some fences of a pixmap.                  *)
Wait ==
    /\ At("wait")
    /\ \A s \in me.slots : Completed(held[s])
    /\ Hold(me.slots, NoFence)
    /\ refs' = Replaced(refs, me.slots, NoFence)
    /\ todo' = Tail(todo)
    /\ UNCHANGED <<picture, pixmap, fence, seqno, last, batch, gpu, req, served>>

Poke ==
    /\ At("poke")
    /\ mem' = Draw(mem, FillOp(me.pix, me.cells, me.colour))
    /\ todo' = Tail(todo)
    /\ UNCHANGED <<ideal, seen, pixmap, fences, batch, gpu, req, served>>

(* The flush timer, which the X server runs between requests.              *)
\* Mutant of TimerFires: a single operation is not worth a submission.
TimerFiresLate ==
    /\ req = Idle
    /\ batch.num_jobs > 1
    /\ FlushBatch
    /\ UNCHANGED <<picture, fill, alpha_0, req, todo, served>>

TimerFires ==
    /\ req = Idle
    /\ batch.num_jobs > 0
    /\ FlushBatch
    /\ UNCHANGED <<picture, fill, alpha_0, req, todo, served>>

(* An engine executes the first job of its queue.                          *)
Runnable(e) == queue[e] # <<>> /\
    LET w == Head(queue[e]).wait IN w = NoFence \/ w \in signalled

Execute(e) ==
    /\ Runnable(e)
    /\ mem' = DrawAll(mem, Head(queue[e]).ops)
    /\ signalled' = signalled \cup {Head(queue[e]).fence}
    /\ queue' = [queue EXCEPT ![e] = Tail(@)]
    /\ UNCHANGED <<ideal, seen, pixmap, fences, batch, req, todo, served>>

(* The end of the bounded behaviour: nothing is left to do.                *)
Quiet == /\ req = Idle /\ todo = <<>> /\ batch.num_jobs = 0
         /\ \A e \in Engines : queue[e] = <<>>

Rest == Quiet /\ served = MaxRequests /\ UNCHANGED vars

Prepare == \/ PrepareSolid \/ PrepareCopy \/ PrepareRotated \/ PrepareComposite
           \/ PrepareSoftware \/ PrepareLook

Server == \/ DeferFill \/ SkipFill \/ PartialFill \/ FillRect \/ DoneSolid
          \/ CopyRect \/ DoneCopy
          \/ CompositeRect \/ DoneComposite \/ AppendJob
          \/ Software \/ Look
          \/ FillDeferred \/ FlushDeferred3D \/ SubmitJob \/ Wait \/ Poke

Next == \/ Prepare \/ Server \/ TimerFires
        \/ \E e \in Engines : Execute(e)
        \/ Rest

Spec == Init /\ [][Next]_vars

FairSpec == /\ Spec
            /\ WF_vars(Server)
            /\ WF_vars(TimerFires)
            /\ \A e \in Engines : WF_vars(Execute(e))
=============================================================================
