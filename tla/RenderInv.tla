------------------------------ MODULE RenderInv ------------------------------
(***************************************************************************)
(* The inductive invariant of accelerated drawing: why nobody touches a    *)
(* pixmap before the jobs on it are done, and why the engines never wait   *)
(* for each other in a circle.                                             *)
(***************************************************************************)
EXTENDS RenderProps

(* The driver keeps the fence of a 3D job for a source that the shader no  *)
(* longer fetches (optimizations_3d.c:76, composite_3d.c:946), without     *)
(* entering the source into the batch.  It does so for Over with a mask    *)
(* that lets nothing through and a destination without an alpha channel.   *)
MayBeEmpty(t) == IF IsSolid(t) THEN IsEmpty(t) ELSE t.pix \in Alpha

NoUnfetched == \A q \in Requests :
    q.kind = "composite" /\ q.op = "Over" /\ ~ IsSolid(q.src) =>
        q.dst \in Alpha \/ ~ MayBeEmpty(q.mask)

(* A rotated copy skips tegra_exa_prepare_optimized_copy() and with it the *)
(* locks that tegra_exa_done_copy_2d() gives back (composite_2d.c:264).    *)
NoRotation == \A q \in Requests : q.kind # "rotate"

-----------------------------------------------------------------------------
(* Types.                                                                  *)

Jobs == [ops : Seq(Operations), wait : Handle, fence : Fences]
Use  == [refcnt : Nat, read : BOOLEAN, write : BOOLEAN]

BatchType ==
    /\ batch \in [num_jobs : Nat, ops : Seq(Operations), uses : [Pixmaps -> Use],
                  explicit_fence : Handle, job_fence : Handle,
                  cur : Pixmaps \cup {NoPixmap}]
    /\ batch.num_jobs = 0 => batch = NoBatch

GpuType ==
    /\ seqno \in Fences
    /\ fence \in [Fences -> {"none", "new", "active", "marked"}]
    /\ held \in [Slots -> Handle] /\ last \in [Engines -> Handle]
    /\ queue \in [Engines -> Seq(Jobs)]
    /\ signalled \subseteq Fences

PictureType ==
    /\ mem \in Maps /\ ideal \in Maps
    /\ fill \in [Pixmaps -> Colours \cup {NoFill}]
    /\ alpha_0 \in [Pixmaps -> BOOLEAN]

(* Requests being served, by kind; want is the client's request.           *)
Blits == Filling \cup {"copy"}

Blit == [kind : Blits, want : Requests, rects : Seq(Rectangles), ops : Seq(Operations),
         colour : Colours, optimize : BOOLEAN, cpu : BOOLEAN, mapped : BOOLEAN]
Composite == [kind : {"composite"}, want : Requests, rects : Seq(Rectangles),
              ops : Seq(Operations), src : Operands, mask : Operands,
              op : {"Src", "Over"}, out : BOOLEAN, full : BOOLEAN]
Access2 == [kind : {"soft", "look"}, want : Requests, rects : Seq(Rectangles)]

(* All operations draw to the pixmap d from pixmaps of S.                  *)
OpsOf(ops, d, S) == \A i \in DOMAIN ops :
    /\ ops[i].dst = d
    /\ ops[i].src.pix \in S \cup {NoPixmap} /\ ops[i].mask.pix \in S \cup {NoPixmap}

CopySources == IF req.kind = "copy" THEN {req.want.src.pix} ELSE {}

ReqType ==
    \/ req = Idle
    \/ /\ req \in Blit \cup Composite \cup Access2
       /\ \A i \in DOMAIN req.rects : Painting(req.rects[i]) \in Operations

(* What the request says about its operations.                             *)
ReqInv ==
    /\ req.kind \in {"copy", "copyfill"} => req.want.src.pix \in Pixmaps
    /\ req.kind \in {"solid"} => req.want.src.pix = NoPixmap
    /\ req.kind \in Blits => /\ req.want.op = "Copy" /\ req.want.mask.pix = NoPixmap
                             /\ OpsOf(req.ops, req.want.dst, CopySources)
    /\ req.kind = "composite" =>
          /\ req.want.op \in {"Src", "Over"}
          /\ req.out => req.ops = <<>>
          /\ \A i \in DOMAIN req.ops : /\ req.ops[i].op = req.op
                                       /\ req.ops[i].dst = req.want.dst
                                       /\ req.ops[i].src = req.src
                                       /\ req.ops[i].mask = req.mask
          /\ req.out \/ Fetched.pix = req.src.pix
    /\ req.kind = "look" => req.rects = <<>>

Calls ==
    [call : {"fill"}, pix : Pixmaps, accel : BOOLEAN]
    \cup [call : {"flush"}, pix : Pixmaps, reads : BOOLEAN, writes : {TRUE}]
    \cup [call : {"submit"}, ops : Seq(Operations), pix : Pixmaps, srcs : SUBSET Pixmaps]
    \cup [call : {"wait"}, pix : Pixmaps, slots : SUBSET Slots]
    \cup [call : {"poke"}, pix : Pixmaps, cells : SUBSET {"s", "l"}, colour : Colours]
    \cup [call : {"rect"}, cells : SUBSET {"s", "l"}, alpha : BOOLEAN, flushed : BOOLEAN]
    \cup [call : {"append"}, src : Operands]
    \cup [call : {"software"}]
    \cup [call : {"look"}, pix : Pixmaps]

(* The calls an agenda ends with, and those before.                        *)
Middle == {"fill", "flush", "submit", "wait", "poke"}
Final(kind) ==
    CASE kind \in Filling -> {"submit", "rect", "poke"}
      [] kind = "copy" -> {"submit"}
      [] kind = "composite" -> {"append"}
      [] kind = "soft" -> {"software"}
      [] kind = "look" -> {"look"}
      [] OTHER -> {}

TodoType ==
    /\ todo \in Seq(Calls)
    /\ \A i \in DOMAIN todo :
          IF i < Len(todo) THEN todo[i].call \in Middle ELSE todo[i].call \in Final(req.kind)
    /\ req = Idle => todo = <<>>
    /\ req.kind \in {"soft", "look"} => todo # <<>>
    /\ \A i \in DOMAIN todo :
          /\ todo[i].call = "rect" => todo[i].cells \subseteq Cells(req.want.dst)
          /\ todo[i].call = "poke" => todo[i].cells \subseteq Cells(todo[i].pix)

-----------------------------------------------------------------------------
(* Fences, queues and the batch.                                           *)

Other(e) == IF e = "2D" THEN "3D" ELSE "2D"

(* The queued jobs of an engine and their fences.                          *)
Queued(e) == {queue[e][i] : i \in DOMAIN queue[e]}
QF(e)     == {j.fence : j \in Queued(e)}

Deferred == batch.num_jobs > 0

(* All fences there are have lower numbers than the next one.              *)
Numbered ==
    /\ \A s \in Slots : held[s] < seqno
    /\ \A e \in Engines : last[e] < seqno
    /\ \A e \in Engines : \A j \in Queued(e) : j.fence < seqno /\ j.wait < seqno
    /\ batch.explicit_fence < seqno /\ batch.job_fence < seqno
    /\ \A f \in signalled : f < seqno

(* The fence f of the engine e is done with, before all that is under way. *)
Past(f, e) ==
    /\ f \in Fences
    /\ fence[f] = "marked" \/ (fence[f] = "active" /\ f \in signalled)
    /\ \A g \in QF(e) : f < g
    /\ e = "3D" /\ Deferred => f < batch.job_fence

QueueInv ==
    /\ \A e \in Engines : \A i, j \in DOMAIN queue[e] :
          i < j => queue[e][i].fence < queue[e][j].fence
    /\ \A e \in Engines : \A f \in QF(e) : fence[f] = "active" /\ f \notin signalled
    /\ \A f \in signalled : fence[f] \in {"active", "marked"}
    /\ \A e \in Engines : queue[e] # <<>> =>
          last[e] \in QF(e) /\ \A f \in QF(e) : f <= last[e]
    /\ QF("2D") \cap QF("3D") = {}
    /\ Deferred => batch.job_fence \in Fences /\ fence[batch.job_fence] = "new"
    /\ Deferred => \A f \in QF("3D") : f < batch.job_fence

(* What a pixmap holds is done, queued, or the fence of the batch that uses *)
(* it.                                                                      *)
HeldInv ==
    /\ \A s \in Slots : LET f == held[s] IN
          \/ f = NoFence \/ f \in QF(s[2]) \/ Past(f, s[2])
          \/ s[2] = "3D" /\ Deferred /\ f = batch.job_fence
    /\ Deferred => \A p \in Pixmaps :
          /\ batch.uses[p].write <=> held[<<p, "3D", "write">>] = batch.job_fence
          /\ batch.uses[p].read  <=> held[<<p, "3D", "read">>] = batch.job_fence
    /\ LET f == batch.explicit_fence IN f = NoFence \/ f \in QF("2D") \/ Past(f, "2D")

(* A job waits for a job of the other engine that was submitted before.    *)
WaitInv ==
    /\ \A e \in Engines : \A j \in Queued(e) :
          j.wait = NoFence \/ j.wait \in signalled \/ j.wait \in QF(Other(e))
    /\ \A a \in Queued("2D") : \A b \in Queued("3D") :
          ~ (a.wait >= b.fence /\ b.wait >= a.fence)
    /\ Deferred => \A a \in Queued("2D") : a.wait < batch.job_fence

(* The batch: its pixmaps, what it draws, and the target it is set up for. *)
BatchInv ==
    /\ \A p \in Pixmaps : InBatch(p) <=> batch.uses[p].read \/ batch.uses[p].write
    /\ \A p \in Writes(batch.ops) : batch.uses[p].write
    /\ \A p \in Reads(batch.ops) \ {NoPixmap} : batch.uses[p].read
    /\ batch.cur # NoPixmap => InBatch(batch.cur)

(* A pixmap with a deferred fill is not in the batch.                      *)
FillInv == \A p \in Pixmaps : fill[p] # NoFill => ~ InBatch(p)

(* As long as a job is queued the pixmaps it uses hold its fence, or that  *)
(* of a later job of the engine.                                           *)
Covers(h, e, f) == h >= f /\ (h \in QF(e) \/ (e = "3D" /\ Deferred /\ h = batch.job_fence))

CoverInv == \A e \in Engines : \A j \in Queued(e) :
    /\ \A p \in Writes(j.ops) : Covers(held[<<p, e, "write">>], e, j.fence)
    /\ \A p \in Reads(j.ops) \ {NoPixmap} : Covers(held[<<p, e, "read">>], e, j.fence)

Conflict(a, b) == Writes(a) \cap (Writes(b) \cup Reads(b)) # {} \/ Writes(b) \cap Reads(a) # {}

(* Of two jobs that must not run together one waits for the other.         *)
OrderInv ==
    /\ \A a \in Queued("2D") : \A b \in Queued("3D") : Conflict(a.ops, b.ops) =>
          \/ a.wait \in QF("3D") /\ a.wait >= b.fence
          \/ b.wait \in QF("2D") /\ b.wait >= a.fence
    /\ \A a \in Queued("2D") : Conflict(a.ops, batch.ops) =>
          batch.explicit_fence \in QF("2D") /\ batch.explicit_fence >= a.fence

GpuInv == /\ GpuType /\ BatchType /\ Numbered /\ QueueInv /\ HeldInv
          /\ WaitInv /\ BatchInv /\ CoverInv /\ OrderInv

-----------------------------------------------------------------------------
(* The agenda: what the calls before a call have seen to when it is made.  *)

(* By the call i the batch does not write p, nor read it if r.             *)
Flushed(i, p, r) ==
    \/ ~ NeedsFlush(p, r, TRUE)
    \/ \E j \in 1..(i - 1) : /\ todo[j].call = "flush" /\ todo[j].pix = p
                             /\ r => todo[j].reads

(* By the call i no fill is deferred for p.                                *)
Filled(i, p) ==
    fill[p] = NoFill \/ \E j \in 1..(i - 1) : todo[j].call = "fill" /\ todo[j].pix = p

WaitSlots(p, r) == Written(p) \cup (IF r THEN Read(p) ELSE {})

(* No job writes p, nor reads it if r.                                     *)
Clean(p, r) == /\ ~ NeedsFlush(p, r, TRUE)
               /\ \A s \in WaitSlots(p, r) : Completed(held[s])

FlushAgenda == \A i \in DOMAIN todo : todo[i].call = "flush" /\ req.kind = "composite" =>
    ~ InBatch(todo[i].pix)

SubmitAgenda == \A i \in DOMAIN todo : todo[i].call = "submit" =>
    /\ OpsOf(todo[i].ops, todo[i].pix, todo[i].srcs)
    /\ Flushed(i, todo[i].pix, TRUE)
    /\ \A p \in todo[i].srcs : Flushed(i, p, FALSE)
    /\ i = Len(todo) \/ (i <= 2 /\ todo[i].srcs = {})
    /\ i = 2 /\ i # Len(todo) => todo[1].call = "flush"

WaitAgenda == \A i \in DOMAIN todo : todo[i].call = "wait" => \E r \in BOOLEAN :
    /\ todo[i].slots = WaitSlots(todo[i].pix, r)
    /\ Flushed(i, todo[i].pix, r)
    /\ req.kind \notin Filling => Filled(i, todo[i].pix)

PokeAgenda == \A i \in DOMAIN todo : todo[i].call = "poke" =>
    /\ Clean(todo[i].pix, TRUE)
    /\ i <= 2 /\ (i = 2 => todo[1].call = "wait")

(* What the processor is about to access, and whether for writing.         *)
Accessed ==
    IF req.kind = "look" THEN {<<req.want.dst, FALSE>>}
    ELSE IF req.kind = "soft"
    THEN {<<req.want.dst, TRUE>>}
         \cup {<<t.pix, FALSE>> : t \in {u \in {req.want.src, req.want.mask} : ~ IsSolid(u)}}
    ELSE {}

AccessAgenda ==
    /\ \A a \in Accessed :
          \/ /\ Clean(a[1], a[2]) /\ fill[a[1]] = NoFill
             /\ \A i \in DOMAIN todo : todo[i].call = "submit" => todo[i].pix # a[1]
          \/ \E i \in DOMAIN todo : /\ todo[i].call = "wait" /\ todo[i].pix = a[1]
                                    /\ WaitSlots(a[1], a[2]) \subseteq todo[i].slots
    /\ \A i \in DOMAIN todo : todo[i].call = "look" => todo[i].pix = req.want.dst

AppendAgenda == \A i \in DOMAIN todo : todo[i].call = "append" =>
    /\ todo[i].src = Fetched /\ ~ req.out
    /\ \A t \in {Fetched, req.mask} : ~ IsSolid(t) => Filled(i, t.pix)
    /\ req.want.dst = batch.cur \/ Filled(i, req.want.dst)

(* While the fill of rectangles by the processor may go on without a look  *)
(* at the fences, no engine uses the pixmap.                               *)
Direct == \A i \in DOMAIN todo :
    \/ todo[i].call \in {"wait", "poke"}
    \/ todo[i].call = "rect" /\ ~ todo[i].flushed

DirectAgenda == req.kind \in Filling =>
    /\ \/ Direct
       \/ todo[Len(todo)].call = "submit"
       \/ todo[Len(todo)].call = "rect" /\ todo[Len(todo)].flushed
    /\ Direct /\ req.cpu => Clean(req.want.dst, TRUE)
    /\ \A i \in DOMAIN todo : todo[i].call = "rect" /\ ~ todo[i].flushed => Direct

Agenda == /\ ReqType /\ ReqInv /\ TodoType
          /\ FlushAgenda /\ SubmitAgenda /\ WaitAgenda /\ PokeAgenda
          /\ AccessAgenda /\ AppendAgenda /\ DirectAgenda

RenderInv == PictureType /\ GpuInv /\ FillInv /\ Agenda /\ served \in 0..MaxRequests

-----------------------------------------------------------------------------
(* What alpha_0 and a deferred fill say of a pixmap, and what they do not. *)

(* Any colour of one byte per pixel passes for transparent                 *)
(* (optimizations_2d.c:71).                                                *)
NoA8 == A8 = {}

(* A clear deferred for the destination of a copy that covers a part of it *)
(* is performed after alpha_0 was looked at (optimizations_2d.c:275), and  *)
(* rotated copies do not look at it.  A copy does not add an alpha channel.*)
Covering(q, rects) == \E i \in DOMAIN rects : rects[i].cells = Cells(q.dst)

WholeCopies == \A q \in Requests : q.dst \in Alpha =>
    /\ q.kind # "rotate"
    /\ q.kind = "copy" => /\ q.src.pix \in Alpha
                          /\ q.src.pix = q.dst \/ Covering(q, q.rects)

Plain(p, c) == \A x \in Cells(p) : ideal[p][x] = c

HasFill(p) == \E i \in DOMAIN todo : todo[i].call = "fill" /\ todo[i].pix = p

(* A rectangle is yet to be filled, and alpha_0 to be set.                 *)
RectLeft == \E i \in DOMAIN todo : todo[i].call = "rect"

(* The request has drawn to p what its deferred fill, its alpha_0 does not *)
(* know of.                                                                *)
FillStale(p) == /\ \/ req.kind \in {"copy", "composite"} /\ req.ops # <<>>
                   \/ req.kind \in Filling /\ RectLeft
                /\ p = req.want.dst

AlphaStale(p) == /\ \/ req.kind = "composite" /\ req.ops # <<>>
                    \/ req.kind \in Filling /\ RectLeft
                 /\ p = req.want.dst

FillTrue  == \A p \in Pixmaps : fill[p] # NoFill /\ ~ FillStale(p) => Plain(p, fill[p])
AlphaTrue == \A p \in Alpha : alpha_0[p] /\ ~ AlphaStale(p) => Plain(p, Clear)
ScanFill  == \A p \in Scanout : fill[p] = NoFill

FillingTrue == req.kind \in Filling =>
    LET d == req.want.dst
        s == req.want.src
    IN  /\ req.want.mask.colour # Clear
        /\ req.optimize <=> d \notin Scanout
        /\ IF s.pix = NoPixmap THEN s.colour = req.colour ELSE Plain(s.pix, req.colour)
        /\ RectLeft => fill[d] = NoFill \/ HasFill(d)
        /\ \A i \in DOMAIN todo :
              todo[i].call = "rect" /\ todo[i].alpha /\ d \in Alpha => Plain(d, Clear)

CopyTrue == req.kind = "copy" =>
    LET d == req.want.dst
    IN  /\ req.want.mask.colour # Clear
        /\ d \in Alpha =>
              /\ req.want.src.pix \in Alpha
              /\ fill[d] = NoFill \/ (req.optimize /\ Covering(req.want, req.rects))
              /\ req.optimize \/ ~ alpha_0[d]
        /\ todo # <<>> => req.rects = <<>> /\ (fill[d] = NoFill \/ HasFill(d))

(* The operand t of the request draws nothing as far as d is clear.        *)
Nothing(t, d) ==
    IF t.pix = NoPixmap THEN t.colour = Clear
    ELSE t.pix \in Alpha /\ (t.pix = d \/ Plain(t.pix, Clear))

(* t is what the operand asked for is reduced to.                          *)
ReducedTrue(t, asked, d) ==
    /\ IsSolid(t) \/ t = asked
    /\ IsEmpty(t) => /\ Nothing(asked, d)
                     /\ req.out /\ asked.pix = d => fill[d] = Clear

CompositeTrue == req.kind = "composite" =>
    LET q == req.want
        d == q.dst
    IN  /\ ReducedTrue(req.src, q.src, d) /\ ReducedTrue(req.mask, q.mask, d)
        /\ req.out => /\ todo = <<>>
                      /\ IsEmpty(req.src) \/ IsEmpty(req.mask)
                      /\ q.op = "Over" \/ fill[d] = Clear
        /\ /\ d \in Alpha /\ (alpha_0[d] \/ fill[d] = Clear)
           /\ Nothing(q.src, d) \/ Nothing(q.mask, d)
           => Plain(d, Clear)

AlphaInv == /\ FillTrue /\ AlphaTrue /\ ScanFill
            /\ FillingTrue /\ CopyTrue /\ CompositeTrue
=============================================================================
