----------------------------- MODULE RenderProps -----------------------------
(***************************************************************************)
(* The properties of accelerated drawing.                                  *)
(***************************************************************************)
EXTENDS Render

-----------------------------------------------------------------------------
(* The variables have their types: of exa.h, tegra_stream.h, tegra_fence.h. *)

Maps   == {m \in [Pixmaps -> UNION {[S -> Colours] : S \in {{"s"}, {"s", "l"}}}] :
              \A p \in Pixmaps : DOMAIN m[p] = Cells(p)}
Handle == Fences \cup {NoFence}

TypeOK ==
    /\ mem \in Maps /\ ideal \in Maps
    /\ fill \in [Pixmaps -> Colours \cup {NoFill}]
    /\ alpha_0 \in [Pixmaps -> BOOLEAN]
    /\ lockcnt \in [Pixmaps -> Nat]
    /\ held \in [Slots -> Handle]
    /\ fence \in [Fences -> {"none", "new", "active", "marked"}]
    /\ seqno \in Fences
    /\ last \in [Engines -> Handle]
    /\ batch.explicit_fence \in Handle /\ batch.job_fence \in Handle
    /\ batch.cur \in Pixmaps \cup {NoPixmap}
    /\ (batch.num_jobs = 0) <=> (batch = NoBatch)
    /\ signalled \subseteq Fences
    /\ served \in 0..MaxRequests

-----------------------------------------------------------------------------
(* Contents.                                                               *)

(* Once everything asked for is submitted and executed, the memory holds   *)
(* what the requests drew, in their order, except that a pixmap with a     *)
(* deferred fill counts as filled (optimizations*.c: what is deferred,     *)
(* cancelled, left out or replaced must not be seen to be).                *)
Shown(p, x) == IF fill[p] # NoFill THEN fill[p] ELSE mem[p][x]

Settled == Quiet => \A p \in Pixmaps : \A x \in Cells(p) : Shown(p, x) = ideal[p][x]

(* What is displayed is what was drawn: nothing is deferred for a pixmap   *)
(* that is scanned out without anything left to submit it.                 *)
ScreenShows == Quiet => \A p \in Scanout : mem[p] = ideal[p]

(* The operations the clients ask for.                                     *)
Drawings == UNION {{Asked(q, q.rects[i]) : i \in DOMAIN q.rects} :
                    q \in {r \in Requests : r.kind # "look"}}

C == INSTANCE Canvas WITH canvas <- ideal, seen <- seen

(* The driver implements Canvas: what the processor reads of a pixmap is   *)
(* what the requests made before drew (cpu_access.c flushes what is        *)
(* deferred for the pixmap and waits for the engines that write to it).    *)
ImplementsCanvas == C!Spec

(* Between requests, state.alpha_0 of a pixmap with an alpha channel is    *)
(* what exa.h says: "pixmap's alpha component is 0x00".                    *)
AlphaIsZero == req = Idle => \A p \in Alpha :
    alpha_0[p] => \A x \in Cells(p) : ideal[p][x] = Clear

-----------------------------------------------------------------------------
(* Access to the memory of pixmaps.                                        *)

Reads(ops)  == {ops[i].src.pix : i \in DOMAIN ops} \cup {ops[i].mask.pix : i \in DOMAIN ops}
Writes(ops) == {ops[i].dst : i \in DOMAIN ops}

(* The jobs that are not executed, the deferred one included.              *)
Pending == (UNION {{queue[e][i].ops : i \in DOMAIN queue[e]} : e \in Engines})
           \cup {batch.ops}

Untouched(p) == \A ops \in Pending : p \notin Reads(ops) \cup Writes(ops)
Unwritten(p) == \A ops \in Pending : p \notin Writes(ops)

(* When the processor accesses a pixmap no job that conflicts with the     *)
(* access is queued or deferred (tegra_exa_prepare_cpu_access() and the    *)
(* callers that ask it not to flush).                                      *)
CpuExclusive ==
    /\ At("poke") => Untouched(me.pix)
    /\ At("look") => Unwritten(me.pix)
    /\ At("software") =>
          /\ Untouched(req.want.dst)
          /\ \A t \in {req.want.src, req.want.mask} :
                ~ IsSolid(t) => Unwritten(t.pix)

(* Two jobs of different engines of which one writes what the other uses   *)
(* are never executed at the same time: the explicit fence orders them.    *)
EnginesDisjoint ==
    (\A e \in Engines : Runnable(e)) =>
        LET a == Head(queue["2D"]).ops
            b == Head(queue["3D"]).ops
        IN  /\ Writes(a) \cap (Writes(b) \cup Reads(b)) = {}
            /\ Writes(b) \cap Reads(a) = {}

(* No two of the processor and the engines use a pixmap at the same time    *)
(* unless all of them read it.                                             *)
Exclusive == CpuExclusive /\ EnginesDisjoint

-----------------------------------------------------------------------------
(* Fences and locks.                                                       *)

(* A fence that is waited for, by the processor or by a job, belongs to a  *)
(* job that was submitted: the assertions of TEGRA_WAIT_FENCE() in exa.h   *)
(* and of tegra_stream_submit_v2().                                        *)
FencesActive ==
    /\ At("wait") => \A s \in me.slots : held[s] = NoFence \/ fence[held[s]] # "new"
    /\ At("submit") =>
          LET x == ExplicitFence("3D", me.pix, me.srcs)
          IN  x = NoFence \/ fence[x] # "new"
    /\ LET x == batch.explicit_fence IN x = NoFence \/ fence[x] # "new"

(* The references of a fence are those of the pixmaps, of the streams and  *)
(* of the deferred job: none is put twice or forgotten.                    *)
RefsExact == \A f \in Fences : refs[f] =
    Cardinality({s \in Slots : held[s] = f})
    + Cardinality({e \in Engines : last[e] = f})
    + Cardinality({x \in {"job", "explicit"} :
          (IF x = "job" THEN batch.job_fence ELSE batch.explicit_fence) = f})

(* The freezer is kept from a pixmap by the request that uses it and by    *)
(* the deferred job, once for each use, and by nothing else: freezer_      *)
(* lockcnt neither leaks nor underflows.                                   *)
RequestLocks ==
    CASE req.kind = "solid" -> <<req.want.dst>>
      [] req.kind = "copy" -> <<req.want.src.pix, req.want.dst>>
      [] req.kind = "copyfill" -> <<req.want.dst, req.want.src.pix, req.want.dst>>
      [] OTHER -> <<>>

LocksExact == \A p \in Pixmaps : lockcnt[p] = batch.uses[p].refcnt +
    Cardinality({i \in DOMAIN RequestLocks : RequestLocks[i] = p})

(* What is taken is given back: references of fences, locks of pixmaps.    *)
CountsExact == RefsExact /\ LocksExact

(* The deferred job is not flushed while a composite is being added to it: *)
(* optimizations_3d.c, "Situation of a nested 3d job -> 2d flush -> 3d     *)
(* flush shall not happen".                                                *)
NoNestedFlush ==
    At("flush") /\ req.kind = "composite" =>
        ~ NeedsFlush(me.pix, me.reads, me.writes)

-----------------------------------------------------------------------------
(* Progress.                                                               *)

(* The engines never wait for each other in a cycle, nor for a fence that  *)
(* nobody will signal.                                                     *)
GpuNeverStuck ==
    (\E e \in Engines : queue[e] # <<>>) => \E e \in Engines : Runnable(e)

(* A request is served, whatever fences it waits for, and the deferred job *)
(* goes to the engine (the flush timer of tegra_exa_optimize_3d_           *)
(* submission()).                                                          *)
Served == (req # Idle) ~> (req = Idle)
BatchDrained == (batch.num_jobs > 0) ~> (batch.num_jobs = 0)
=============================================================================
