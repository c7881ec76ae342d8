------------------------------ MODULE Pixmaps ------------------------------
(***************************************************************************)
(* The life of EXA pixmaps and of their data (pixmap.c, mm.c, mm_fridge.c, *)
(* cpu_access.c), with the pools of module PixmapPools, the jobs of the    *)
(* GPU and the batch of deferred 3D jobs.                                  *)
(*                                                                         *)
(* Data is allocated at the first use, in a pool, in a BO of its own or in *)
(* system memory.  A pixmap that is not in use is queued in the            *)
(* refrigerator; after a while the block handler freezes it: its data is   *)
(* copied or compressed to the heap and its place is given up.  The next   *)
(* use thaws it.  A pixmap the GPU still works on when it is destroyed is  *)
(* parked on a free list.                                                  *)
(*                                                                         *)
(* The X server calls the driver from one thread, so a call is one step;   *)
(* the GPU finishes jobs between any two of them.  The age of a pixmap in  *)
(* the cool list is a choice of the step that asks for it: the list is in  *)
(* the order of last use, so what is old enough is a prefix.               *)
(***************************************************************************)
EXTENDS PixmapPools, TLC

CONSTANTS
    Kinds,             \* what an address may be used for: kind, usage hint, size
    Luck,              \* what a step cannot choose, see below
    Outcomes,          \* of a freeze: "packed", "raw", "fail"
    Solids,            \* bounds: the pixmaps clients fill, those they access,
    Accesses,          \* and the sources and targets of their copies and
    Copies,            \* composites
    Composites,
    COOLING_LIMIT_MIN,
    COOLING_LIMIT_MAX,
    FREEZE_CHUNK,
    MaxBatch,          \* pixmaps of a 3D job
    MaxJobs,           \* bound on the jobs of the GPU when one is drawn
    MaxAccess,         \* bound on the pixmaps open for CPU access at a time
    exa_refrigerator,  \* options
    exa_erase_pixmaps

(* A plain pixmap is one EXA draws to; a tiny one has one pixel or a depth *)
(* the GPU cannot draw; a dri one is shared with a DRI2 client.  Besides   *)
(* the luck of PixmapPools:                                                *)
(*    bo         whether memory for a BO is to be had                      *)
(*    resurrect  whether the last attempt to resurrect is long enough ago  *)
(*    hw         whether the GPU is preferred for a fill                   *)
ASSUME PixmapAssumption ==
    /\ Kinds \in [Pixmaps -> SUBSET ({"plain", "tiny", "dri"} \X BOOLEAN \X Nat)]
    /\ Luck \subseteq [pool : {"yes", "no", "retry"}, slow : BOOLEAN, fast : BOOLEAN,
                       bo : BOOLEAN, resurrect : BOOLEAN, hw : BOOLEAN]
    /\ Outcomes \subseteq {"packed", "raw", "fail"}
    /\ Solids \cup Accesses \subseteq Pixmaps
    /\ Copies \cup Composites \subseteq {s \in Pixmaps \X Pixmaps : s[1] # s[2]}
    /\ {COOLING_LIMIT_MIN, COOLING_LIMIT_MAX, FREEZE_CHUNK} \subseteq Nat
    /\ {MaxBatch, MaxJobs, MaxAccess} \subseteq Nat
    /\ {exa_refrigerator, exa_erase_pixmaps} \subseteq BOOLEAN

VARIABLE exa     \* struct tegra_exa, with the pixmaps and the GPU

Gone == [life |-> "free", kind |-> "plain", size |-> 0, type |-> "none",
         frozen |-> "no", accelerated |-> FALSE, cold |-> FALSE, fill |-> FALSE]

Init ==
    exa = [pix       |-> [p \in Pixmaps |-> Gone],
           loc       |-> [p \in Pixmaps |-> NoEntry],
           size      |-> [i \in Pools |-> 0],
           mem_pools |-> <<>>,
           gpu       |-> {},       \* [engine, at, writes]
           batch     |-> <<>>,     \* [pix, at, read, write]
           num_jobs  |-> 0,        \* of the batch, up to 2
           cool      |-> <<>>,     \* cool_pixmaps
           cooling   |-> 0,        \* cooling_size
           freelist  |-> <<>>,     \* pixmaps_freelist
           access    |-> <<>>]     \* pixmaps open for the CPU, with their place

Gpu(e, p)  == e.pix[p].type \in {"bo", "pool"}
Live(e, p) == e.pix[p].life = "live"

\* Where the data of p is, as a job or a pointer has it.
Where(e, p) == IF e.pix[p].type = "pool" THEN e.loc[p] ELSE NoEntry

Places(e, S) == [p \in S |-> Where(e, p)]

Submit(e, engine, at, writes) ==
    [e EXCEPT !.gpu = @ \cup {[engine |-> engine, at |-> at, writes |-> writes]}]

-----------------------------------------------------------------------------
(* The queue of the refrigerator, and the release of data.                 *)

\* Mutant of Uncool: the size of the queue is left as it is.
UncoolUncounted(e, p) ==
    IF e.pix[p].cold
    THEN [e EXCEPT !.cool = RemoveFirst(@, p), !.pix[p].cold = FALSE]
    ELSE e

Uncool(e, p) ==
    IF e.pix[p].cold
    THEN [e EXCEPT !.cool = RemoveFirst(@, p), !.cooling = @ - SizeOf(e, p),
                   !.pix[p].cold = FALSE]
    ELSE e

\* tegra_exa_cool_pixmap(); held are the pixmaps the call under way has locked.
Cool(e, p, held) ==
    IF /\ exa_refrigerator /\ e.pix[p].kind = "plain" /\ ~ e.pix[p].cold
       /\ e.pix[p].frozen = "no" /\ e.pix[p].type # "none"
       /\ p \notin held /\ ~ InBatch(e, p)
    THEN [e EXCEPT !.cool = Append(@, p), !.cooling = @ + SizeOf(e, p),
                   !.pix[p].cold = TRUE]
    ELSE e

\* The data of p is given back; the BO of another user stays with that user.
Release(e, p) == IF e.pix[p].type = "pool" THEN FreeEntry(e, p) ELSE e

Free(e, p) == [e EXCEPT !.pix[p] = Gone]

\* Mutant of MustPark: a pixmap the GPU works on is released at once.
ParkNever(e, p) == FALSE

MustPark(e, p) == Busy(e, p)

\* tegra_exa_pixmap_release_data() and the free() of its callers.
ReleaseData(e, p) ==
    LET Done(u) ==
            IF MustPark(u, p)
            THEN [u EXCEPT !.freelist = Append(@, p), !.pix[p].life = "parked"]
            ELSE Free(Release(u, p), p)
    IN  Done(Uncool(e, p))

\* Mutant of Cleanable: what the GPU has finished stays on the list.
CleanBusy(e, p) == Busy(e, p)

Cleanable(e, p) == ~ Busy(e, p)

\* tegra_exa_clean_up_pixmaps_freelist()
CleanFreelist(e, force) ==
    LET Clean(acc, p) ==
            LET idle == Wait(acc, {p})
            IN  IF force \/ Cleanable(acc, p)
                THEN Free(Release([idle EXCEPT !.freelist = RemoveFirst(@, p)], p), p)
                ELSE acc
    IN  FoldLeft(Clean, e, e.freelist)

-----------------------------------------------------------------------------
(* Deferred operations.                                                    *)

\* tegra_exa_optimized_3d_state_unref_all_pixmaps(): every pixmap of the batch
\* is unlocked and queued; one that was destroyed meanwhile is released.
UnrefAll(e, held) ==
    LET Unref(acc, entry) ==
            LET p == entry.pix
                f == [acc EXCEPT !.batch = SelectSeq(@, LAMBDA x : x.pix # p)]
            IN  IF Live(acc, p) THEN Cool(f, p, held) ELSE ReleaseData(f, p)
    IN  [FoldLeft(Unref, e, e.batch) EXCEPT !.num_jobs = 0]

BatchAt(b)     == [p \in {b[k].pix : k \in DOMAIN b} |->
                      b[CHOOSE k \in DOMAIN b : b[k].pix = p].at]
BatchWrites(b) == {b[k].pix : k \in {i \in DOMAIN b : b[i].write}}

\* tegra_exa_submit_deferred_3d_jobs() of batch b.
SubmitBatch(e, b, held) ==
    IF b = <<>> THEN e
    ELSE UnrefAll(Submit(e, "3d", BatchAt(b), BatchWrites(b)), held)

\* tegra_exa_flush_deferred_3d_operations()
Flush3D(e, p, reads, writes, held) ==
    IF \E k \in DOMAIN e.batch : /\ e.batch[k].pix = p
                                 /\ \/ reads /\ e.batch[k].read
                                    \/ writes /\ e.batch[k].write
    THEN SubmitBatch(e, e.batch, held)
    ELSE e

\* tegra_exa_flush_deferred_2d_operations(): a deferred fill is performed, by
\* the GPU or by the CPU.
Flush2D(e, p, held, l) ==
    LET locked == p \in held \/ InBatch(e, p)
        begun  == [e EXCEPT !.pix[p].fill = FALSE]
        thawed == IF locked THEN begun ELSE Uncool(begun, p)
        alone  == Flush3D(thawed, p, TRUE, TRUE, held \cup {p})
        filled == IF Busy(begun, p) \/ l.hw
                  THEN Submit(alone, "2d", Places(alone, {p}), {p})
                  ELSE Wait(thawed, {p})
    IN  IF e.pix[p].fill THEN Cool(filled, p, held) ELSE e

FlushDeferred(e, p, reads, writes, held, l) ==
    Flush3D(Flush2D(e, p, held, l), p, reads, writes, held)

\* tegra_exa_cancel_deferred_operations(): a batch of one job that writes p is
\* dropped if the 3D engine is idle, else the batch is flushed.
Cancel(e, p, held) ==
    LET drop == /\ e.num_jobs = 1
                /\ \A j \in e.gpu : j.engine # "3d"
                /\ \E k \in DOMAIN e.batch : e.batch[k].pix = p /\ e.batch[k].write
    IN  [IF drop THEN UnrefAll(e, held) ELSE Flush3D(e, p, TRUE, TRUE, held)
            EXCEPT !.pix[p].fill = FALSE]

-----------------------------------------------------------------------------
(* Allocation of data, and thawing.                                        *)

\* A pool, else a BO; the pixmap keeps its type when neither is to be had.
AllocGpu(e, p, l) ==
    LET OrBo(f) == IF ~ Gpu(f, p) /\ l.bo THEN [f EXCEPT !.pix[p].type = "bo"] ELSE f
    IN  OrBo(AllocFromPool(e, p, l))

AllocSysmem(e, p) == [e EXCEPT !.pix[p].type = "sysmem"]

OrSysmem(e, p) == IF Gpu(e, p) THEN e ELSE AllocSysmem(e, p)

\* tegra_exa_allocate_pixmap_data_no_fail()
AllocNoFail(e, p, accel, l) ==
    IF accel THEN OrSysmem(AllocGpu(CleanFreelist(e, FALSE), p, l), p)
    ELSE AllocSysmem(e, p)

\* tegra_exa_mm_resurrect_accel_pixmap(): back from system memory.
Resurrect(e, p, l) ==
    IF e.pix[p].kind = "plain" /\ e.pix[p].type = "sysmem" /\ l.resurrect
    THEN AllocGpu(e, p, l) ELSE e

\* tegra_exa_thaw_pixmap_data()
ThawData(e, p, l) ==
    OrSysmem(IF e.pix[p].accelerated THEN AllocGpu(e, p, l) ELSE e, p)

Place(e, p, accel, l) ==
    IF e.pix[p].type = "none" THEN AllocNoFail(e, p, accel, l) ELSE e

\* tegra_exa_thaw_pixmap2()
Thaw(e, p, accel, l) ==
    LET used == [e EXCEPT !.pix[p].accelerated = @ \/ accel]
        u    == Uncool(used, p)
    IN  IF e.pix[p].kind # "plain" THEN e
        ELSE IF ~ exa_refrigerator \/ InBatch(e, p) THEN used
        ELSE IF e.pix[p].frozen # "no"
        THEN [ThawData(used, p, l) EXCEPT !.pix[p].accelerated = accel,
                                          !.pix[p].frozen = "no"]
        ELSE Place(IF accel THEN Resurrect(u, p, l) ELSE u, p, accel, l)

-----------------------------------------------------------------------------
(* What EXA asks for.  Nothing but CPU accesses and their ends happens     *)
(* while a pixmap is open.                                                 *)

Room == exa.access = <<>> /\ Cardinality(exa.gpu) < MaxJobs

\* The luck of a call that uses the pixmaps in S; it matters only if one of
\* them has no place yet, or a fill to perform.
AnyLuck    == CHOOSE l \in Luck : TRUE
LuckFor(S) == IF \A p \in S : Gpu(exa, p) /\ ~ exa.pix[p].fill THEN {AnyLuck} ELSE Luck

\* tegra_exa_modify_pixmap_header() of an off-screen pixmap
ModifyHeader(e, p) == Cool(e, p, {})

\* tegra_exa_pixmap_allocate_data(); the pixmap has no data if it fails.
AllocateData(e, p, hint, l) ==
    LET kind == e.pix[p].kind
    IN  IF kind = "tiny" THEN AllocSysmem(e, p)
        ELSE IF kind = "plain" /\ ~ hint /\ exa_refrigerator THEN e
        ELSE IF kind = "dri" THEN AllocGpu(e, p, l) ELSE OrSysmem(AllocGpu(e, p, l), p)

CreatePixmap(p, kind, hint, size) ==
    /\ exa.access = <<>>
    /\ exa.pix[p].life = "free"
    /\ \E l \in Luck :
          LET new == [Gone EXCEPT !.life = "live", !.kind = kind, !.size = size]
          IN  \E f \in {AllocateData([exa EXCEPT !.pix[p] = new], p, hint, l)} :
                 exa' = IF kind = "dri" /\ ~ Gpu(f, p) THEN Free(f, p)
                        ELSE ModifyHeader(f, p)

\* The data is cleared first if that is wanted and the pixmap is idle: a fill
\* that is only deferred.  A pixmap of the batch is destroyed with the batch.
DestroyPixmap(p) ==
    /\ exa.access = <<>>
    /\ Live(exa, p)
    /\ \E l \in IF exa_erase_pixmaps THEN LuckFor({p}) ELSE {AnyLuck} :
          \E f \in {IF exa_erase_pixmaps /\ ~ Busy(exa, p)
                    THEN Cool(Thaw(exa, p, TRUE, l), p, {}) ELSE exa} :
             exa' = IF InBatch(f, p) THEN [f EXCEPT !.pix[p].life = "dying"]
                    ELSE ReleaseData(f, p)

\* A fill of the whole pixmap is deferred.
FillAll(p) ==
    /\ Room
    /\ Live(exa, p)
    /\ \E l \in LuckFor({p}) : \E t \in {Thaw(exa, p, TRUE, l)} :
          LET f == [Cancel(t, p, {p}) EXCEPT !.pix[p].fill = TRUE]
          IN  exa' = IF Gpu(t, p) THEN Cool(f, p, {}) ELSE t

\* A part is filled: not at all in the colour of a deferred fill, by the CPU
\* if the GPU does not use the pixmap, or by a job.
FillPart(p, by) ==
    /\ Room
    /\ Live(exa, p)
    /\ \E l \in LuckFor({p}) : \E t \in {Thaw(exa, p, TRUE, l)} :
       \E f \in {IF t.pix[p].fill THEN FlushDeferred(t, p, TRUE, TRUE, {p}, l) ELSE t} :
          LET Job(g) == Submit(g, "2d", Places(g, {p}), {p})
              done   == CASE by = "none" -> t
                          [] by = "cpu"  -> f
                          [] by = "gpu"  -> Job(FlushDeferred(f, p, TRUE, TRUE, {p}, l))
          IN  /\ by = "none" => t.pix[p].fill
              /\ by = "cpu" => ~ Busy(t, p) /\ ~ Busy(f, p)
              /\ exa' = IF Gpu(t, p) THEN Cool(done, p, {}) ELSE t

CopyArea(src, dst) ==
    /\ Room
    /\ Live(exa, src) /\ Live(exa, dst)
    /\ \E l \in LuckFor({src, dst}) :
       \E t \in {Thaw(Thaw(exa, src, TRUE, l), dst, TRUE, l)} :
          LET f == FlushDeferred(t, src, FALSE, TRUE, {src, dst}, l)
              Job(g) == Submit(g, "2d", Places(g, {src, dst}), {dst})
              s == Job(FlushDeferred(f, dst, TRUE, TRUE, {src, dst}, l))
          IN  exa' = IF Gpu(t, src) /\ Gpu(t, dst)
                     THEN Cool(Cool(s, src, {}), dst, {}) ELSE t

\* tegra_exa_3d_state_ref_pixmap()
Ref(b, e, p, write) ==
    LET Merge(x) == IF x.pix = p THEN [x EXCEPT !.read = @ \/ ~ write,
                                                !.write = @ \/ write] ELSE x
        new == [pix |-> p, at |-> Where(e, p), read |-> ~ write, write |-> write]
    IN  IF \E k \in DOMAIN b : b[k].pix = p
        THEN [k \in DOMAIN b |-> Merge(b[k])] ELSE Append(b, new)

\* A 3D job joins the batch; when the batch is full it goes out with the job.
\* The deferred fills are performed while the job is built, with nothing locked.
Composite(src, dst) ==
    /\ Room
    /\ Live(exa, src) /\ Live(exa, dst)
    /\ \E l \in LuckFor({src, dst}) :
       \E t \in {Thaw(Thaw(exa, src, TRUE, l), dst, TRUE, l)} :
       \E f \in {Flush2D(Flush2D(t, src, {}, l), dst, {}, l)} :
          LET b == Ref(Ref(f.batch, f, dst, TRUE), f, src, FALSE)
              full   == Len(f.batch) + 2 > MaxBatch
              queued == [f EXCEPT !.batch = b, !.num_jobs = Min({@ + 1, 2})]
              g      == IF full THEN SubmitBatch(f, b, {}) ELSE queued
          IN  exa' = IF Gpu(t, src) /\ Gpu(t, dst)
                     THEN Cool(Cool(g, src, {}), dst, {}) ELSE t

\* tegra_exa_flush_3d_state_cb(), a millisecond after the first job joined
FlushTimer ==
    /\ exa.access = <<>>
    /\ exa.batch # <<>>
    /\ exa' = SubmitBatch(exa, exa.batch, {})

\* The jobs that write p are waited for.
WaitWrites(e, p) == [e EXCEPT !.gpu = {j \in @ : p \notin j.writes}]

\* tegra_exa_prepare_cpu_access(): the pixmap with its data in place and idle.
Opened(e, p, write, l) ==
    LET Idle(f)  == IF write THEN Wait(f, {p}) ELSE WaitWrites(f, p)
        Ready(t) == IF Gpu(t, p) THEN Idle(FlushDeferred(t, p, write, TRUE, {}, l)) ELSE t
    IN  Ready(Thaw(e, p, write, l))

PrepareAccess(p, write) ==
    /\ Live(exa, p)
    /\ p \notin DOMAIN exa.access
    /\ Cardinality(DOMAIN exa.access) < MaxAccess
    /\ \E l \in LuckFor({p}) :
       \E f \in {Opened(exa, p, write, l)} :
          exa' = [f EXCEPT !.access = @ @@ (p :> Where(f, p))]

FinishAccess(p) ==
    /\ p \in DOMAIN exa.access
    /\ exa' = Cool([exa EXCEPT !.access = [q \in DOMAIN @ \ {p} |-> @[q]]], p, {})

\* tegra_exa_load_screen(): an upload or a download is an access of its own.
LoadScreen(p, download) ==
    /\ exa.access = <<>>
    /\ Live(exa, p)
    /\ \E l \in LuckFor({p}) : exa' = Cool(Opened(exa, p, ~ download, l), p, {})

-----------------------------------------------------------------------------
(* Between requests.                                                       *)

\* tegra_exa_freeze_pixmap(): the copy stays in the heap, raw or compressed.
Freeze(e, p, outcome) ==
    LET idle == IF Gpu(e, p) THEN Wait(FlushDeferred(e, p, TRUE, TRUE, {}, AnyLuck), {p})
                ELSE e
        Frozen(u) ==
            IF outcome = "fail" THEN u
            ELSE [Release(u, p) EXCEPT !.pix[p].type = "none", !.pix[p].frozen = outcome]
    IN  Frozen(Uncool(idle, p))

\* tegra_exa_freeze_pixmaps(): the first `stale` pixmaps of the queue whatever
\* happens, then those up to `cold` until enough is frozen or one fails.
FreezePixmaps(e, stale, cold, outcome) ==
    LET emergence == e.cooling > COOLING_LIMIT_MAX
        f == FoldLeft(LAMBDA acc, p : Freeze(acc, p, outcome), e,
                      SubSeq(e.cool, 1, stale))
        Enough(g) == [e    |-> g,
                      done |-> \/ outcome = "fail"
                               \/ ~ emergence /\ e.cooling - g.cooling > FREEZE_CHUNK
                               \/ emergence /\ g.cooling < COOLING_LIMIT_MAX]
        Chill(acc, p) == IF acc.done THEN acc ELSE Enough(Freeze(acc.e, p, outcome))
    IN  FoldLeft(Chill, [e |-> f, done |-> FALSE], SubSeq(e.cool, stale + 1, cold)).e

\* A batch is flushed within a millisecond, so its pixmaps are never old.
Old(e, n) == \A k \in 1 .. n : ~ InBatch(e, e.cool[k])

\* tegra_exa_block_handler(): cold = 0 stands for all the ways not to freeze.
BlockHandler ==
    /\ exa.access = <<>>
    /\ \E cold \in 0 .. Len(exa.cool), outcome \in Outcomes :
       \E stale \in {0, cold} :    \* bound: none of them or all are stale
          /\ Old(exa, cold)
          /\ exa.cooling < COOLING_LIMIT_MIN => cold = 0
          /\ exa' = CleanFreelist(FreezePixmaps(exa, stale, cold, outcome), FALSE)

\* The GPU finishes a job.
GpuDone(j) == exa' = [exa EXCEPT !.gpu = @ \ {j}]

\* TegraEXAScreenExit(), when the server has destroyed its pixmaps; the next
\* generation starts with what is left.
ScreenExit ==
    /\ exa.access = <<>>
    /\ \A p \in Pixmaps : ~ Live(exa, p)
    /\ \E p \in Pixmaps : exa.pix[p].life # "free"
    /\ exa' = CleanFreelist(SubmitBatch(exa, exa.batch, {}), TRUE)

Next ==
    \/ \E p \in Pixmaps : \E k \in Kinds[p] : CreatePixmap(p, k[1], k[2], k[3])
    \/ \E p \in Pixmaps : DestroyPixmap(p) \/ FinishAccess(p)
    \/ \E p \in Solids : FillAll(p) \/ \E by \in {"none", "cpu", "gpu"} : FillPart(p, by)
    \/ \E s \in Copies : CopyArea(s[1], s[2])
    \/ \E s \in Composites : Composite(s[1], s[2])
    \/ \E p \in Accesses, b \in BOOLEAN : PrepareAccess(p, b) \/ LoadScreen(p, b)
    \/ \E j \in exa.gpu : GpuDone(j)
    \/ FlushTimer \/ BlockHandler \/ ScreenExit

\* A block handler with nothing to freeze: freezing is allowed once in some
\* seconds only (mm_fridge.c:759), and the handler runs whenever the server is
\* about to wait.
CleanUp ==
    /\ exa.freelist # <<>>
    /\ exa.access = <<>>
    /\ exa' = CleanFreelist(exa, FALSE)

\* The GPU finishes what it is given, the server ends its accesses and comes
\* back to its main loop, between any two requests or later.
Fairness ==
    /\ \A p \in Pixmaps : WF_exa(\E j \in exa.gpu : p \in DOMAIN j.at /\ GpuDone(j))
    /\ \A p \in Pixmaps : WF_exa(FinishAccess(p))
    /\ SF_exa(CleanUp)

Spec == Init /\ [][Next]_exa /\ Fairness
=============================================================================
