# TLA+ verification of xf86-video-opentegra

This directory models the X.org driver for NVIDIA Tegra (`src/`): the parts of
it that keep state over many requests and share that state with the GPU, the
kernel or other clients. TLC checks the models on small instances; TLAPS proves
the main invariants for every value of the constants.

Paths below are relative to `src/src/`.

## 1. The system

One X server thread runs the driver. It calls the driver's EXA hooks (Prepare,
draw, Done, CPU access, pixmap creation and destruction), its block handler
before it sleeps, its timers, and the handlers of DRM events. The GPU has a 2D
and a 3D engine, which run submitted jobs asynchronously, each engine its own in
order. The kernel owns buffer objects (BOs), framebuffers and vertical blanks.

| Component | Files | State | Operations | Talks to |
|---|---|---|---|---|
| Pool allocator | `mempool/pool_alloc.c` | per pool: bitmap, entry table, remain, fragmented, full, CPU mapping count; per client a handle the allocator rewrites | init, destroy, alloc, free, defrag, transfer, fast transfer, open/close access | pool compaction (callers), the client's `mem_pool_entry` |
| BO library | `tegradrm/tegra.c`, `tegra_bo_cache.c` | BO structs with reference counts, handle and name tables, reuse buckets, list of cached mappings | new, wrap, from_name, from_dmabuf, get_name, forbid_caching, ref, unref, map, unmap, cleanup by age, close | kernel GEM handles; everything that owns memory |
| Command streams and fences | `gpu/` | stream status, job under construction, last fence per engine, fence reference counts and flags | begin, push, end, submit, flush, cleanup; fence get, put, wait, check, mark completed | kernel job queues; deferred drawing |
| Deferred drawing | `exa/optimizations*.c`, `*_2d.c`, `composite*.c`, `helpers.c`, `cpu_access.c` | per pixmap: fences by engine and direction, deferred fill; the batch of deferred 3D jobs, its timer, its explicit fence | Prepare/draw/Done of solid, copy, composite; CPU access; flush, cancel | streams, pixmaps, fridge |
| Pixmaps and fridge | `exa/pixmap.c`, `mm.c`, `mm_fridge.c` | storage type of each pixmap, reference and lock counts, free list of busy pixmaps, list of cooling pixmaps | create, destroy, release, thaw, cool, freeze, resurrect | pools, BO library, deferred drawing |
| Pool compaction | `exa/mm_pool.c` | list of pools, `light` marks, block count, timestamps | allocate from a pool, fast and slow compaction, shrink, merge | pool allocator, fences |
| DRI2, vertical blanks | `dri2.c`, `vblank.c` | queue of requested events, frame events on the lists of client and drawable | schedule wait and swap, event, abort, client or drawable gone | kernel events, X resources |
| Job submission | `tegradrm/uapi_v1..v3` | jobs, relocations, mappings with references, syncobjects | job new, reset, submit, free; map, unmap | BO library, kernel |
| Display, overlays | `drmmode_display.c`, `drm_plane.c`, `xv.c`, `driver.c` | front framebuffer, shadows of rotated CRTCs, pictures, their rotated copies, what each plane was made to show | resize, rotate, mode set, CRTC off and awake, put image, reput, stop, leave and enter the terminal | kernel modesetting, BO library, the 2D engine |
| Software copy | `memcpy-vfp/` | none | forward, backward, threaded copy | pixmap upload and download |
| Everything else | `gpu/gr3d.c`, shaders, `gpu/gr3d-asm` | set-up only | | |

### What is hard

* *Everything is put off.* Fills are noted and not drawn, 3D jobs are gathered
  into batches, busy pixmaps are released later, BOs and mappings are kept for
  reuse, idle pixmaps are compressed. Each of these must be undone by every
  other path that needs the thing.
* *Handles outlive what they name.* Pool entries move, BOs are recycled, structs
  are found again by handle or name.
* *The two engines and the CPU* share pixmaps, ordered only by fences.
* *Steps fail half-way*: `realloc()`, ioctls, job submission, framebuffer
  creation.

### What makes each component correct

* Pool allocator: entries never overlap; the handle of each client leads to its
  entry and its bytes; the counters are exact; defragmentation reaches a compact
  pool; loops end; a transfer leaves nothing behind that would fit.
* BO library: a held BO is neither freed nor recycled; tables do not dangle; one
  struct per handle; references and mappings are counted exactly; nothing leaks
  over close.
* Deferred drawing: CPU, 2D and 3D engine see the pixels of the requests before
  them, in request order; fences are active when waited for, and none leaks.
* Pixmaps and fridge: contents survive freezing; nothing busy is moved or freed.
* Pool compaction: every pixmap keeps its entry; no pool that holds entries is
  destroyed; memory is never returned to the GPU while in use.
* DRI2: a request is answered once and not early, and neither queue nor lists
  refer to a freed event.
* Job submission: mappings live as long as jobs and BOs need them.
* Display and overlays: what is scanned out exists and is what the server draws
  into; a plane shows the last picture or nothing; failure leaks no framebuffer.

## 2. The models

Each component has a module with its state and actions, a `...Props` module with
the properties and an `MC...` module with the definitions the configurations
need. The proved ones have a `...Inv` module with the inductive invariant and
`..._proof` modules (section 4). Operators commented as mutants are plausible
bugs; no specification uses them.

### MemPool — the pool allocator

State: `used` is the bitmap as a set of slots, `entries` the table, `handle` the
clients' `struct mem_pool_entry`, `mem` the bytes of the pool. A client fills its
allocation with data that names it and the position, so that any copy that goes
wrong is visible in `mem`.

| Action | Code |
|---|---|
| `InitPool`, `DestroyPool` | `mem_pool_init()`, `mem_pool_destroy()` |
| `MemPoolAlloc` | `mem_pool_alloc()` up to the point where it returns or starts to defragment; the walk over the gaps is the closed form `Walk` |
| `MemPoolFree` | `mem_pool_free()` |
| `MemPoolDefrag`, `DefragHead`, `DefragStep`, `DefragDone` | `defrag_pool()`, one relocated entry per step |
| `TransferEntries`, `TransferStep`, `TransferDone` | `mem_pool_transfer_entries()` |
| `TransferEntriesFast`, `FastStep` | `mem_pool_transfer_entries_fast()` |
| `OpenAccess`, `CloseAccess` | the CPU mapping count, which callers of a defragmentation hold |

The locals of a looping call live in `op`; no other call starts before it ends,
as the X server thread is inside it. All invariants hold between the iterations
too. `realloc()` fails nondeterministically when `OutOfMemory` is set, and always
at `MaxWords`. The run fails at `MaxWords` only; failures at will are covered by
the proofs, which assume nothing about `OutOfMemory`. Addresses and sizes are in allocation units. Unused entries hold
junk, as in the poisoning debug build. Calls that return without an effect are
not steps.

The fast transfer remembers the smallest size it could not place and skips larger
ones. It also remembers a size that failed for want of a slot (a failed
`realloc()`), so `TransferExhaustive` is stated for `OutOfMemory = FALSE`.

### BoCache — the BO library

State: the structs `bo`, the two tables, the counters, the handles the kernel has
open, and `crashed`. A call is one step: one thread uses the library (the only
other threads of the driver, in `memcpy_vfp.c`, touch no BO). Times are ages,
counted up to the oldest limit of the code; the lists sorted by time are sets
whose oldest members may be the head. The constant `Calls` selects the entry
points the clients use, so that a run can state what holds without lookups.

| Action | Code |
|---|---|
| `NewFromCache`, `NewCreated` | `drm_tegra_bo_new()` with `drm_tegra_bo_cache_alloc()` |
| `Wrap`, `FromHandle`, `FromName`, `FromDmabuf` | the imports, with `lookup_bo()` and, for a cached BO, the reset of `tegra_bo_cache.c:259-290` |
| `Ref`, `UnrefOne`, `UnrefToCache`, `UnrefFree` | `drm_tegra_bo_ref()`, `drm_tegra_bo_unref()` with both cleanups |
| `Map`, `Unmap` | `drm_tegra_bo_map()`, `drm_tegra_bo_unmap()` with the mapping cache |
| `GetName`, `ForbidCaching`, `Close` | the same names in `tegra.c` |
| `Tick` | a second passes |

The process may die of a null pointer (`crashed`), after which nothing happens;
the configurations therefore switch deadlock checking off. Not modelled: tiling
and flags, sparse buckets, the Valgrind and debug counters, the retry of a failed
allocation after dropping all caches.

### Render — deferred drawing

`Drawing` says what an operation does to pixels. A pixmap has a cell `"s"`, an
area small enough to be filled by the CPU (`TEGRA_EXA_CPU_FILL_MIN_SIZE`), and if
it is in `Large` a cell `"l"`; a colour is clear or opaque, and a clear pixel of a
format without alpha reads as black. `Canvas` is the abstract specification: every
operation takes effect at once, and the processor reads what was drawn. `Render`
is the driver, and `ImplementsCanvas` in `RenderProps` maps it to `Canvas`
(`canvas <- ideal`), where `ideal` changes only as requests ask for and `seen`
comes from `mem`, the memory the engines really wrote.

State: `fill`, `alpha_0`, `lockcnt` are the fields of `tegra_pixmap`; `held` its
fences by engine and direction; `fence` and `refs` the fence objects; `last` the
last fence of each stream; `batch` is `gr3d_state`, the deferred 3D job; `queue`
and `signalled` are the kernel's. `req` is the request being served and `todo` the
calls its handler has yet to make, so that engines proceed between any two of
them, also while a handler waits.

| Action | Code |
|---|---|
| `PrepareSolid`, `DeferFill`, `SkipFill`, `PartialFill`, `FillRect`, `DoneSolid` | `solid_2d.c` with the deferral in `optimizations_2d.c` |
| `PrepareCopy`, `CopyRect`, `DoneCopy` | `copy_2d.c`, `tegra_exa_optimize_copy_op()`: a source with a deferred fill turns the copy into a fill |
| `PrepareRotated` | `composite_2d.c` |
| `PrepareComposite`, `CompositeRect`, `DoneComposite`, `AppendJob` | `composite_3d.c`, the state tracker, the choice of operation and operands in `optimizations_3d.c` |
| `FillDeferred`, `FlushDeferred3D`, `TimerFires` | the flushing of what is deferred |
| `SubmitJob`, `Submit`, `Execute` | `tegra_stream_submit_v2()`, and the engines |
| `Wait`, `Poke` | waits for fences, fills by the CPU |
| `PrepareSoftware`, `Software`, `PrepareLook`, `Look` | `cpu_access.c` around what EXA draws or reads itself |

`Quiet` is a state with nothing asked for, batched, queued; a deferred fill may
remain. `Rest` stutters there after the last request, so that any other stop is
a deadlock TLC reports.

Not modelled: failures while a stream is built (only the kernel's refusal is),
pixmaps of 1x1, a full attribute buffer, time-outs of waits, destruction of
pixmaps (see `Pixmaps`), the limit of sparse mappings, the streams of the older
kernel interface.

### Dri2Vblank — DRI2 requests and vertical-blank events

State: `info` holds the `struct tegra_dri2_frame_event` at each address;
`client_list` and `drawable_list` are the lists hung on the two X resources;
`queue` and `drm_seq` are those of `vblank.c`, `crtc` the three counters of the
CRTC; `buffer`, `attached` and `pixmap_refcnt` the DRI2 buffers. The kernel is
`kernel`, the events it has yet to send, and `frame`, its counter of width `Wrap`.
`asked` records every request with what became of it, `after_free` what was done
to an event whose memory was free. A handler is one step.

The destructor of a client's events writes to each of them after `tegra_drm_abort()`
has freed it (`dri2.c:773`). `ClientGone` makes both writes: an event that had no
entry in the queue leaves the list and loses its client; for one that was freed,
`DelFrameEvents` records the write and changes nothing else. That is what the
driver's build does: `tegra_dri2_del_frame_event()` has unlinked the event, so
`xorg_list_del()` finds links that lead to itself, the allocator keeps its own
pointers in the first two words of free memory, before both fields, and the one
server thread allocates nothing in between. An allocator that checks or unmaps
freed memory would end the server there. `NothingAfterFree` says that no such
write is made; it is a known deviation (below), so `dri2` does not check it.

| Action | Code |
|---|---|
| `ScheduleWait`, `ScheduleSwap`, `Refused`, `CompleteAtOnce` | `tegra_dri2_schedule_wait_msc()`, `tegra_dri2_schedule_swap()`, the conversions of `vblank.c`, `tegra_drm_queue_alloc()` |
| `HandleEvent` | `tegra_drm_handler()`, `tegra_dri2_frame_event_handler()` |
| `ClientGone`, `DrawableGone` | the two resource destructors, with `tegra_drm_abort()` and what follows it |
| `CreateBuffers`, `DestroyBuffers` | DRI2 buffers and their references |
| `GetMsc`, `ScreenExit` | the query, which moves `msc_prev`; the end of a generation |
| `Vblank`, `Connect`, `CreateWindow` | the world outside |

Not modelled: a second CRTC, a failing `AddResource()`, a failing query of the
counter.

### PixmapPools and Pixmaps — where pixmaps keep their data

`exa` is `struct tegra_exa` with its pixmaps. `PixmapPools` has `mm_pool.c` as
operators on it, over pools that behave as `MemPool` promises (entries apart, the
lowest gap first); whatever a step cannot choose is its `luck`: memory of the
kernel and whether the clock allows a compaction. `Pixmaps` has the life of a
pixmap: data at the first use (pool, BO or system memory), deferred fills, jobs
on the GPU, the batch of 3D jobs, CPU access, cooling, freezing, thawing,
destruction and the free list. A job remembers where it was told its pixmaps are.

| Action | Code |
|---|---|
| `CreatePixmap`, `DestroyPixmap` | `pixmap.c` |
| `FillAll`, `FillPart`, `CopyArea`, `Composite` | the Prepare hooks as far as they touch storage: thaw, lock, flush, submit, cool |
| `PrepareAccess`, `FinishAccess`, `LoadScreen` | `cpu_access.c`, `load_screen.c` |
| `FlushTimer`, `BlockHandler` | the batch timer; `tegra_exa_block_handler()`: freezing, then the free list |
| `GpuDone` | the GPU finishes a job |
| `ScreenExit` | `tegra_exa_release_mm()` |

The age of a pixmap is not counted: the queue is in the order of last use, so what
is old enough is a prefix of it (`stale`, `cold`). `Old` assumes that no pixmap
old enough is in the batch: the timer of the batch is 1 ms, coldness takes a
minute. Not modelled: the front and scanned-out pixmaps, the large pool, the copies
that `Render` optimizes, compressors (only packed, raw or failed), a failing
`posix_memalign()`, the marks by the number of allocations of a light or heavy
pool list (5 and 16), which three pixmaps do not reach.

### Screen — framebuffers, modes and overlays

`Framebuffers` has the kernel's framebuffers and the BOs under them, `Display` the
mode setting, `Overlays` the video overlays, and `Screen` composes them with the
driver's entry points. A handler is a chain of calls of which any may fail, so
handlers are operators on `w == [drm, mode, video]` with the call that fails as a
parameter, and an action of `Screen` is one request. `drm` is what the kernel has
and shows (`scan`, `plane`); `mode` is `drmmode_rec`, the CRTCs with what the
server remembers of them, and the root pixmap; `video` is `struct TegraVideo`.
Pixels are a picture and its rotation. Ids of framebuffers are used again, as are
the addresses of `struct drm_overlay_fb`. Loops over the CRTCs are folds
(`ForEach`), whose body is an operator of its own.

| Action | Code |
|---|---|
| `Init` | `TegraScreenInit()` with `TegraCreateScreenResources()` |
| `TegraCloseScreen`, `TegraLeaveVT`, `TegraEnterVT` | the same names; `OtherTerminal` is the other master |
| `Resize` | `drmmode_xf86crtc_resize()` |
| `SetMode`, `TegraAdjustFrame` | `drmmode_set_mode_major()` under RandR's and the server's `xf86CrtcRotate()` |
| `Disable`, `WakeUp` | a CRTC loses its outputs; DPMS on |
| `PutImage`, `ReputImage`, `StopVideo` | `TegraVideoOverlayPutImage()`, `...ReputImage()`, `...Stop()` with all they call |

Not modelled: sizes, outputs and their properties, gamma, the cursor, an
upside-down panel, colour key, colour space and attributes of the video, the best
overlay, opening and closing the 2D channel, more than one port.

## 3. Runs

| Run | Instance | Shows |
|---|---|---|
| `mempool` | 2 pools of 6 and 4 units, 3 owners, sizes 1 and 2, 2 words of 2 slots | layout, accounting, handles and data stay right between all loop iterations; transfers are exhaustive; loops end |
| `bocache` | 3 BOs, 2 buckets, 1 name; no lookup of an open handle | references, mappings, counters and handles are exact, also over close |
| `bocache_lookup` | 2 BOs, 1 name, 3 sizes of which one has no bucket, lookups by handle and dma-buf, mapping failures | nothing held is freed or recycled, no twins, no dangling table entry |
| `bocache_revive` | 2 BOs, lookup by handle | a deviation, below |
| `render_2d` | a large, a small and an opaque pixmap; fills, copies, software drawing and reading, some composites | fills that are deferred, skipped, partly drawn or cancelled, and replaced operations and operands, are never seen to be; `alpha_0` is true; refines `Canvas` |
| `render_mixed` | three pixmaps, one scanned out, composites besides | engines and processor never conflict, no nested flush, no engine stuck; what is displayed is what was drawn; refines `Canvas` |
| `render_limits` | three pixmaps, a batch with room for two, a kernel that refuses jobs | fences are waitable, references and locks exact; every request is served, every batch submitted |
| `dri2` | 2 clients, 1 drawable, 2 event addresses, 3 requests, refused swaps | events, queue, lists and references agree; every request is answered, once and not early |
| `pixmaps` | 3 pixmaps, 5 pool addresses, one deferred job of 2 pixmaps, 1 GPU job | data stays where jobs were told; books of the refrigerator agree; nothing is left; the free list drains |
| `pixmaps_pools` | 3 pixmaps of sizes that merge, pour out, shrink and defragment; no refrigerator, erased pixmaps | compaction loses and moves no entry in use; no pool is lost or kept empty |
| `pixmaps_access` | the same with two pixmaps open for the CPU | a deviation, below |
| `screen` | 2 CRTCs, one always rotated, one that turns and may lose its outputs; 3 pictures, copied and shared; 2 places of the window; failing BO, framebuffers, commits and plane closings | framebuffers and references are exact; CRTCs show what the server draws; planes show the last picture or nothing; a new picture is seen |

*Why the bounds suffice.* `mempool`: three owners fill a pool's four slots with the
gaps between, so that a bitmap is full, grown, and refused; six units with sizes
1 and 2 give gaps that are too small, exact and too large, and moves that
overlap themselves; four units are a smaller target for both transfers. For BOs,
two of one size reach `Few`, and ages up to `FewTime` pass every limit; a third
size has no bucket.

`Render` serves four requests. A deferred state takes one or two requests to set
up (a fill, a composite over it), one to disturb it and one to read the result.
A request makes at most two jobs and the batch one, so `MaxFences` (13) is never
reached. Three pixmaps give a destination, a texture and a mask. The request sets
in `MCRender` leave out the situations of the deviations below, or every run
would stop there.

`dri2`: a request, one at the same address after it, and one of another client
that comes between; targets at once and two frames ahead, and an equation; the
counter takes four values, of 64. `Pixmaps`: `Kinds` gives an address one to two
uses. `Solids`, `Accesses`, `Copies` and `Composites` bound which pixmaps clients
use for what, `MaxJobs` what the GPU has at a time when a request comes, `MaxBatch`
the pixmaps of a deferred job. Taking away merging, pouring out, shrinking,
defragmentation or compaction changes the states of `pixmaps_pools`, so all of
them happen. `screen`: two ids of fronts and of pictures are what is held at a
time. Of a rotated copy there are three at once, and a BO outlives its
framebuffer when the other CRTC shares it, hence five ids per CRTC
(`FramebuffersAssumption` asks for no less). CRTC 0
always rotated lets CRTC 1 share its copy, make its own, or need none. The
constant `Faults` names the calls that may fail; the ones left out are below.

*Fairness.* `mempool` assumes weak fairness of the loop step alone: the thread
inside the call keeps running. `render_limits` assumes that the server thread goes
on with the request it serves, that its timer fires when it is idle (it runs the
timers before it sleeps), and that each engine executes its jobs; clients need
ask for nothing. `dri2` assumes that vertical blanks come and that the server
reads events. `pixmaps` assumes weakly that the GPU finishes what it has of each
pixmap and that an open pixmap is closed (EXA does so in the same fallback), and
strongly that the block handler runs when the free list can be cleaned: the server
calls it each time it sleeps, and requests may come between, but not for ever
while nothing has been closed or finished.

*Deadlock* is checked in `mempool`, `render_2d` and `render_mixed`. The other
runs switch it off: the process of `BoCache` may have died, `render_limits` has a
property that says where the system may stop, the requests of `dri2` are bounded,
and after `ScreenExit` or `TegraCloseScreen` there is nothing left to do.

*Symmetry* is used in runs of invariants and action properties only.

### Where code and comments disagree

Shown by a run:

* A BO found in the cache by handle or name is revived with two references
  (`tegra.c:65-66` after `tegra_bo_cache.c:275`): `bocache_revive`. Note that
  `uapi_v1/job.c:128-135` drops two references per relocation on the contrary
  assumption.
* A fallback opens its pixmaps one after the other, and the thawing of the second
  may compact the pools: the pool that holds the first is destroyed with its
  mapping open, which `pool_alloc.c:652` asserts never happens (`cpu_access.c:56`):
  `pixmaps_access`.

Modelled, and part of what `dri2` explores; `NothingAfterFree` states what the code
should do, and no passing run checks it:

* When a client exits, each of its frame events that waits is freed, and then
  unlinked and written to (`dri2.c:773-774`), by the code that hooks events up "so
  we can clean it up if the drawable or client exits" (`dri2.c:341-343`). With
  `NothingAfterFree` as an invariant of `dri2`, TLC shows a request and the exit of
  the client that made it.

Modelled, and left out of the passing runs by their inputs; the request or call in
parentheses makes TLC find it:

* A BO opened by flink name is missing from the handle table and gets a twin
  (`tegra.c:960`); the second lookup of the name follows a null pointer, as the
  list heads are not initialised (`tegra.c:932`). (`"from_name"` in
  `bocache_lookup`; `crashed` becomes `"list"`.)
* Over becomes Src while a clear is deferred for the destination, for all
  rectangles of the request, overlapping ones too (`optimizations_3d.c:81`). (An
  `Over` composite with the rectangles `Small` and `Shifted`; `Settled`.)
* A texture without repeat, replaced by its deferred colour, paints outside its
  area (`composite_3d.c:223`). (`Over` of a small texture without repeat onto all
  of a large pixmap; `Settled`.)
* A source dropped because the mask is empty keeps the fence of a deferred job
  that does not refer to it, and is waited for before that job is submitted
  (`optimizations_3d.c:74`). (`Over` of a texture with the mask `Solid(Clear)`
  onto a pixmap without alpha, then software drawing to the texture, in
  `render_limits`; `FencesActive`.)
* The rotated copy releases freezer locks it did not take (`composite_2d.c:264`).
  (`Rotate` in `render_limits`; `LocksExact`.)
* A partial copy onto a pixmap with a deferred clear leaves `alpha_0` set
  (`optimizations_2d.c:275`). (`CopyOf(A, B, <<Small>>)`, as in `render_mixed`;
  check `AlphaIsZero` there.)
* `!(color & 0x00)` marks any filled A8 pixmap as clear (`optimizations_2d.c:71`).
  (A fill of a pixmap in `A8`; `AlphaIsZero`.)
* The cleanup of cached mappings follows a null bucket for a large BO
  (`tegra_bo_cache.c:398`). (A size without a bucket and `"map"`; `NoNullBucket`.)
* A copy of a whole pixmap onto itself cancels the deferred job that draws it
  (`optimizations_3d.c:742`). (`CopyOf(A, A, <<All(A)>>)` after a composite onto `A`
  in `render_mixed`; `Settled`.)
* The wrap of the kernel's 32-bit counter goes unnoticed: the difference of the new
  and the previous value is 1, not below -0x40000000 (`vblank.c:93`), and the frame
  count a client is told goes back by 2^32. (`FirstFrame` below `Wrap` in `dri2`;
  `MscMonotone`.)
* A refused wait frees its frame event and leaves the queue entry (`dri2.c:565`),
  which the end of the generation frees again. (`"wait"` in `Refusable`; `Tracked`.)
* A failed mapping of the new front leaks its framebuffer
  (`drmmode_display.c:1138`). (`"front_map"` in `Faults` of `screen`;
  `FramebuffersHeld`.)
* A mode the kernel refuses counts as set, as `drmModeSetCrtc()` answers with a
  nonzero `ret`; when the old front goes, the CRTC is dark and taken for active
  (`drmmode_display.c:279`). (`"mode"`; `ScreenShown`.)
* A rotation for which no shadow can be had counts as set too, and `rotate_bo` is
  left dangling when only its framebuffer is refused (`drmmode_display.c:475`).
  (`"rotate_bo"`, `"rotate_fb"`; `ScreenShown`.)
* A framebuffer of client memory that the kernel refuses leaves the BOs it wrapped
  (`drm_plane.c:472`). (`"wrap_fb"`; `FramebuffersHeld`.)
* A name of client memory that cannot be opened counts as opened: `TegraImportBo()`
  answers -1 and `xv.c:778` asks for nonzero. A handle that nobody wrote is wrapped,
  the kernel refuses the framebuffer, the wrapping BO stays, and the clean-up closes
  that handle, whosever it is. (`"wrap_fb"`; a handle that happens to name another
  BO, so that a framebuffer of that is made, is not modelled.)
* When the rotated copy for the second overlay fails, the first keeps the address of
  a picture that is freed, and a later picture at the same address is taken for
  shown (`xv.c:1454`). (`"rotated_fb"`; `NoOldPicture`.)

Read in the code while modelling, outside of what the properties say: the fast
compaction never transfers anything, as it marks its source light first
(`mm_pool.c:236`); freezing a pixmap of system memory that compresses never frees
its fallback (`mm_fridge.c:506`, `keep_fallback`); the buffer a PNG is unpacked
from is not freed (`mm_fridge.c:471`); `ckey_probed` stays set after a stop has
disabled the colour key; after a refused commit the same client memory is not
asked for again and its plane stays dark; a CRTC that was off is not covered
again before the next DPMS wake-up (`drmmode_display.c:189`); when the first
picture is refused by the kernel the port stays off, and closing the screen leaks
the framebuffer, so `FramebuffersHeld` speaks of an open screen; after an error
while a 3D job is appended, pixmaps keep a fence that is never submitted
(`composite_3d_state_tracker.c:501`).

## 4. Proofs

| Module | Proves |
|---|---|
| `MemPoolLayout_proof` | lemmas about one pool: what settling an entry into a gap, freeing it or sliding it down does to order, counters, handles and bytes |
| `MemPool_proof` | `Invariance`; `TypeCorrect`, `SoundAlways`, `ClientsAlways` and the parts of these; `DefragSucceeds` |
| `BoCache_proof` | `Invariance`; `TypeCorrect`, `RecyclingAlways`, `TablesAlways`, `CountsAlways`, `MappingAlways`; `NoTwins`, `BalancesAlways` |
| `Dri2Vblank_proof` | `TrackInvariant`; `TypeCorrect`, `TrackedAlways`; `AnswersInTime`, `MscAlways` |
| `RenderGpu_proof` | lemmas about fences, queues and waiting: the effect of submitting, executing, dropping; no cycle of waits |
| `RenderAgenda_proof` | lemmas about the calls a request is made of: what each does to fences and counts, and that their order sees to what each relies on |
| `Render_proof` | `RenderInvariant`; `AlwaysExclusive`, `EnginesRun`, `WaitedActive`, `NeverNested`, `RefsAlways`, `CountsAlways`, `TypeCorrect`; `AlphaAlways` |
| `Screen_proof` | lemmas about the handlers as functions of the state; `SafeAlways`; `FramebuffersAlwaysHeld`, `ScreenAlwaysShown`, `NeverOldPicture`, `NewPictureAlwaysShown`, `ScreenTyped` |

Every theorem holds for all values of the constants that satisfy the `ASSUME`s of
its module (positive sizes, distinct model values, finite sets of addresses) and
the hypotheses named below; each hypothesis excludes an input, never a state, and
the runs that check the same property satisfy it.

*Pool allocator.* `IInv` (in `MemPoolInv`) adds to the properties what the loops
rely on: `OpInv` says that `defrag_pool()` has made the slots up to its `last`
compact, that the transfer has all used slots of its target at or below it, and
that an allocation waiting for the defragmentation has enough memory in total
and a free slot; `FirstAtBase` says an entry in slot 0 starts at the base.
`DefragSucceeds` proves the action property `DefragAllocSucceeds`: when the last
busy slot is compact everything below it is, so all free memory lies behind it,
where the walk over the gaps finds it in one piece.

*BO library.* `IInv` is a conjunction per struct (`RecOK`), the tables, and the two
counters; the counters need the cardinality of the buckets, hence that `Bos` is
finite. Two more properties hold only for some choices of entry points, and each
has an invariant of its own beside `IInv`:

* `NoTwins` supposes that no BO is opened by its flink name, since those never enter
  the handle table (`tegra.c:960`). `NoEvilTwins` is not inductive: a second struct
  appears when the table does not lead to the first. `AllInTable` says it does.
* `BalancesAlways` supposes `NoRevival`: no lookup by handle or dma-buf finds a BO,
  which would add a reference too many when it was cached (`tegra.c:66`), no name
  is given, and `mmap()` does not fail, after which `mmap_ref` stays raised.
  `BalanceInv` adds that a struct without references is in a bucket, so that
  `drm_tegra_close()` finds them all, and that there are no twins, so that closing
  the handle of one struct takes it from no other.

*DRI2.* `TrackInv` is `Tracked` with types, with the numbers of queue entries (all
given, none twice) and with the references of buffers and pixmaps counted at their
holders. After a client has gone it holds as the writes to the freed event change
nothing (see `Dri2Vblank` above). It supposes `NoRefusedWait`, as a refused wait leaves a queue entry to a
freed event (`dri2.c:565`), and `EnoughNumbers`: fewer requests than sequence numbers,
which never repeat then. `AnswerInv` adds that a live event with a drawable belongs
to a request of its own that is unanswered, and what makes an answer timely: the
offset of the CRTC only grows, and the kernel's event of an entry comes at its
target or later. `AnswersInTime` supposes `EnoughFrames(n)`: targets at most `n`
frames ahead and all frames together within a quarter of the counter, as the wrap
of the counter goes unnoticed (`vblank.c:93`). Under the same hypotheses
`MscAlways` proves the action property `MscMonotone`: a new MSC is the count of the
last question to the kernel plus the offset, and both only grow.

*Deferred drawing.* None of the properties is inductive. Whether the processor may
touch a pixmap depends on calls made earlier in the same request, and whether two
jobs may run together on which fence each of them was told to wait for. `RenderInv`
has two halves:

* `GpuInv` says what a fence that a pixmap holds stands for: a job that is done, one
  that is queued, or the deferred job if that uses the pixmap (`HeldInv`); that a
  pixmap of a queued job holds its fence or a later one of the engine (`CoverInv`);
  that of two conflicting jobs of the engines one waits for the other, the deferred
  job through its explicit fence (`OrderInv`); and that waits lead to earlier jobs
  (`WaitInv`). That the engines never wait in a circle follows by a least job.
* `Agenda` says of each call yet to be made that what it relies on has been seen to
  or will be by a call before it: the batch is flushed before a job or a wait, fills
  are drawn before the pixmap is read, a processor write comes after its wait.

References and locks are counted on top of `RenderInv`, step by step, as sums over
slots, streams, the batch and the request (`RenderAgenda_proof`).

All of this supposes `NoUnfetched`: no request is `Over` with a texture, a mask that
may let nothing through and a destination without alpha. Then the texture is left
out of the batch but given its fence (`composite_3d.c:946`), `HeldInv` fails, and so
does `FencesActive` (listed above). `CountsAlways` and `TypeCorrect` also suppose
`NoRotation`, as a rotated copy gives back locks it did not take
(`composite_2d.c:264`). `render_2d` and `render_limits` satisfy both, `render_mixed`
the first.

`AlphaAlways` is about contents: what `alpha_0` says of a pixmap is true of what the
requests drew. During a request it is not, as `alpha_0` is set when a rectangle is
recorded and the rectangle counts as drawn when it is asked for, or the other way
round. `AlphaInv` therefore says when `alpha_0` and a deferred fill are out of date
(`AlphaStale`, `FillStale`: the destination of a request with operations recorded, or
with a rectangle to fill), that they are true of every other pixmap, and for each
kind of request what will make them true again: the source of a fill that stands for
a copy has the colour filled with (`FillingTrue`), a deferred fill of the destination
is cancelled or performed before the request ends (`CopyTrue`), and a composite that
is left out, or whose operand was replaced by a colour, had an operand that is clear
(`CompositeTrue`). It needs `RenderInv` for the order of the calls: without it the
fill of a destination could be deferred still when `alpha_0` is set. It supposes
`NoA8`, as any colour of one byte per pixel passes for clear
(`optimizations_2d.c:71`), and `WholeCopies`: a partial copy onto a pixmap with a
deferred clear leaves `alpha_0` set (`optimizations_2d.c:275`), a rotated copy does
not look at it, and a copy from a format without alpha brings bits that do not mean
alpha. `render_2d`, which checks `AlphaIsZero`, satisfies both.

*Screen.* A handler is a function of the state, so the lemmas follow one state
through the calls it makes: what each call leaves of the invariant while it is
broken (a new front that no CRTC shows yet, a picture that replaces another), and
what the loop over the CRTCs has done so far. The invariants of `ScreenInv` are
predicates of that state:

* `HeldInv` gives the framebuffers of each purpose to their holder, and each BO one
  reference per framebuffer. A rotated copy may have the memory of the other CRTC's,
  so references are counted over all framebuffers. With `Rests` it is inductive.
* `ShownInv` adds that a CRTC scans out a front or its own shadow, never another's,
  and that an enabled rotated CRTC has a whole shadow: without the second a return to
  the terminal would light a CRTC with nothing. Without the terminal nothing is said
  of what is scanned out, as the other master has it; `TegraEnterVT()` sets every
  CRTC again.
* `PictureInv` says of the planes that they show only framebuffers of their own
  overlay, and of what an overlay is remembered to show that it is true: its rotated
  copy is one of the present picture in the present rotation. `NewPictureShown` then
  follows: an overlay remembers a framebuffer that is still held or none, so a new
  picture never has the id it remembers, and every visible overlay is asked for.

`HeldAlways` supposes `NoLeak`: neither the wrapping of client memory nor the mapping
of a new front fails, which both leak (`drm_plane.c:472`, `drmmode_display.c:1138`).
`ShownAlways` also supposes `NoBadMode`, as a mode or shadow that is refused counts as
set (`drmmode_display.c:279`, `:475`), and `PictureAlways` supposes `NoBadCopy`, as the first overlay
keeps a stale address when the copy of the second fails (`xv.c:1454`). All other
calls of `Faults` may fail in any request. The `Faults` of the run satisfy all three;
the deviations above are what is excluded.

### What stays with TLC

* *Liveness* (`LoopsEnd`, `Served`, `BatchDrained`, `AllAnswered`, the free list) and
  whatever speaks of `ENABLED`: out of this prover's reach.
* `TransferExhaustive` of the allocator: for it, an entry that found no gap must find
  none after later entries have split the gaps, and no such bound is proved.
* `Settled`, `ScreenShows` and the refinement of `Canvas`: these are about the memory
  that engines write, and need the contents that every pixmap will have after the
  jobs of both queues and of the batch, in any order that the waits allow. `RenderInv`
  gives the order, `AlphaInv` what is deferred; the contents of memory are not proved.
* `Pixmaps` and `PixmapPools`: a handler folds over lists of any length (the batch,
  the free list, the pixmaps that have cooled), whose outcome takes induction over
  data, and the pouring of pools into one another is a `RECURSIVE` operator.

## 5. Not modelled, and the plan

`PROJECT.json` lists every component with its state and every hazard with the
properties that cover it. Next, in order:

1. Proofs: `TransferExhaustive` of `MemPool`; the contents of pixmaps in
   `Render`, for one engine first; the books of the refrigerator, once `PixmapPools` is without recursive operators.
2. The streams of the older and the newer kernel interface (held fences of v1,
   syncpoint fences of v3) and job submission (`tegradrm/uapi_v*`): references of
   jobs, mappings shared by channels and BOs. Without them the double references
   of a revived BO and the mappings of `uapi_v3/uapi.c:180` are read, not checked.
3. Two threads in the BO library; today the driver has one that uses it.
4. `Render`: failures while a stream is built.
5. The two-pass block copy (`memcpy-vfp/`) against `memmove()`.

Shader assembly, register set-up (`gr3d.c`), the assembler, Probe and PreInit stay
out: they have no state worth a model, or only call the X server.
