----------------------------- MODULE Dri2Vblank -----------------------------
(***************************************************************************)
(* DRI2 requests that wait for a vertical blank (dri2.c), and the queue of *)
(* events asked of the kernel (vblank.c).                                  *)
(*                                                                         *)
(* A client waits for a frame, or has the back buffer of a drawable copied *)
(* to the front at a frame.  The driver makes a frame event, links it to   *)
(* the client and to the drawable, enters it into its queue and asks the   *)
(* kernel for a DRM event that carries the sequence number of the entry.   *)
(* Client, drawable and buffers may go before the event arrives.           *)
(*                                                                         *)
(* The X server thread runs every handler to its end, so a handler is one  *)
(* step; the kernel's counter goes on between any two of them.  One CRTC.  *)
(* A frame event is named by its address, and addresses are used again.    *)
(***************************************************************************)
EXTENDS Integers, Sequences, SequencesExt, FiniteSets

CONSTANTS
    Clients,
    Drawables,
    Events,       \* addresses of struct tegra_dri2_frame_event
    Buffers,      \* addresses of DRI2 buffers
    None,
    Wrap,         \* 2^32: the kernel's counter and msc_prev are of this width
    MaxOffset,    \* MAX_VBLANK_OFFSET
    Targets,      \* target_msc as asked for, relative to the kernel's counter
    Equations,    \* divisors and remainders
    Refusable,    \* the kinds of requests for which the kernel may refuse an event
    FirstFrame,   \* the kernel's counter at the start
    MaxFrame,     \* bound on the kernel's counter
    MaxRequests   \* bound on the requests

Ends == {"front", "back"}

(* What struct tegra_dri2_frame_event holds.                               *)
FrameEvents ==
    [client : Clients \cup {None}, drawable : Drawables \cup {None}, type : {"wait", "swap"},
     front : Buffers \cup {None}, back : Buffers \cup {None}, request : Nat]

ASSUME Dri2Assumption ==
    /\ Wrap \in Nat \ {0} /\ MaxOffset \in Nat /\ FirstFrame \in Nat
    /\ MaxFrame \in Nat /\ MaxRequests \in Nat
    /\ Targets \subseteq Int
    /\ Equations \subseteq [divisor : Nat, remainder : Nat]
    /\ Refusable \subseteq {"wait", "swap"}
    /\ IsFiniteSet(Drawables) /\ IsFiniteSet(Events) /\ IsFiniteSet(Buffers)
    /\ None \notin Clients \cup Drawables \cup Buffers \cup FrameEvents

VARIABLES
    info,          \* the frame events, None where the memory is free
    client_list,   \* client_resource lists
    drawable_list, \* drawable_resource lists
    queue,         \* tegra_drm_queue, newest first
    drm_seq,       \* tegra_drm_seq
    crtc,          \* vblank_offset, msc_prev, msc_high
    buffer,        \* DRI2 buffers with their refcnt
    attached,      \* the buffers DRI2 keeps for a drawable
    pixmap_refcnt, \* references to the pixmap of a window
    clients,       \* connected clients
    windows,       \* drawables that exist
    kernel,        \* DRM events the kernel has yet to send
    frame,         \* the kernel's counter
    asked,         \* what was asked for, and the answers given
    after_free     \* what was done to a frame event once it was free (a record,
                   \* which no step reads): "free" it again, "write" to it

links   == <<info, client_list, drawable_list, queue>>
buffers == <<buffer, attached, pixmap_refcnt>>
outside == <<clients, windows, kernel, frame>>
vars    == <<links, drm_seq, crtc, buffers, outside, asked, after_free>>

NoBuffer == [refcnt |-> 0, window |-> None]

Init ==
    /\ info = [e \in Events |-> None]
    /\ client_list = [c \in Clients |-> {}]
    /\ drawable_list = [d \in Drawables |-> {}]
    /\ queue = <<>> /\ drm_seq = 0
    /\ crtc = [offset |-> 0, prev |-> 0, high |-> 0]
    /\ buffer = [b \in Buffers |-> NoBuffer]
    /\ attached = [d \in Drawables |-> [x \in Ends |-> None]]
    /\ pixmap_refcnt = [d \in Drawables |-> 1]
    /\ clients = Clients /\ windows = Drawables
    /\ kernel = {} /\ frame = FirstFrame
    /\ asked = <<>> /\ after_free = {}

(* Bound: nobody comes, nor asks for buffers, after the last request.      *)
MoreToCome == Len(asked) < MaxRequests

-----------------------------------------------------------------------------
(* Frame counts.  The kernel counts in 32 bits, the protocol in 64.        *)

Signed(x) == IF x % Wrap >= Wrap \div 2 THEN (x % Wrap) - Wrap ELSE x % Wrap

(* tegra_kernel_msc_to_crtc_msc(): the CRTC afterwards, and the result.    *)
ToCrtcMsc(k, sequence) ==
    LET s == (sequence + k.offset) % Wrap
        h == IF Signed(s - k.prev) < - (Wrap \div 4) THEN k.high + Wrap ELSE k.high
    IN  [crtc |-> [k EXCEPT !.prev = s, !.high = h], msc |-> h + s]

(* tegra_crtc_msc_to_kernel_msc(): a count far from the present one moves  *)
(* the offset.                                                             *)
ToKernelMsc(k, expect) ==
    LET now   == ToCrtcMsc(k, frame % Wrap)
        diff  == expect - now.msc
        moved == now.crtc.offset + Signed(diff)
        kept  == IF moved > - MaxOffset /\ moved < MaxOffset THEN 0 ELSE moved
        c     == IF diff < - MaxOffset \/ diff > MaxOffset
                 THEN [now.crtc EXCEPT !.offset = kept] ELSE now.crtc
    IN  [crtc |-> c, sequence |-> (expect - c.offset) % Wrap]

(* Mutant of Requested: the sooner of the target and the present frame.    *)
RequestedSooner(kind, current, target, eq) == IF current < target THEN current ELSE target

(* The frame asked for, of a wait and of a swap: the target or, once it is *)
(* passed, the next solution of the equation.                              *)
Requested(kind, current, target, eq) ==
    LET first == current - (current % eq.divisor) + eq.remainder
        over  == IF kind = "wait" THEN (current % eq.divisor) >= eq.remainder
                                  ELSE first <= current
    IN  CASE current < target    -> target
          [] current >= target /\ eq.divisor = 0 -> current
          [] OTHER               -> IF over THEN first + eq.divisor ELSE first

(* The frame at which the kernel sends an event asked for sequence number  *)
(* s: at once when it is passed, and with NEXTONMISS, which swaps use, at  *)
(* the next frame.                                                         *)
SentAt(kind, s) ==
    LET ahead == Signed(s - frame)
    IN  IF ahead > 0 THEN frame + ahead
        ELSE IF kind = "swap" THEN frame + 1 ELSE frame

-----------------------------------------------------------------------------
(* Frame events and buffers.                                               *)

Held(e) == IF info[e] = None THEN {} ELSE {info[e].front, info[e].back} \ {None}

Final(b, puts) == puts > 0 /\ buffer[b].refcnt = puts

(* tegra_dri2_destroy_buffer() for the references of the events F and of   *)
(* DRI2 to the buffers B; the windows W put the pixmap that is theirs.     *)
PutBuffers(F, B, W) ==
    LET put(b)  == Cardinality({e \in F : b \in Held(e)}) + (IF b \in B THEN 1 ELSE 0)
    IN  /\ buffer' = [b \in Buffers |->
              IF Final(b, put(b)) THEN NoBuffer ELSE [buffer[b] EXCEPT !.refcnt = @ - put(b)]]
        /\ pixmap_refcnt' = [d \in Drawables |-> pixmap_refcnt[d]
              - Cardinality({b \in Buffers : Final(b, put(b)) /\ buffer[b].window = d})
              - (IF d \in W THEN 1 ELSE 0)]

(* tegra_dri2_del_frame_event() for the events of F, after which those of  *)
(* C are taken off their client's list and lose their client, be they free *)
(* or not.  A free one is unlinked already and points to itself, and no    *)
(* allocation comes between, so in its memory these writes change nothing. *)
DelFrameEvents(F, C) ==
    /\ info' = [e \in Events |-> IF e \in F THEN None
                                 ELSE IF e \in C THEN [info[e] EXCEPT !.client = None]
                                 ELSE info[e]]
    /\ client_list' = [c \in Clients |-> client_list[c] \ (F \cup C)]
    /\ drawable_list' = [d \in Drawables |-> drawable_list[d] \ F]
    /\ after_free' = after_free \cup {"free" : e \in {e \in F : info[e] = None}}
                                \cup {"write" : e \in F \cap C}
    /\ PutBuffers(F, {}, {})
    /\ UNCHANGED attached

(* The newest of the entries at the places I of the queue.                 *)
Newest(I) == {queue[i] : i \in {i \in I : \A j \in I : i <= j}}

(* Mutant of Entry: the newest of all.                                     *)
EntryAny(e) == Newest(DOMAIN queue)

(* The entry tegra_drm_abort() removes: the newest that leads to e.        *)
Entry(e) == Newest({i \in DOMAIN queue : queue[i].data = e})

(* The sequence s without the entries of Q.                                *)
Without(s, Q) ==
    LET kept[i \in 0..Len(s)] ==
            IF i = 0 THEN <<>>
            ELSE IF s[i] \in Q THEN kept[i - 1] ELSE Append(kept[i - 1], s[i])
    IN  kept[Len(s)]

-----------------------------------------------------------------------------
(* Buffers (DRI2 asks for them before the first swap, and drops them when  *)
(* the drawable changes).                                                  *)

(* Mutant of FrontRef: the buffer does not count.                          *)
FrontRefMissing(d) == pixmap_refcnt

FrontRef(d) == [pixmap_refcnt EXCEPT ![d] = @ + 1]

(* tegra_dri2_create_buffer() for the buffers DRI2 does not have: the      *)
(* front buffer is the window's pixmap, the back buffer has one of its     *)
(* own.  Its failures undo what they did.                                  *)
CreateBuffers(d) ==
    LET unused == {b \in Buffers : buffer[b] = NoBuffer}
    IN  /\ MoreToCome /\ d \in windows /\ \A x \in Ends : attached[d][x] = None
        /\ Cardinality(unused) >= Cardinality(Ends)
        /\ LET new == CHOOSE f \in [Ends -> unused] : IsInjective(f)
           IN  /\ attached' = [attached EXCEPT ![d] = new]
               /\ buffer' = [buffer EXCEPT
                    ![new["front"]] = [refcnt |-> 1, window |-> d],
                    ![new["back"]] = [refcnt |-> 1, window |-> None]]
        /\ pixmap_refcnt' = FrontRef(d)
        /\ UNCHANGED <<links, drm_seq, crtc, outside, asked, after_free>>

DestroyBuffers(d) ==
    /\ {attached[d][x] : x \in Ends} # {None}
    /\ PutBuffers({}, {attached[d][x] : x \in Ends} \ {None}, {})
    /\ attached' = [attached EXCEPT ![d] = [x \in Ends |-> None]]
    /\ UNCHANGED <<links, drm_seq, crtc, outside, asked, after_free>>

-----------------------------------------------------------------------------
(* Requests.                                                               *)

Waits(c) == \E r \in DOMAIN asked :
    asked[r].client = c /\ asked[r].kind = "wait" /\ asked[r].state = "pending"

(* DRI2 hands on the requests of a client it has not blocked.              *)
MayAsk(kind, c, d) ==
    /\ MoreToCome /\ c \in clients /\ d \in windows /\ ~ Waits(c)
    /\ kind = "swap" => \A x \in Ends : attached[d][x] # None

Pending(kind, c, d, target) ==
    [kind |-> kind, client |-> c, drawable |-> d, target |-> target, state |-> "pending"]

(* Of a request that is over only the outcome is kept.                     *)
Over(state) ==
    [kind |-> None, client |-> None, drawable |-> None, target |-> 0, state |-> state]

(* A drawable that is not displayed, no memory for the event, no resource  *)
(* to link it to: DRI2WaitMSCComplete(), or the copy and                   *)
(* DRI2SwapComplete(), at once.                                            *)
CompleteAtOnce(kind, c, d) ==
    /\ MayAsk(kind, c, d)
    /\ asked' = Append(asked, Over("over"))
    /\ UNCHANGED <<links, drm_seq, crtc, buffers, outside, after_free>>

(* What the two handlers compute before they ask the kernel.               *)
Timing(kind, target, eq) ==
    LET now == ToCrtcMsc(crtc, frame % Wrap)
        k   == ToKernelMsc(now.crtc, Requested(kind, now.msc, target, eq))
    IN  [crtc |-> k.crtc, at |-> SentAt(kind, k.sequence)]

(* The number of the next entry: 0 stands for failure.                     *)
NextSeq == IF drm_seq = 0 THEN 1 ELSE drm_seq

(* tegra_drm_queue_alloc().                                                *)
Enqueue(e) == <<[seq |-> NextSeq, data |-> e]>> \o queue

(* A target in frames from the present one.                                *)
Target(t) == LET now == ToCrtcMsc(crtc, frame % Wrap).msc
             IN  IF now + t < 0 THEN 0 ELSE now + t

FrameEvent(kind, c, d) ==
    [client |-> c, drawable |-> d, type |-> kind,
     front |-> IF kind = "swap" THEN attached[d]["front"] ELSE None,
     back |-> IF kind = "swap" THEN attached[d]["back"] ELSE None,
     request |-> Len(asked) + 1]

(* The address of the next frame event: any free one, so always the same.  *)
Calloc == LET F == {e \in Events : info[e] = None}
          IN  IF F = {} THEN {} ELSE {CHOOSE e \in F : TRUE}

(* The kernel accepts, and the count it replies goes through the           *)
(* conversion.                                                             *)
Schedule(kind, c, d, t, eq) ==
    LET x == Timing(kind, Target(t), eq)
        new(e) == FrameEvent(kind, c, d)
    IN  /\ MayAsk(kind, c, d)
        /\ x.at <= MaxFrame
        /\ \E e \in Calloc :
              /\ info' = [info EXCEPT ![e] = new(e)]
              /\ client_list' = [client_list EXCEPT ![c] = @ \cup {e}]
              /\ drawable_list' = [drawable_list EXCEPT ![d] = @ \cup {e}]
              /\ queue' = Enqueue(e)
              /\ buffer' = [b \in Buffers |-> [buffer[b] EXCEPT !.refcnt =
                    IF b \in {new(e).front, new(e).back} THEN @ + 1 ELSE @]]
        /\ drm_seq' = (NextSeq + 1) % Wrap
        /\ kernel' = kernel \cup {[seq |-> NextSeq, at |-> x.at]}
        /\ crtc' = ToCrtcMsc(x.crtc, x.at % Wrap).crtc
        /\ asked' = Append(asked, Pending(kind, c, d, Target(t)))
        /\ UNCHANGED <<attached, pixmap_refcnt, clients, windows, frame, after_free>>

(* tegra_dri2_schedule_wait_msc().                                         *)
ScheduleWait(c, d, t, eq) == Schedule("wait", c, d, t, eq)

(* tegra_dri2_schedule_swap().                                             *)
ScheduleSwap(c, d, t, eq) == Schedule("swap", c, d, t, eq)

(* Mutant of Leftover: the swap leaves its entry as well.                  *)
LeftoverAlways(kind, e) == Enqueue(e)

(* The kernel refuses: drmWaitVBlank() fails.  A swap aborts its entry by  *)
(* its number, which frees the event; a wait frees the event and leaves    *)
(* the entry.  Both complete at once.                                      *)
Leftover(kind, e) ==
    IF kind = "wait" THEN Enqueue(e) ELSE queue

Refused(kind, c, d, t, eq) ==
    /\ MayAsk(kind, c, d)
    /\ kind \in Refusable
    /\ \E e \in Calloc : queue' = Leftover(kind, e)
    /\ drm_seq' = (NextSeq + 1) % Wrap
    /\ crtc' = Timing(kind, Target(t), eq).crtc
    /\ asked' = Append(asked, Over("over"))
    /\ UNCHANGED <<info, client_list, drawable_list, buffers, outside, after_free>>

(* tegra_dri2_get_msc().                                                   *)
GetMsc ==
    /\ MoreToCome
    /\ crtc' = ToCrtcMsc(crtc, frame % Wrap).crtc
    /\ UNCHANGED <<links, drm_seq, buffers, outside, asked, after_free>>

-----------------------------------------------------------------------------
(* The events of the kernel.                                               *)

Vblank ==
    /\ frame < MaxFrame
    /\ frame' = frame + 1
    /\ UNCHANGED <<links, drm_seq, crtc, buffers, clients, windows, kernel, asked,
                   after_free>>

(* tegra_drm_handler() looks for the entry with the number of the event    *)
(* and calls tegra_dri2_frame_event_handler(): the copy and                *)
(* DRI2SwapComplete(), or DRI2WaitMSCComplete(), unless the drawable is    *)
(* gone.  An event without an entry is dropped.                            *)
Answered(r, msc) == [asked EXCEPT ![r] =
    IF @.state # "pending" THEN Over("astray")
    ELSE IF msc < @.target THEN Over("early") ELSE Over("over")]

HandleEvent(v) ==
    LET Q == Newest({i \in DOMAIN queue : queue[i].seq = v.seq})
        k == ToCrtcMsc(crtc, v.at % Wrap)
    IN  /\ v \in kernel /\ v.at <= frame
        /\ kernel' = kernel \ {v}
        /\ IF Q = {}
           THEN UNCHANGED <<links, crtc, buffers, asked, after_free>>
           ELSE LET e == (CHOOSE q \in Q : TRUE).data
                IN  /\ crtc' = k.crtc
                    /\ queue' = Without(queue, Q)
                    /\ DelFrameEvents({e}, {})
                    /\ asked' = IF info[e] = None \/ None \in {info[e].drawable, info[e].client}
                                THEN asked ELSE Answered(info[e].request, k.msc)
        /\ UNCHANGED <<drm_seq, clients, windows, frame>>

-----------------------------------------------------------------------------
(* Clients, drawables and the screen go.                                   *)

GoneBy(key, x) == [r \in DOMAIN asked |->
    IF asked[r].state = "pending" /\ asked[r][key] = x
    THEN Over("over") ELSE asked[r]]

(* tegra_dri2_frame_event_client_gone(): the entry of every event of the   *)
(* client is aborted, which takes the event off the lists and frees it;    *)
(* the event is then taken off the client's list and loses its client,     *)
(* whether its memory is still its own (there was no entry) or not.        *)
ClientGone(c) ==
    /\ c \in clients
    /\ clients' = clients \ {c}
    /\ LET Q == UNION {Entry(e) : e \in client_list[c]}
       IN  /\ queue' = Without(queue, Q)
           /\ DelFrameEvents({q.data : q \in Q}, client_list[c])
    /\ asked' = GoneBy("client", c)
    /\ UNCHANGED <<drm_seq, crtc, windows, kernel, frame>>

(* tegra_dri2_frame_event_drawable_gone(): the events stay, without their  *)
(* drawable.  DRI2 drops its buffers and unblocks who waits for it.        *)
DrawableGone(d) ==
    /\ d \in windows
    /\ windows' = windows \ {d}
    /\ info' = [e \in Events |-> IF e \in drawable_list[d]
                    THEN [info[e] EXCEPT !.drawable = None] ELSE info[e]]
    /\ drawable_list' = [drawable_list EXCEPT ![d] = {}]
    /\ PutBuffers({}, {attached[d][x] : x \in Ends} \ {None}, {d})
    /\ attached' = [attached EXCEPT ![d] = [x \in Ends |-> None]]
    /\ asked' = GoneBy("drawable", d)
    /\ UNCHANGED <<client_list, queue, drm_seq, crtc, clients, kernel, frame, after_free>>

(* TegraVBlankScreenExit() at the end of a server generation, when clients *)
(* and drawables are gone: what is still queued is aborted.  The kernel    *)
(* may still send what was asked of it, and the numbers go on.             *)
ScreenExit ==
    /\ clients = {} /\ windows = {}
    /\ DelFrameEvents({queue[i].data : i \in DOMAIN queue}, {})
    /\ queue' = <<>>
    /\ UNCHANGED <<drm_seq, crtc, outside, asked>>

Connect(c) ==
    /\ MoreToCome /\ c \notin clients
    /\ clients' = clients \cup {c}
    /\ UNCHANGED <<links, drm_seq, crtc, buffers, windows, kernel, frame, asked, after_free>>

CreateWindow(d) ==
    /\ MoreToCome /\ d \notin windows /\ pixmap_refcnt[d] = 0
    /\ windows' = windows \cup {d}
    /\ pixmap_refcnt' = [pixmap_refcnt EXCEPT ![d] = 1]
    /\ UNCHANGED <<links, drm_seq, crtc, buffer, attached, clients, kernel, frame, asked,
                   after_free>>

-----------------------------------------------------------------------------
Next ==
    \/ \E d \in Drawables : CreateBuffers(d) \/ DestroyBuffers(d)
    \/ \E kind \in {"wait", "swap"}, c \in Clients, d \in Drawables :
          \/ CompleteAtOnce(kind, c, d)
          \/ \E t \in Targets, eq \in Equations :
                Refused(kind, c, d, t, eq)
    \/ \E c \in Clients, d \in Drawables, t \in Targets, eq \in Equations :
          ScheduleWait(c, d, t, eq) \/ ScheduleSwap(c, d, t, eq)
    \/ GetMsc
    \/ Vblank
    \/ \E v \in kernel : HandleEvent(v)
    \/ \E c \in Clients : ClientGone(c) \/ Connect(c)
    \/ \E d \in Drawables : DrawableGone(d) \/ CreateWindow(d)
    \/ ScreenExit

Spec == Init /\ [][Next]_vars

(* The display goes on, and the server reads the events of the kernel.     *)
FairSpec == Spec /\ WF_vars(Vblank) /\ WF_vars(\E v \in kernel : HandleEvent(v))
=============================================================================
